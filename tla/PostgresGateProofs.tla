------------------------- MODULE PostgresGateProofs -------------------------
(***************************************************************************)
(* The row locks of the shared gate are enough: what a gate found stays    *)
(* true until it commits, so that its commit is the whole of runHonorTxn   *)
(* at one instant; nobody waits in a circle; and the shared tables keep    *)
(* the promise of ExactlyOnce, in every instance.                          *)
(***************************************************************************)
EXTENDS PostgresInvariants, GateStoreProofs

LEMMA RetainNat == \A k \in Keys : Retain(k) \in Nat
  BY PostgresAssumption DEF Retain

LEMMA TxnRecord ==
  ASSUME NEW k \in Keys \cup {NULL}, NEW now \in Nat, NEW row \in Nat
  PROVE  /\ Txn0(k, now, row) \in Txn
         /\ Txn0(k, now, row).key = k
  BY DEF Txn0, Txn

LEMMA OverType ==
  ASSUME CallTypeOK, NEW c \in Calls
  PROVE  Over(c) \in Txn /\ Over(c).key = txn[c].key
  BY DEF CallTypeOK, Over, Txn0, Txn

LEMMA ReturnType ==
  ASSUME CallTypeOK, NEW c \in Calls, NEW r \in Results, Return(c, r)
  PROVE  CallTypeOK'
  BY OverType DEF Return, CallTypeOK, InFlight, InTxn

LEMMA MoveType ==
  ASSUME CallTypeOK, NEW c \in Calls, NEW to \in InTxn, MoveOn(c, to), UNCHANGED txn,
         at[c] \in InTxn
  PROVE  CallTypeOK'
  BY DEF MoveOn, CallTypeOK, InFlight, InTxn

LEMMA LoseType ==
  ASSUME CallTypeOK, NEW D, Lose(D)
  PROVE  CallTypeOK'
<1>1. "adapter_error" \in Results
  BY DEF Results
<1>2. \A c \in Calls : Over(c) \in Txn
  BY OverType
<1> QED
  BY <1>1, <1>2 DEF Lose, CallTypeOK, InFlight, InTxn

LEMMA HonorStartType ==
  ASSUME StoreTypeOK, clock \in Nat, CallTypeOK, NEW c \in Calls, NEW k \in Keys,
         HonorStart(c, k)
  PROVE  CallTypeOK'
<1>1. CASE ~Present(k) /\ Answer(c, k, "expired_unobserved")
  BY <1>1, TxnRecord DEF Answer, CallTypeOK, InFlight, InTxn, Results
<1>2. CASE Honored(k) /\ Answer(c, k, "already_honored")
  BY <1>2, TxnRecord DEF Answer, CallTypeOK, InFlight, InTxn, Results
<1>3. CASE Present(k) /\ ~Honored(k)
  <2>1. seen[k].retainUntil \in Nat
    BY <1>3 DEF Present, StoreTypeOK, SeenRow
  <2>2. /\ at' = [at EXCEPT ![c] = "scoring"]
        /\ txn' = [txn EXCEPT ![c] = Txn0(k, clock, seen[k].retainUntil)]
        /\ result' = [result EXCEPT ![c] = "none"]
    BY <1>3 DEF HonorStart, Honored
  <2> QED
    BY <2>1, <2>2, TxnRecord DEF CallTypeOK, InFlight, InTxn, Results
<1> QED
  BY <1>1, <1>2, <1>3 DEF HonorStart

LEMMA LockSeenType ==
  ASSUME CallTypeOK, NEW c \in Calls, NEW o \in Outpoints, LockSeen(c, o)
  PROVE  CallTypeOK'
<1>1. txn[c] \in Txn /\ txn[c].key \in Keys
  BY DEF LockSeen, CallTypeOK, InFlight
<1>2. CASE Return(c, LockRefusal(txn[c].key))
  BY <1>2, ReturnType DEF LockRefusal, Results
<1>3. CASE /\ MoveOn(c, IF Locked(txn[c].key) THEN "waiting" ELSE "locked")
           /\ txn' = [txn EXCEPT ![c].out = o, ![c].reserved = InState(o, "claim_pending")]
  <2> DEFINE to == IF Locked(txn[c].key) THEN "waiting" ELSE "locked"
             res == InState(o, "claim_pending")
             t == [txn[c] EXCEPT !.out = o, !.reserved = res]
  <2>1. to \in InTxn
    BY DEF InTxn
  <2>2. res \in BOOLEAN
    BY DEF InState
  <2> HIDE DEF to, res
  <2>3. t \in Txn /\ t.key = txn[c].key /\ t.out = o
    BY <1>1, <2>2 DEF Txn
  <2>4. txn' = [txn EXCEPT ![c] = t]
    BY <1>3 DEF CallTypeOK, res
  <2>5. at' = [at EXCEPT ![c] = to] /\ result' = result
    BY <1>3 DEF MoveOn, to
  <2>6. o \in Settles[txn[c].key]
    BY DEF LockSeen
  <2> HIDE DEF t
  <2> QED
    BY <1>1, <2>1, <2>3, <2>4, <2>5, <2>6 DEF CallTypeOK, InFlight
<1> QED
  BY <1>2, <1>3 DEF LockSeen

\* With LockInv, a gate that delivers has rows to write.
LEMMA PublishType ==
  ASSUME StoreTypeOK, CallTypeOK, LockInv, NEW c \in Calls, at[c] = "delivering", Publish(c)
  PROVE  StoreTypeOK'
<1> DEFINE k == txn[c].key
           o == txn[c].out
<1>1. /\ k \in Keys /\ o \in Outpoints /\ txn[c].now \in Nat /\ txn[c].row \in Nat
      /\ Mode[k] \in {"single", "promote"}
  <2>1. txn[c] \in Txn /\ at[c] \in InTxn /\ InFlight(c)
    BY DEF CallTypeOK, InFlight, InTxn
  <2>2. k \in Keys /\ o \in Settles[k]
    BY <2>1 DEF CallTypeOK
  <2>3. o \in Outpoints /\ Mode[k] \in {"single", "promote"}
    BY <2>2, PostgresAssumption
  <2> QED
    BY <2>1, <2>2, <2>3 DEF Txn
<1>2. Lockable(k, txn[c].now) /\ Consumable(o, Mode[k])
  BY DEF LockInv, InTxn
<1>3. [seen[k] EXCEPT !.honoredAt = txn[c].now, !.honoredOut = o] \in SeenRow
  <2>1. seen[k] \in SeenRow
    BY <1>1, <1>2 DEF Lockable, Present, StoreTypeOK
  <2> QED
    BY <1>1, <2>1 DEF SeenRow
<1>4. ConsumedOwner(k, o, Mode[k]) \in Keys
  BY <1>1, <1>2 DEF ConsumedOwner, Consumable, InState, StoreTypeOK, ConsumedRow
<1>5. [owner |-> ConsumedOwner(k, o, Mode[k]), state |-> "honored",
       retainUntil |-> txn[c].row] \in ConsumedRow
  BY <1>1, <1>4 DEF ConsumedRow
<1>6. [key |-> k, out |-> o] \in Delivery
  BY <1>1 DEF Delivery
<1>7. /\ seen' = [seen EXCEPT ![k] = [seen[k] EXCEPT !.honoredAt = txn[c].now, !.honoredOut = o]]
      /\ consumed' = [consumed EXCEPT ![o] =
           [owner |-> ConsumedOwner(k, o, Mode[k]), state |-> "honored",
            retainUntil |-> txn[c].row]]
      /\ goods' = Append(goods, [key |-> k, out |-> o])
  BY <1>1 DEF Publish, StoreTypeOK
<1>8. goods' \in Seq(Delivery)
  BY <1>6, <1>7 DEF StoreTypeOK
<1> QED
  BY <1>3, <1>5, <1>7, <1>8 DEF StoreTypeOK

\* Commit ends its own call and the calls it beats.
LEMMA CommitType ==
  ASSUME CallTypeOK, NEW c \in Calls, Commit(c)
  PROVE  CallTypeOK'
<1> DEFINE D == Losers({txn[c].key}) \cup {c}
<1>1. PICK r \in {"honored", "adapter_error"} :
        result' = [d \in Calls |-> IF d = c THEN r
          ELSE IF d \in Losers({txn[c].key}) THEN "adapter_error" ELSE result[d]]
  BY DEF Commit
<1>2. result' \in [Calls -> Results]
  BY <1>1 DEF CallTypeOK, Results
<1>3. /\ at' = [d \in Calls |-> IF d \in D THEN "done" ELSE at[d]]
      /\ txn' = [d \in Calls |-> IF d \in D THEN Over(d) ELSE txn[d]]
  BY DEF Commit
<1>4. \A d \in Calls : Over(d) \in Txn
  BY OverType
<1> HIDE DEF D
<1> QED
  BY <1>2, <1>3, <1>4 DEF CallTypeOK, InFlight, InTxn

LEMMA GateType ==
  ASSUME TypeOK, LockInv, NEW c \in Calls, Gate(c)
  PROVE  TypeOK'
<1> USE DEF TypeOK
<1>1. ASSUME NEW o \in Outpoints, Reserve(c, o) PROVE TypeOK'
  <2>1. txn[c].key \in Keys
    BY <1>1 DEF Reserve, CallTypeOK, InFlight
  <2>2. StoreTypeOK'
    BY <1>1, <2>1, ReserveType DEF Reserve
  <2>3. CallTypeOK'
    BY <1>1, ReturnType DEF Reserve, Results
  <2> QED
    BY <1>1, <2>1, <2>2, <2>3 DEF Reserve, SweepTypeOK
<1>2. ASSUME NEW o \in Outpoints, LockSeen(c, o) PROVE TypeOK'
  <2>1. CallTypeOK'
    BY <1>2, LockSeenType
  <2> QED
    BY <1>2, <2>1 DEF LockSeen, storeVars, StoreTypeOK, SweepTypeOK
<1>3. CASE GetLock(c)
  <2>1. CallTypeOK'
    BY <1>3, MoveType DEF GetLock, InTxn
  <2> QED
    BY <1>3, <2>1 DEF GetLock, storeVars, StoreTypeOK, SweepTypeOK
<1>4. CASE Insert(c)
  <2>1. CallTypeOK'
    BY <1>4, MoveType, ReturnType DEF Insert, InTxn, Results
  <2> QED
    BY <1>4, <2>1 DEF Insert, storeVars, StoreTypeOK, SweepTypeOK
<1>5. CASE Promote(c)
  <2>1. CallTypeOK'
    BY <1>5, MoveType, ReturnType DEF Promote, InTxn, Results
  <2> QED
    BY <1>5, <2>1 DEF Promote, storeVars, StoreTypeOK, SweepTypeOK
<1>6. CASE Commit(c)
  <2>1. StoreTypeOK'
    BY <1>6, PublishType DEF Commit
  <2>2. CallTypeOK'
    BY <1>6, CommitType
  <2> QED
    BY <1>6, <2>1, <2>2 DEF Commit, SweepTypeOK
<1>7. CASE DeliverThrows(c) \/ DeliverRejects(c) \/ DeliverSwallows(c) \/ Fails(c)
  <2>1. PICK r \in Results : Return(c, r) /\ UNCHANGED <<storeVars, clock, claims, sweep>>
    BY <1>7 DEF DeliverThrows, DeliverRejects, DeliverSwallows, Fails, Results
  <2>2. CallTypeOK'
    BY <2>1, ReturnType
  <2> QED
    BY <2>1, <2>2 DEF storeVars, StoreTypeOK, SweepTypeOK
<1> QED
  BY <1>1, <1>2, <1>3, <1>4, <1>5, <1>6, <1>7 DEF Gate

LEMMA SweepStepType ==
  ASSUME TypeOK, SweepStep
  PROVE  TypeOK'
<1> USE DEF TypeOK
<1>1. \A now : ExpiredRows(now) \in SUBSET Keys /\ ExpiredOutpoints(now) \in SUBSET Outpoints
  BY DEF ExpiredRows, ExpiredOutpoints
<1>2. IdleSweep \in [at : {"idle", "first", "second"}, now : Nat,
                     todo : SUBSET (Keys \cup Outpoints), doomed : SUBSET (Keys \cup Outpoints)]
  BY DEF IdleSweep
<1>3. ASSUME NEW now \in 0..MaxTime, SweepBegin(now) PROVE TypeOK'
  <2>1. SweepTypeOK'
    BY <1>1, <1>3, PostgresAssumption DEF SweepBegin, Selects, SweepTypeOK
  <2> QED
    BY <1>3, <2>1 DEF SweepBegin, storeVars, callVars, StoreTypeOK, CallTypeOK, InFlight
<1>4. ASSUME NEW x \in Keys \cup Outpoints, SweepRow(x) PROVE TypeOK'
  <2>1. sweep' = [at |-> sweep.at, now |-> sweep.now, todo |-> sweep.todo \ {x},
                  doomed |-> sweep.doomed \cup {x}]
    BY <1>4 DEF SweepRow, SweepTypeOK
  <2>2. SweepTypeOK'
    BY <1>4, <2>1 DEF SweepTypeOK
  <2> QED
    BY <1>4, <2>2 DEF SweepRow, storeVars, callVars, StoreTypeOK, CallTypeOK, InFlight
<1>5. CASE SweepNext
  <2>1. SweepTypeOK'
    BY <1>1, <1>5 DEF SweepNext, Selects, SweepTypeOK
  <2> QED
    BY <1>5, <2>1 DEF SweepNext, storeVars, callVars, StoreTypeOK, CallTypeOK, InFlight
<1>6. CASE SweepCommit
  <2>1. StoreTypeOK'
    BY <1>6 DEF SweepCommit, StoreTypeOK
  <2>2. CallTypeOK'
    BY <1>6, LoseType DEF SweepCommit
  <2> QED
    BY <1>2, <1>6, <2>1, <2>2 DEF SweepCommit, SweepTypeOK
<1>7. CASE SweepFails
  BY <1>2, <1>7 DEF SweepFails, storeVars, callVars, StoreTypeOK, CallTypeOK, InFlight, SweepTypeOK
<1> QED
  BY <1>3, <1>4, <1>5, <1>6, <1>7 DEF SweepStep

LEMMA NextType ==
  ASSUME TypeOK, LockInv, [Next]_vars
  PROVE  TypeOK'
<1> USE DEF TypeOK
<1>1. ASSUME NEW k \in Keys, Register(k) \/ MarkObserved(k) PROVE TypeOK'
  <2>1. Expiry[k] \in Nat /\ Retain(k) \in Nat
    BY RetainNat, PostgresAssumption
  <2>2. StoreTypeOK'
    BY <1>1, <2>1, UpsertType, MarkObservedType DEF Register, MarkObserved
  <2> QED
    BY <1>1, <2>2 DEF Register, MarkObserved, callVars, CallTypeOK, InFlight, SweepTypeOK
<1>2. ASSUME NEW c \in Calls, NEW k \in Keys, HonorStart(c, k) PROVE TypeOK'
  <2>1. CallTypeOK'
    BY <1>2, HonorStartType
  <2> QED
    BY <1>2, <2>1 DEF HonorStart, storeVars, StoreTypeOK, SweepTypeOK
<1>3. ASSUME NEW c \in Calls, Gate(c) PROVE TypeOK'
  BY <1>3, GateType
<1>4. CASE SweepStep
  BY <1>4, SweepStepType
<1>5. CASE Tick
  BY <1>5 DEF Tick, storeVars, callVars, StoreTypeOK, CallTypeOK, InFlight, SweepTypeOK
<1>6. CASE UNCHANGED vars
  BY <1>6 DEF vars, StoreTypeOK, CallTypeOK, InFlight, SweepTypeOK
<1> QED
  BY <1>1, <1>2, <1>3, <1>4, <1>5, <1>6 DEF Next

-----------------------------------------------------------------------------
\* LockInv, read one call or one pair of calls at a time.
CallInv(c) ==
  /\ at[c] \in InTxn => Lockable(txn[c].key, txn[c].now)
  /\ at[c] = "delivering" => Consumable(txn[c].out, Mode[txn[c].key])
  /\ HeldBy(c) \cap sweep.doomed = {}

PairInv(c, d) == HeldBy(c) \cap HeldBy(d) = {}

LEMMA LockParts ==
  LockInv <=> /\ \A c \in Calls : CallInv(c)
              /\ \A c, d \in Calls : c # d => PairInv(c, d)
  BY DEF LockInv, CallInv, PairInv

\* What a gate looks for in the tables stays as it is when they do.
LEMMA TablesSame ==
  ASSUME UNCHANGED storeVars
  PROVE  /\ \A k, now : Lockable(k, now)' <=> Lockable(k, now)
         /\ \A o, mode : Consumable(o, mode)' <=> Consumable(o, mode)
<1>1. seen' = seen /\ consumed' = consumed
  BY DEF storeVars
<1>2. ASSUME NEW k, NEW now PROVE Lockable(k, now)' <=> Lockable(k, now)
  BY <1>1 DEF Lockable, Present
<1>3. ASSUME NEW o, NEW mode PROVE Consumable(o, mode)' <=> Consumable(o, mode)
  BY <1>1 DEF Consumable, InState
<1> QED
  BY <1>2, <1>3

\* A step of one call that writes no table.
LEMMA OneCallLock ==
  ASSUME LockInv, CallTypeOK, UNCHANGED <<storeVars, sweep>>, NEW c \in Calls,
         \A d \in Calls \ {c} : at'[d] = at[d] /\ txn'[d] = txn[d],
         CallInv(c)',
         \A d \in Calls \ {c} : HeldBy(c)' \cap HeldBy(d) = {}
  PROVE  LockInv'
<1>1. \A d \in Calls \ {c} : CallInv(d)' /\ HeldBy(d)' = HeldBy(d)
  <2> TAKE d \in Calls \ {c}
  <2>1. HeldBy(d)' = HeldBy(d)
    BY DEF HeldBy
  <2>2. Lockable(txn[d].key, txn[d].now) => Lockable(txn[d].key, txn[d].now)'
    BY TablesSame
  <2>3. Consumable(txn[d].out, Mode[txn[d].key]) => Consumable(txn[d].out, Mode[txn[d].key])'
    BY TablesSame
  <2> QED
    BY <2>1, <2>2, <2>3 DEF LockInv, CallInv
<1>2. \A d, e \in Calls : d # e => PairInv(d, e)'
  BY <1>1 DEF LockInv, PairInv
<1> QED
  BY <1>1, <1>2 DEF LockInv, CallInv, PairInv

\* Ending a call releases its locks.
LEMMA ReturnLock ==
  ASSUME LockInv, CallTypeOK, UNCHANGED <<storeVars, sweep>>, NEW c \in Calls, NEW r,
         Return(c, r)
  PROVE  LockInv'
<1>1. \A d \in Calls \ {c} : at'[d] = at[d] /\ txn'[d] = txn[d]
  BY DEF Return, CallTypeOK
<1>2. at'[c] = "done"
  BY DEF Return, CallTypeOK
<1>3. HeldBy(c)' = {}
  BY <1>2 DEF HeldBy
<1>4. CallInv(c)'
  BY <1>2, <1>3 DEF CallInv, InTxn
<1> QED
  BY <1>1, <1>3, <1>4, OneCallLock

\* Moving on takes one more row, free until then.
LEMMA TakeLock ==
  ASSUME LockInv, CallTypeOK, UNCHANGED <<storeVars, sweep>>, NEW c \in Calls,
         NEW k, NEW now, txn'[c].key = k, txn'[c].now = now, Lockable(k, now),
         \/ at'[c] = "locked" /\ ~Locked(k)
         \/ at'[c] = "waiting"
         \/ /\ at[c] = "locked" /\ txn'[c] = txn[c]
            /\ at'[c] = "delivering" /\ ~Locked(txn[c].out)
            /\ Consumable(txn[c].out, Mode[txn[c].key]),
         \A d \in Calls \ {c} : at'[d] = at[d] /\ txn'[d] = txn[d]
  PROVE  LockInv'
<1>1. Lockable(k, now)'
  BY TablesSame
<1>2. CASE at'[c] = "waiting"
  <2>1. HeldBy(c)' = {}
    BY <1>2 DEF HeldBy
  <2>2. CallInv(c)'
    BY <1>1, <1>2, <2>1 DEF CallInv
  <2> QED
    BY <2>1, <2>2, OneCallLock
<1>3. CASE at'[c] = "locked" /\ ~Locked(k)
  <2>1. HeldBy(c)' = {k}
    BY <1>3 DEF HeldBy
  <2>2. \A d \in Calls \ {c} : HeldBy(c)' \cap HeldBy(d) = {}
    BY <1>3, <2>1 DEF Locked
  <2>3. HeldBy(c)' \cap sweep.doomed' = {}
    BY <1>3, <2>1 DEF Locked
  <2>4. CallInv(c)'
    BY <1>1, <1>3, <2>3 DEF CallInv
  <2> QED
    BY <2>2, <2>4, OneCallLock
<1>4. CASE /\ at[c] = "locked" /\ txn'[c] = txn[c]
           /\ at'[c] = "delivering" /\ ~Locked(txn[c].out)
           /\ Consumable(txn[c].out, Mode[txn[c].key])
  <2>1. HeldBy(c)' = HeldBy(c) \cup {txn[c].out}
    BY <1>4 DEF HeldBy
  <2>2. \A d \in Calls \ {c} : HeldBy(c)' \cap HeldBy(d) = {}
    BY <1>4, <2>1 DEF Locked, LockInv
  <2>3. HeldBy(c)' \cap sweep.doomed' = {}
    BY <1>4, <2>1 DEF Locked, LockInv
  <2>4. Consumable(txn[c].out, Mode[txn[c].key])'
    BY <1>4, TablesSame
  <2>5. CallInv(c)'
    BY <1>1, <1>4, <2>3, <2>4 DEF CallInv
  <2> QED
    BY <2>2, <2>5, OneCallLock
<1> QED
  BY <1>2, <1>3, <1>4

\* A statement of one row that nobody has locked, the calls left alone.
LEMMA RowLock ==
  ASSUME LockInv, UNCHANGED <<at, txn, sweep>>, NEW x, ~Locked(x),
         \A k \in Keys, now \in Nat : Lockable(k, now) => Lockable(k, now)',
         \A o \in Outpoints \ {x} : consumed'[o] = consumed[o],
         CallTypeOK
  PROVE  LockInv'
<1>1. \A c \in Calls : HeldBy(c)' = HeldBy(c)
  BY DEF HeldBy
<1>2. \A c \in Calls : at[c] \in InTxn => /\ txn[c].key \in Keys /\ txn[c].now \in Nat
                                         /\ txn[c].out \in Outpoints
  BY PostgresAssumption DEF CallTypeOK, InFlight, Txn
<1>3. \A c \in Calls : at[c] = "delivering" => consumed'[txn[c].out] = consumed[txn[c].out]
  BY <1>2 DEF Locked, HeldBy, InTxn
<1>4. \A c \in Calls : CallInv(c)'
  BY <1>1, <1>2, <1>3 DEF LockInv, CallInv, Consumable, InState
<1> QED
  BY <1>1, <1>4 DEF LockInv, CallInv

LEMMA ConsumerLock ==
  ASSUME TypeOK, LockInv, NEW k \in Keys, Register(k) \/ MarkObserved(k)
  PROVE  LockInv'
<1>1. \A j \in Keys, now \in Nat : Lockable(j, now) => Lockable(j, now)'
  <2>1. CASE Register(k)
    BY <2>1 DEF Register, UpsertAccepted, Lockable, Present, TypeOK, StoreTypeOK
  <2>2. CASE MarkObserved(k)
    <3>1. ASSUME NEW j \in Keys, NEW now \in Nat, Lockable(j, now)
          PROVE  Lockable(j, now)'
      <4>1. seen[j] \in SeenRow
        BY <3>1 DEF Lockable, Present, TypeOK, StoreTypeOK
      <4>2. \/ seen'[j] = seen[j]
            \/ seen'[j] = [seen[j] EXCEPT !.observed = TRUE]
        BY <2>2 DEF MarkObserved, MarkObservedBeforeExpiry, TypeOK, StoreTypeOK
      <4>3. CASE seen'[j] = [seen[j] EXCEPT !.observed = TRUE]
        <5>1. /\ seen'[j].honoredAt = seen[j].honoredAt
              /\ seen'[j].retainUntil = seen[j].retainUntil
              /\ seen'[j].observed
              /\ seen'[j] \in SeenRow
          BY <4>1, <4>3 DEF SeenRow
        <5> QED
          BY <3>1, <5>1, StoreAssumption DEF Lockable, Present
      <4> QED
        BY <3>1, <4>2, <4>3 DEF Lockable, Present
    <3> QED
      BY <3>1
  <2> QED
    BY <2>1, <2>2
<1> QED
  BY <1>1, RowLock DEF Register, MarkObserved, UpsertAccepted, MarkObservedBeforeExpiry,
                       callVars, TypeOK


\* What a commit writes is its own rows; the calls it beats no longer wait.
LEMMA CommitLock ==
  ASSUME TypeOK, LockInv, NEW c \in Calls, Commit(c)
  PROVE  LockInv'
<1>1. \A d \in Calls : \/ at'[d] = "done"
                       \/ /\ at'[d] = at[d] /\ txn'[d] = txn[d]
                          /\ d # c /\ d \notin Losers({txn[c].key})
  BY DEF Commit, TypeOK, CallTypeOK
<1>2. \A d \in Calls : HeldBy(d)' \subseteq HeldBy(d)
  BY <1>1 DEF HeldBy
<1>3. /\ \A k \in Keys : k # txn[c].key => seen'[k] = seen[k]
      /\ \A o \in Outpoints : o # txn[c].out => consumed'[o] = consumed[o]
      /\ sweep' = sweep
  BY DEF Commit, Publish, TypeOK, StoreTypeOK
<1>4. ASSUME NEW d \in Calls, at'[d] # "done" PROVE CallInv(d)'
  <2>1. at'[d] = at[d] /\ txn'[d] = txn[d] /\ d # c /\ d \notin Losers({txn[c].key})
    BY <1>1, <1>4
  <2>2. at[d] \in InTxn => /\ txn[d].key \in Keys /\ txn[d].key # txn[c].key
                           /\ txn[d].out \in Outpoints
    <3>1. at[c] = "delivering"
      BY DEF Commit
    <3>2. at[d] = "waiting" => txn[d].key # txn[c].key
      BY <2>1 DEF Losers
    <3>3. at[d] \in {"locked", "delivering"} => txn[d].key # txn[c].key
      BY <2>1, <3>1 DEF LockInv, HeldBy
    <3> QED
      BY <3>2, <3>3, PostgresAssumption DEF TypeOK, CallTypeOK, InFlight, InTxn
  <2>3. at[d] \in InTxn => Lockable(txn[d].key, txn[d].now)'
    BY <1>3, <2>1, <2>2 DEF LockInv, Lockable, Present
  <2>4. at[d] = "delivering" => txn[d].out # txn[c].out
    BY <2>1 DEF LockInv, HeldBy, Commit
  <2>5. at[d] = "delivering" => Consumable(txn[d].out, Mode[txn[d].key])'
    BY <1>3, <2>1, <2>2, <2>4 DEF LockInv, Consumable, InState, InTxn
  <2>6. HeldBy(d)' \cap sweep.doomed' = {}
    BY <1>2, <1>3 DEF LockInv
  <2> QED
    BY <2>1, <2>3, <2>5, <2>6 DEF CallInv
<1>5. ASSUME NEW d \in Calls, at'[d] = "done" PROVE CallInv(d)'
  BY <1>5 DEF CallInv, InTxn, HeldBy
<1>6. \A d, e \in Calls : d # e => PairInv(d, e)'
  BY <1>2 DEF LockInv, PairInv
<1> QED
  BY <1>4, <1>5, <1>6 DEF LockInv, CallInv, PairInv

LEMMA GateLock ==
  ASSUME TypeOK, LockInv, NEW c \in Calls, Gate(c)
  PROVE  LockInv'
<1>1. CallTypeOK /\ StoreTypeOK
  BY DEF TypeOK
<1>2. ASSUME NEW o \in Outpoints, Reserve(c, o) PROVE LockInv'
  <2>1. at' = [at EXCEPT ![c] = "done"] /\ at[c] = "scoring"
    BY <1>2 DEF Reserve, Return
  <2>2. /\ sweep' = sweep /\ seen' = seen /\ ~Locked(o)
        /\ \A q \in Outpoints \ {o} : consumed'[q] = consumed[q]
    BY <1>1, <1>2 DEF Reserve, ReserveClaimOutpoint, StoreTypeOK
  <2>3. \A d \in Calls : HeldBy(d)' \subseteq HeldBy(d)
    BY <1>1, <1>2, <2>1 DEF HeldBy, Reserve, Return, CallTypeOK
  <2>4. ASSUME NEW d \in Calls PROVE CallInv(d)'
    <3>1. at'[d] = "done" \/ (at'[d] = at[d] /\ txn'[d] = txn[d])
      BY <1>1, <1>2 DEF Reserve, Return, CallTypeOK
    <3>2. ASSUME NEW k, NEW now, Lockable(k, now) PROVE Lockable(k, now)'
      BY <2>2, <3>2 DEF Lockable, Present
    <3>3. at[d] = "delivering" => txn[d].out \in Outpoints \ {o}
      BY <1>1, <2>2, PostgresAssumption DEF CallTypeOK, InFlight, InTxn, Locked, HeldBy
    <3>4. ASSUME NEW q \in Outpoints \ {o}, NEW mode, Consumable(q, mode)
          PROVE  Consumable(q, mode)'
      BY <2>2, <3>4 DEF Consumable, InState
    <3>5. CASE at'[d] = "done"
      BY <3>5 DEF CallInv, InTxn, HeldBy
    <3>6. CASE at'[d] = at[d] /\ txn'[d] = txn[d]
      <4>1. at'[d] \in InTxn => Lockable(txn[d].key, txn[d].now)'
        BY <3>2, <3>6 DEF LockInv
      <4>2. at'[d] = "delivering" => Consumable(txn[d].out, Mode[txn[d].key])'
        BY <3>3, <3>4, <3>6 DEF LockInv
      <4> QED
        BY <2>2, <2>3, <4>1, <4>2 DEF LockInv, CallInv
    <3> QED
      BY <3>1, <3>5, <3>6
  <2>5. \A d, e \in Calls : d # e => PairInv(d, e)'
    BY <2>3 DEF LockInv, PairInv
  <2> QED
    BY <2>4, <2>5 DEF LockInv, CallInv, PairInv
<1>3. ASSUME NEW o \in Outpoints, LockSeen(c, o) PROVE LockInv'
  <2>1. CASE Return(c, LockRefusal(txn[c].key))
    BY <1>1, <1>3, <2>1, ReturnLock DEF LockSeen
  <2>2. CASE /\ Lockable(txn[c].key, txn[c].now)
             /\ MoveOn(c, IF Locked(txn[c].key) THEN "waiting" ELSE "locked")
             /\ txn' = [txn EXCEPT ![c].out = o, ![c].reserved = InState(o, "claim_pending")]
    <3> DEFINE t == [txn[c] EXCEPT !.out = o, !.reserved = InState(o, "claim_pending")]
    <3>0. txn[c] \in Txn /\ at \in [Calls -> InTxn \cup {"idle", "scoring", "done"}]
      BY <1>1 DEF CallTypeOK
    <3>a. t.key = txn[c].key /\ t.now = txn[c].now
      BY <3>0 DEF Txn
    <3>b. txn' = [txn EXCEPT ![c] = t]
      BY <2>2
    <3>c. txn'[c] = t /\ \A d \in Calls \ {c} : txn'[d] = txn[d]
      <4> HIDE DEF t
      <4> QED
        BY <1>1, <3>b DEF CallTypeOK
    <3>1. /\ txn'[c].key = txn[c].key /\ txn'[c].now = txn[c].now
          /\ \A d \in Calls \ {c} : at'[d] = at[d] /\ txn'[d] = txn[d]
      <4>1. \A d \in Calls \ {c} : at'[d] = at[d]
        BY <2>2, <3>0 DEF MoveOn
      <4> QED
        BY <3>a, <3>c, <4>1
    <3>2. \/ at'[c] = "locked" /\ ~Locked(txn[c].key)
          \/ at'[c] = "waiting"
      <4> HIDE DEF t
      <4>1. CASE Locked(txn[c].key)
        <5>1. MoveOn(c, "waiting")
          BY <2>2, <4>1
        <5> QED
          BY <5>1, <3>0 DEF MoveOn
      <4>2. CASE ~Locked(txn[c].key)
        <5>1. MoveOn(c, "locked")
          BY <2>2, <4>2
        <5> QED
          BY <5>1, <4>2, <3>0 DEF MoveOn
      <4> QED
        BY <4>1, <4>2
    <3>3. UNCHANGED <<storeVars, sweep>>
      BY <1>3 DEF LockSeen
    <3> QED
      BY <1>1, <2>2, <3>1, <3>2, <3>3, TakeLock
  <2> QED
    BY <1>3, <2>1, <2>2 DEF LockSeen
<1>4. CASE GetLock(c)
  <2>1. Lockable(txn[c].key, txn[c].now)
    BY <1>4 DEF GetLock, LockInv, InTxn
  <2>2. /\ at'[c] = "locked" /\ txn' = txn /\ ~Locked(txn[c].key)
        /\ \A d \in Calls \ {c} : at'[d] = at[d]
        /\ UNCHANGED <<storeVars, sweep>>
    BY <1>1, <1>4 DEF GetLock, MoveOn, CallTypeOK
  <2> QED
    BY <1>1, <2>1, <2>2, TakeLock
<1>5. ASSUME Insert(c) \/ Promote(c) PROVE LockInv'
  <2>1. UNCHANGED <<storeVars, sweep>> /\ at[c] = "locked"
    BY <1>5 DEF Insert, Promote
  <2>2. CASE \E r : Return(c, r)
    BY <1>1, <2>1, <2>2, ReturnLock
  <2>3. CASE /\ MoveOn(c, "delivering") /\ UNCHANGED txn
             /\ ~Locked(txn[c].out) /\ Consumable(txn[c].out, Mode[txn[c].key])
    <3>1. Lockable(txn[c].key, txn[c].now)
      BY <2>1 DEF LockInv, InTxn
    <3>2. at'[c] = "delivering" /\ \A d \in Calls \ {c} : at'[d] = at[d]
      BY <1>1, <2>3 DEF MoveOn, CallTypeOK
    <3> QED
      BY <1>1, <2>1, <2>3, <3>1, <3>2, TakeLock
  <2> QED
    BY <1>5, <2>2, <2>3 DEF Insert, Promote, Consumable
<1>6. CASE Commit(c)
  BY <1>6, CommitLock
<1>7. CASE DeliverThrows(c) \/ DeliverRejects(c) \/ DeliverSwallows(c) \/ Fails(c)
  BY <1>1, <1>7, ReturnLock DEF DeliverThrows, DeliverRejects, DeliverSwallows, Fails
<1> QED
  BY <1>2, <1>3, <1>4, <1>5, <1>6, <1>7 DEF Gate

\* The sweep dooms free rows only, and its commit ends those who wait for them.
LEMMA SweepLock ==
  ASSUME TypeOK, LockInv, SweepStep
  PROVE  LockInv'
<1>1. CASE SweepCommit
  <2>1. \A d \in Calls : \/ at'[d] = "done"
                         \/ /\ at'[d] = at[d] /\ txn'[d] = txn[d]
                            /\ d \notin Losers(sweep.doomed)
    BY <1>1 DEF SweepCommit, Lose, TypeOK, CallTypeOK
  <2>2. /\ \A k \in Keys : k \notin sweep.doomed => seen'[k] = seen[k]
        /\ \A o \in Outpoints : o \notin sweep.doomed => consumed'[o] = consumed[o]
        /\ sweep'.doomed = {}
    BY <1>1 DEF SweepCommit, IdleSweep
  <2>3. \A d \in Calls : HeldBy(d)' \subseteq HeldBy(d)
    BY <2>1 DEF HeldBy
  <2>4. ASSUME NEW d \in Calls PROVE CallInv(d)'
    <3>1. at[d] \in InTxn => txn[d].key \in Keys /\ txn[d].out \in Outpoints
      BY PostgresAssumption DEF TypeOK, CallTypeOK, InFlight
    <3>2. CASE at'[d] = "done"
      BY <2>2, <3>2 DEF CallInv, InTxn, HeldBy
    <3>3. CASE at'[d] # "done"
      <4>1. at'[d] = at[d] /\ txn'[d] = txn[d] /\ d \notin Losers(sweep.doomed)
        BY <2>1, <3>3
      <4>2. at[d] \in InTxn => txn[d].key \notin sweep.doomed
        BY <4>1 DEF Losers, LockInv, HeldBy, InTxn
      <4>3. at[d] = "delivering" => txn[d].out \notin sweep.doomed
        BY DEF LockInv, HeldBy
      <4>4. at[d] \in InTxn => Lockable(txn[d].key, txn[d].now)'
        BY <2>2, <3>1, <4>1, <4>2 DEF LockInv, Lockable, Present
      <4>5. at[d] = "delivering" => Consumable(txn[d].out, Mode[txn[d].key])'
        BY <2>2, <3>1, <4>1, <4>3 DEF LockInv, Consumable, InState, InTxn
      <4> QED
        BY <2>2, <4>1, <4>4, <4>5 DEF CallInv
    <3> QED
      BY <3>2, <3>3
  <2>5. \A d, e \in Calls : d # e => PairInv(d, e)'
    BY <2>3 DEF LockInv, PairInv
  <2> QED
    BY <2>4, <2>5 DEF LockInv, CallInv, PairInv
<1>2. ASSUME UNCHANGED <<storeVars, callVars>>,
             \A c \in Calls : HeldBy(c) \cap sweep'.doomed = {}
      PROVE  LockInv'
  <2>1. \A c \in Calls : HeldBy(c)' = HeldBy(c)
    BY <1>2 DEF callVars, HeldBy
  <2>2. \A c \in Calls : CallInv(c)'
    BY <1>2, <2>1, TablesSame DEF callVars, LockInv, CallInv
  <2> QED
    BY <2>1, <2>2 DEF LockInv, CallInv
<1>3. ASSUME NEW x \in Keys \cup Outpoints, SweepRow(x) PROVE LockInv'
  <2>1. sweep'.doomed = sweep.doomed \cup {x}
    BY <1>3 DEF SweepRow, TypeOK, SweepTypeOK
  <2>2. \A c \in Calls : HeldBy(c) \cap sweep'.doomed = {}
    BY <1>3, <2>1 DEF SweepRow, Locked, LockInv
  <2> QED
    BY <1>2, <1>3, <2>2 DEF SweepRow
<1>4. ASSUME NEW now \in 0..MaxTime, SweepBegin(now) PROVE LockInv'
  BY <1>2, <1>4 DEF SweepBegin
<1>5. CASE SweepNext
  <2>1. sweep'.doomed = sweep.doomed
    BY <1>5 DEF SweepNext, TypeOK, SweepTypeOK
  <2> QED
    BY <1>2, <1>5, <2>1 DEF SweepNext, LockInv
<1>6. CASE SweepFails
  BY <1>2, <1>6 DEF SweepFails, IdleSweep
<1> QED
  BY <1>1, <1>3, <1>4, <1>5, <1>6 DEF SweepStep

LEMMA NextLock ==
  ASSUME TypeOK, LockInv, [Next]_vars
  PROVE  LockInv'
<1>1. CallTypeOK
  BY DEF TypeOK
<1>2. ASSUME UNCHANGED <<storeVars, callVars, sweep>> PROVE LockInv'
  <2>1. \A c \in Calls : HeldBy(c)' = HeldBy(c)
    BY <1>2 DEF callVars, HeldBy
  <2>2. \A c \in Calls : CallInv(c)'
    BY <1>2, <2>1, TablesSame DEF callVars, LockInv, CallInv
  <2> QED
    BY <2>1, <2>2 DEF LockInv, CallInv
<1>3. ASSUME NEW c \in Calls, NEW k \in Keys, HonorStart(c, k) PROVE LockInv'
  <2>1. /\ at'[c] \in {"scoring", "done"}
        /\ \A d \in Calls \ {c} : at'[d] = at[d] /\ txn'[d] = txn[d]
        /\ UNCHANGED <<storeVars, sweep>>
    BY <1>1, <1>3 DEF HonorStart, Answer, CallTypeOK
  <2>2. HeldBy(c)' = {} /\ CallInv(c)'
    BY <2>1 DEF HeldBy, CallInv, InTxn
  <2> QED
    BY <1>1, <2>1, <2>2, OneCallLock
<1>4. ASSUME NEW k \in Keys, Register(k) \/ MarkObserved(k) PROVE LockInv'
  BY <1>4, ConsumerLock
<1>5. CASE Tick \/ UNCHANGED vars
  BY <1>2, <1>5 DEF Tick, vars, callVars, storeVars
<1> QED
  BY <1>3, <1>4, <1>5, GateLock, SweepLock DEF Next
-----------------------------------------------------------------------------
\* Type correctness and the lock invariant, which need each other: only what is
\* still there can be published with the right type.
THEOREM LocksHold == Spec => [](TypeOK /\ LockInv)
<1>1. Init => TypeOK /\ LockInv
  <2> SUFFICES ASSUME Init PROVE TypeOK /\ LockInv
    OBVIOUS
  <2>1. Txn0(NULL, 0, 0) \in Txn
    BY TxnRecord
  <2>2. TypeOK
    BY <2>1, InitStoreType
       DEF Init, TypeOK, CallTypeOK, SweepTypeOK, IdleSweep, InFlight, InTxn, Results
  <2>3. LockInv
    BY DEF Init, LockInv, HeldBy, InTxn
  <2> QED
    BY <2>2, <2>3
<1>2. TypeOK /\ LockInv /\ [Next]_vars => (TypeOK /\ LockInv)'
  BY NextType, NextLock
<1> QED
  BY <1>1, <1>2, PTL DEF Spec

THEOREM TypeCorrect == Spec => []TypeOK
  BY LocksHold, PTL

\* Only Commit moves goods, and by LockInv what it writes is all of runHonorTxn
\* on the tables as they stand: four statements and their waits act as one step.
THEOREM GateActsAtOnce == Spec => GateIsAtomic
<1>1. ASSUME TypeOK, LockInv, [Next]_vars, goods' # goods
      PROVE  \E c \in Calls :
               /\ at[c] = "delivering"
               /\ RunHonorTxn(txn[c].key, txn[c].out, txn[c].now, txn[c].row,
                              Mode[txn[c].key], "ok")
  <2>1. PICK c \in Calls : Commit(c)
    <3>1. ASSUME NEW k \in Keys, Register(k) \/ MarkObserved(k) PROVE goods' = goods
      BY <3>1 DEF Register, MarkObserved, UpsertAccepted, MarkObservedBeforeExpiry
    <3>2. ASSUME NEW c \in Calls, NEW k \in Keys, HonorStart(c, k) PROVE goods' = goods
      BY <3>2 DEF HonorStart, storeVars
    <3>3. ASSUME NEW c \in Calls, Gate(c), ~Commit(c) PROVE goods' = goods
      BY <3>3 DEF Gate, Reserve, ReserveClaimOutpoint, LockSeen, GetLock, Insert, Promote,
                  DeliverThrows, DeliverRejects, DeliverSwallows, Fails, storeVars
    <3>4. SweepStep \/ Tick \/ UNCHANGED vars => goods' = goods
      BY DEF SweepStep, SweepBegin, SweepRow, SweepNext, SweepCommit, SweepFails, Tick,
             vars, storeVars
    <3> QED
      BY <1>1, <3>1, <3>2, <3>3, <3>4 DEF Next
  <2>2. at[c] = "delivering" /\ Publish(c)
    BY <2>1 DEF Commit
  <2>3. Lockable(txn[c].key, txn[c].now) /\ Consumable(txn[c].out, Mode[txn[c].key])
    BY <1>1, <2>2 DEF LockInv, InTxn
  <2>4. GateViolation(txn[c].key, txn[c].out, txn[c].now, Mode[txn[c].key]) = "none"
    BY <2>3 DEF GateViolation
  <2>5. TxnResult(txn[c].key, txn[c].out, txn[c].now, Mode[txn[c].key], "ok") = "committed"
    BY <2>4 DEF TxnResult
  <2>6. RunHonorTxn(txn[c].key, txn[c].out, txn[c].now, txn[c].row, Mode[txn[c].key], "ok")
    BY <2>2, <2>5 DEF Publish, RunHonorTxn
  <2> QED
    BY <2>2, <2>6
<1>2. TypeOK /\ LockInv /\ [Next]_vars =>
        [goods' # goods => \E c \in Calls :
           /\ at[c] = "delivering"
           /\ RunHonorTxn(txn[c].key, txn[c].out, txn[c].now, txn[c].row,
                          Mode[txn[c].key], "ok")]_vars
  BY <1>1
<1> QED
  BY <1>2, LocksHold, PTL DEF Spec, GateIsAtomic
-----------------------------------------------------------------------------
(***************************************************************************)
(* Nobody waits in a circle, and the shared tables keep the promise.       *)
(***************************************************************************)

\* The sweep takes the rows of one table after those of the other.
LEMMA NextOrder ==
  ASSUME TypeOK, SweepOrder, [Next]_vars
  PROVE  SweepOrder'
<1>1. CASE sweep' = sweep
  BY <1>1 DEF SweepOrder
<1>2. CASE sweep' = IdleSweep
  BY <1>2 DEF SweepOrder, IdleSweep
<1>3. ASSUME NEW now \in 0..MaxTime, SweepBegin(now) PROVE SweepOrder'
  BY <1>3 DEF SweepBegin, SweepOrder, Selects, ExpiredRows
<1>4. ASSUME NEW x \in Keys \cup Outpoints, SweepRow(x) PROVE SweepOrder'
  <2>1. sweep' = [at |-> sweep.at, now |-> sweep.now, todo |-> sweep.todo \ {x},
                  doomed |-> sweep.doomed \cup {x}]
    BY <1>4 DEF SweepRow, TypeOK, SweepTypeOK
  <2> QED
    BY <1>4, <2>1 DEF SweepRow, SweepOrder, IdleSweep
<1>5. CASE SweepNext
  <2>1. sweep' = [at |-> "second", now |-> sweep.now, todo |-> ExpiredOutpoints(sweep.now),
                  doomed |-> sweep.doomed]
    BY <1>5 DEF SweepNext, Selects, TypeOK, SweepTypeOK
  <2> QED
    BY <2>1 DEF SweepOrder, ExpiredOutpoints
<1>6. sweep' = sweep \/ sweep' = IdleSweep \/ SweepStep
  <2>1. ASSUME NEW c \in Calls, Gate(c) PROVE sweep' = sweep
    BY <2>1 DEF Gate, Reserve, LockSeen, GetLock, Insert, Promote, Commit, DeliverThrows,
                DeliverRejects, DeliverSwallows, Fails
  <2> QED
    BY <2>1 DEF Next, Register, MarkObserved, HonorStart, Tick, vars
<1> QED
  BY <1>1, <1>2, <1>3, <1>4, <1>5, <1>6 DEF SweepStep, SweepCommit, SweepFails

\* Gates and sweep take their rows in one order, quote_seen before the outpoint:
\* the party that is furthest along in it waits for none of the others.
LEMMA OrderedLocks ==
  ASSUME TypeOK, SweepOrder
  PROVE  NoCircularWait
<1> SUFFICES ASSUME NEW S \in SUBSET (Calls \cup {"sweep"}), S # {}
             PROVE  \E p \in S : \A q \in S : ~WaitsFor(p, q)
  BY DEF NoCircularWait
<1> DEFINE Gates == {c \in S : c # "sweep"}
<1>1. Gates \subseteq Calls
  OBVIOUS
<1>2. \A c \in Calls : /\ at[c] \in InTxn => txn[c].key \in Keys /\ txn[c].out \in Outpoints
                       /\ at[c] \notin {"locked", "delivering"} => HeldBy(c) = {}
                       /\ at[c] = "locked" => HeldBy(c) \subseteq Keys
  BY PostgresAssumption DEF TypeOK, CallTypeOK, InFlight, HeldBy, InTxn
<1>3. CASE \E c \in Gates : at[c] = "delivering"
  BY <1>3 DEF WaitsFor
<1>4. CASE /\ ~\E c \in Gates : at[c] = "delivering"
           /\ "sweep" \in S /\ sweep.at = "second"
  <2>1. \A q \in Gates : HeldBy(q) \subseteq Keys
    BY <1>1, <1>2, <1>4
  <2>2. sweep.todo \subseteq Outpoints
    BY <1>4 DEF SweepOrder
  <2>3. \A q \in S : ~WaitsFor("sweep", q)
    BY <2>1, <2>2, PostgresAssumption DEF WaitsFor
  <2> QED
    BY <1>4, <2>3
<1>5. CASE /\ ~\E c \in Gates : at[c] = "delivering"
           /\ ~("sweep" \in S /\ sweep.at = "second")
           /\ \E c \in Gates : at[c] = "locked"
  <2>1. PICK p \in Gates : at[p] = "locked"
    BY <1>5
  <2>2. txn[p].out \in Outpoints
    BY <1>1, <1>2, <2>1 DEF InTxn
  <2>3. \A q \in Gates : HeldBy(q) \subseteq Keys
    BY <1>1, <1>2, <1>5
  <2>4. "sweep" \in S => sweep.doomed \subseteq Keys
    BY <1>5 DEF SweepOrder, IdleSweep, TypeOK, SweepTypeOK
  <2>5. \A q \in S : ~WaitsFor(p, q)
    BY <2>1, <2>2, <2>3, <2>4, PostgresAssumption DEF WaitsFor
  <2> QED
    BY <2>5
<1>6. CASE /\ ~\E c \in Gates : at[c] \in {"locked", "delivering"}
           /\ ~("sweep" \in S /\ sweep.at = "second")
  <2>1. \A q \in Gates : HeldBy(q) = {}
    BY <1>1, <1>2, <1>6
  <2>2. CASE "sweep" \in S
    BY <2>1, <2>2 DEF WaitsFor
  <2>3. CASE "sweep" \notin S
    BY <2>1, <2>3 DEF WaitsFor
  <2> QED
    BY <2>2, <2>3
<1> QED
  BY <1>3, <1>4, <1>5, <1>6

LEMMA InitOrder == Init => SweepOrder
  BY DEF Init, SweepOrder, IdleSweep

\* Any number of gates and one sweep at a time never wait for each other in a
\* circle, in every instance: Postgres breaks no deadlock among them.
THEOREM NobodyWaitsInACircle == Spec => []NoCircularWait
<1>1. TypeOK /\ LockInv /\ SweepOrder /\ [Next]_vars => SweepOrder'
  BY NextOrder
<1>2. TypeOK /\ SweepOrder => NoCircularWait
  BY OrderedLocks
<1> QED
  BY <1>1, <1>2, InitOrder, LocksHold, PTL DEF Spec
-----------------------------------------------------------------------------
LEMMA TablesAreDated ==
  /\ RowsInWindow /\ RetentionInv /\ GateMatchesGoods <=> TablesDated(Expiry, Retention)
  /\ (RowsInWindow /\ RetentionInv /\ GateMatchesGoods)' <=> TablesDated(Expiry, Retention)'
  BY DEF TablesDated, RowsInWindow, RowsDated, RetentionInv, RowsRetained, Retention, Retain

\* A commit is the whole of runHonorTxn, on rows that are still what it found.
LEMMA CommitIsWhole ==
  ASSUME TypeOK, LockInv, NEW c \in Calls, Commit(c)
  PROVE  LET k == txn[c].key
             o == txn[c].out
         IN /\ k \in Keys /\ o \in Settles[k] /\ o \in Outpoints
            /\ txn[c].now \in Nat /\ txn[c].row \in Nat /\ Mode[k] \in {"single", "promote"}
            /\ TxnResult(k, o, txn[c].now, Mode[k], "ok") = "committed"
            /\ RunHonorTxn(k, o, txn[c].now, txn[c].row, Mode[k], "ok")
<1> DEFINE k == txn[c].key
           o == txn[c].out
<1>1. at[c] = "delivering" /\ Publish(c)
  BY DEF Commit
<1>2. /\ k \in Keys /\ o \in Settles[k] /\ o \in Outpoints
      /\ txn[c].now \in Nat /\ txn[c].row \in Nat /\ Mode[k] \in {"single", "promote"}
  BY <1>1, PostgresAssumption DEF TypeOK, CallTypeOK, InFlight, InTxn, Txn
<1>3. Lockable(k, txn[c].now) /\ Consumable(o, Mode[k])
  BY <1>1 DEF LockInv, InTxn
<1>4. TxnResult(k, o, txn[c].now, Mode[k], "ok") = "committed"
  BY <1>3 DEF GateViolation, TxnResult
<1>5. RunHonorTxn(k, o, txn[c].now, txn[c].row, Mode[k], "ok")
  BY <1>1, <1>4 DEF Publish, RunHonorTxn
<1> QED
  BY <1>2, <1>4, <1>5

LEMMA CommitHas ==
  ASSUME TypeOK, LockInv, NEW c \in Calls, Commit(c)
  PROVE  CommitEffect(txn[c].key, txn[c].out, txn[c].now, txn[c].row)
<1>1. StoreTypeOK
  BY DEF TypeOK
<1> QED
  BY <1>1, CommitIsWhole, CommitWrites

\* A gate of the window cannot lock a quote whose retention is over, unless the
\* quote was observed before its expiry.
LEMMA LateLockObserved ==
  ASSUME CallsFitWindow, TypeOK, LockInv, RowsInWindow, CallsInWindow,
         NEW c \in Calls, at[c] \in InTxn, Retain(txn[c].key) < clock
  PROVE  Touched(txn[c].key)
<1>1. txn[c].key \in Keys /\ txn[c].now \in Nat /\ clock <= txn[c].now + CallSpan
  BY DEF TypeOK, CallTypeOK, Txn, InFlight, CallsInWindow
<1>2. Lockable(txn[c].key, txn[c].now)
  BY DEF LockInv
<1>3. ~(txn[c].now < Expiry[txn[c].key])
  BY <1>1, PostgresAssumption DEF Retain, CallsFitWindow, TypeOK
<1> QED
  BY <1>1, <1>2, <1>3 DEF Lockable, Touched, RowsInWindow

\* What is committed while a sweep runs is either selected by it or not due.
LEMMA CommitDuringSweep ==
  ASSUME CallsFitWindow, TypeOK, LockInv, SharedInv, sweep.at # "idle",
         NEW c \in Calls, Commit(c), DueKey(txn[c].key)
  PROVE  /\ txn[c].key \in Chosen
         /\ sweep.at # "second"
<1>1. at[c] = "delivering" /\ txn[c].key \in Keys
  BY CommitIsWhole DEF Commit
<1>2. Retain(txn[c].key) < clock
  BY <1>1, RetainNat DEF DueKey, SharedInv, SweepInv, TypeOK, SweepTypeOK
<1>3. Touched(txn[c].key)
  BY <1>1, <1>2, LateLockObserved DEF SharedInv, InTxn
<1>4. txn[c].key \in Chosen
  BY <1>1, <1>3 DEF SharedInv, SweepInv
<1>5. txn[c].key \notin sweep.doomed
  BY <1>1 DEF LockInv, HeldBy
<1>6. sweep.at = "second" => txn[c].key \notin sweep.todo
  BY <1>1, PostgresAssumption DEF SharedInv, SweepOrder
<1> QED
  BY <1>4, <1>5, <1>6 DEF Chosen
-----------------------------------------------------------------------------
\* SweepInv, read one row at a time while a sweep runs.
KeySwept(k) ==
  /\ k \in Chosen => DueKey(k)
  /\ Touched(k) /\ DueKey(k) => k \in Chosen

OutpointSwept(o) ==
  /\ o \in Chosen => DueOutpoint(o)
  /\ sweep.at = "second" /\ DueOutpoint(o) => o \in Chosen

LEMMA SweepParts ==
  /\ SweepInv <=> (sweep.at # "idle" => /\ sweep.now <= clock
                                        /\ \A k \in Keys : KeySwept(k)
                                        /\ \A o \in Outpoints : OutpointSwept(o))
  /\ SweepInv' <=> (sweep'.at # "idle" => /\ sweep'.now <= clock'
                                          /\ \A k \in Keys : KeySwept(k)'
                                          /\ \A o \in Outpoints : OutpointSwept(o)')
  BY DEF SweepInv, KeySwept, OutpointSwept

\* Steps that leave the sweep alone: what they touch afresh is not due, or chosen.
LEMMA SweepKept ==
  ASSUME SweepInv, sweep' = sweep, clock \in Nat, clock' \in Nat, clock <= clock',
         sweep.now \in Nat,
         \A k \in Keys : sweep.at # "idle" /\ Touched(k)' /\ DueKey(k) =>
           Touched(k) \/ k \in Chosen,
         \A o \in Outpoints : InState(o, "honored") => consumed'[o] = consumed[o],
         \A o \in Outpoints : sweep.at = "second" /\ DueOutpoint(o)' => DueOutpoint(o)
  PROVE  SweepInv'
<1> SUFFICES ASSUME sweep.at # "idle"
             PROVE  /\ sweep.now <= clock'
                    /\ \A k \in Keys : KeySwept(k)'
                    /\ \A o \in Outpoints : OutpointSwept(o)'
  BY SweepParts
<1>1. /\ sweep.now <= clock
      /\ \A k \in Keys : KeySwept(k)
      /\ \A o \in Outpoints : OutpointSwept(o)
  BY SweepParts
<1>2. Chosen' = Chosen /\ \A k \in Keys : DueKey(k)' <=> DueKey(k)
  BY DEF Chosen, DueKey, Retain
<1>3. \A k \in Keys : KeySwept(k)'
  BY <1>1, <1>2 DEF KeySwept
<1>4. \A o \in Outpoints : DueOutpoint(o) => DueOutpoint(o)'
  BY DEF DueOutpoint, InState
<1>5. \A o \in Outpoints : OutpointSwept(o)'
  BY <1>1, <1>2, <1>4 DEF OutpointSwept
<1> QED
  BY <1>1, <1>3, <1>5
-----------------------------------------------------------------------------
\* A snapshot keeps its dates, and a call of the window its span.
LEMMA NextCalls ==
  ASSUME TypeOK, RowsInWindow, CallsInWindow, [Next]_vars
  PROVE  CallsInWindow'
<1>1. clock \in Nat /\ CallTypeOK /\ CallSpan \in Nat /\ MaxTime \in Nat
  BY PostgresAssumption DEF TypeOK
<1>2. ASSUME clock' = clock,
             \A d \in Calls : InFlight(d)' =>
               /\ InFlight(d) /\ txn'[d].row = txn[d].row /\ txn'[d].key = txn[d].key
               /\ txn'[d].now = txn[d].now
      PROVE  CallsInWindow'
  BY <1>2 DEF CallsInWindow, Retain
<1>3. ASSUME clock' = clock, NEW c \in Calls,
             \A d \in Calls \ {c} : at'[d] = at[d] /\ txn'[d] = txn[d],
             InFlight(c)' => /\ InFlight(c) /\ txn'[c].row = txn[c].row
                             /\ txn'[c].key = txn[c].key /\ txn'[c].now = txn[c].now
      PROVE  CallsInWindow'
  <2>1. \A d \in Calls \ {c} : InFlight(d)' => InFlight(d) /\ txn'[d] = txn[d]
    BY <1>3 DEF InFlight
  <2> QED
    BY <1>2, <1>3, <2>1
<1>4. ASSUME NEW c \in Calls, NEW r, Return(c, r), clock' = clock PROVE CallsInWindow'
  <2>1. at'[c] = "done" /\ \A d \in Calls \ {c} : at'[d] = at[d] /\ txn'[d] = txn[d]
    BY <1>1, <1>4 DEF Return, CallTypeOK
  <2> QED
    BY <1>3, <1>4, <2>1 DEF InFlight, InTxn
<1>5. ASSUME NEW c \in Calls, NEW to, MoveOn(c, to), txn' = txn, clock' = clock, InFlight(c)
      PROVE  CallsInWindow'
  <2>1. \A d \in Calls \ {c} : at'[d] = at[d] /\ txn'[d] = txn[d]
    BY <1>1, <1>5 DEF MoveOn, CallTypeOK
  <2> QED
    BY <1>3, <1>5, <2>1
<1>6. ASSUME NEW c \in Calls, NEW k \in Keys, HonorStart(c, k) PROVE CallsInWindow'
  <2>1. clock' = clock /\ \A d \in Calls \ {c} : at'[d] = at[d] /\ txn'[d] = txn[d]
    BY <1>1, <1>6 DEF HonorStart, Answer, CallTypeOK
  <2>2. CASE at'[c] = "done"
    BY <1>3, <2>1, <2>2 DEF InFlight, InTxn
  <2>3. CASE /\ Present(k)
             /\ txn' = [txn EXCEPT ![c] = Txn0(k, clock, seen[k].retainUntil)]
    <3>1. txn'[c].row = Retain(k) /\ txn'[c].key = k /\ txn'[c].now = clock
      BY <1>1, <2>3 DEF Txn0, RowsInWindow, CallTypeOK
    <3>2. \A d \in Calls \ {c} : InFlight(d)' <=> InFlight(d)
      BY <2>1 DEF InFlight
    <3> QED
      BY <1>1, <2>1, <3>1, <3>2 DEF CallsInWindow, Retain
  <2> QED
    BY <1>1, <1>6, <2>2, <2>3 DEF HonorStart, Answer, CallTypeOK
<1>7. ASSUME NEW c \in Calls, Gate(c) PROVE CallsInWindow'
  <2>1. CASE \E r : Return(c, r) /\ clock' = clock
    BY <1>4, <2>1
  <2>2. CASE \E to : MoveOn(c, to) /\ txn' = txn /\ clock' = clock /\ InFlight(c)
    BY <1>5, <2>2
  <2>3. ASSUME NEW o \in Outpoints, LockSeen(c, o), ~\E r : Return(c, r)
        PROVE  CallsInWindow'
    <3>1. /\ clock' = clock /\ InFlight(c)
          /\ txn' = [txn EXCEPT ![c].out = o, ![c].reserved = InState(o, "claim_pending")]
          /\ \E to : at' = [at EXCEPT ![c] = to]
      BY <2>3 DEF LockSeen, MoveOn, InFlight
    <3> DEFINE t == [txn[c] EXCEPT !.out = o, !.reserved = InState(o, "claim_pending")]
    <3>2. t.row = txn[c].row /\ t.key = txn[c].key /\ t.now = txn[c].now
      BY <1>1 DEF CallTypeOK, Txn
    <3>3. txn' = [txn EXCEPT ![c] = t]
      BY <3>1
    <3> HIDE DEF t
    <3>4. txn'[c] = t /\ \A d \in Calls \ {c} : at'[d] = at[d] /\ txn'[d] = txn[d]
      BY <1>1, <3>1, <3>3 DEF CallTypeOK
    <3> QED
      BY <1>3, <3>1, <3>2, <3>4
  <2>4. CASE Commit(c)
    <3>1. \A d \in Calls : at'[d] = "done" \/ (at'[d] = at[d] /\ txn'[d] = txn[d])
      BY <1>1, <2>4 DEF Commit, CallTypeOK
    <3> QED
      BY <1>2, <2>4, <3>1 DEF Commit, InFlight, InTxn
  <2> QED
    BY <1>7, <2>1, <2>2, <2>3, <2>4
       DEF Gate, Reserve, LockSeen, GetLock, Insert, Promote, DeliverThrows, DeliverRejects,
           DeliverSwallows, Fails, InFlight, InTxn
<1>8. CASE SweepCommit
  <2>1. \A d \in Calls : at'[d] = "done" \/ (at'[d] = at[d] /\ txn'[d] = txn[d])
    BY <1>1, <1>8 DEF SweepCommit, Lose, CallTypeOK
  <2> QED
    BY <1>2, <1>8, <2>1 DEF SweepCommit, InFlight, InTxn
<1>9. CASE Tick
  BY <1>1, <1>9, PostgresAssumption
     DEF Tick, callVars, CallsInWindow, InFlight, Retain, CallTypeOK, Txn
<1>10. CASE UNCHANGED <<clock, callVars>>
  BY <1>2, <1>10 DEF callVars, InFlight
<1> QED
  BY <1>6, <1>7, <1>8, <1>9, <1>10
     DEF Next, SweepStep, SweepBegin, SweepRow, SweepNext, SweepFails, Register, MarkObserved,
         vars, callVars
-----------------------------------------------------------------------------
\* The parts of SharedInv about the rows.
RowsInv == RowsInWindow /\ RetentionInv /\ GateMatchesGoods /\ SweepInv

LEMMA ConsumerShared ==
  ASSUME TypeOK, SharedInv, NEW k \in Keys, Register(k) \/ MarkObserved(k)
  PROVE  RowsInv'
<1>1. /\ StoreTypeOK /\ clock \in Nat /\ clock' = clock /\ sweep' = sweep
      /\ sweep.now \in Nat /\ consumed' = consumed
      /\ Retention[k] = Retain(k) /\ Retain(k) \in Nat /\ Expiry[k] \in Nat
  BY RetainNat, PostgresAssumption
     DEF TypeOK, SweepTypeOK, Register, MarkObserved, UpsertAccepted, MarkObservedBeforeExpiry,
         Retention
<1>2. TablesDated(Expiry, Retention)
  BY TablesAreDated DEF SharedInv
<1>3. TablesDated(Expiry, Retention)'
  <2>1. CASE Register(k)
    BY <1>1, <1>2, <2>1, UpsertDated DEF Register
  <2>2. CASE MarkObserved(k)
    BY <1>1, <1>2, <2>2, MarkDated DEF MarkObserved
  <2> QED
    BY <2>1, <2>2
<1>4. ASSUME NEW j \in Keys, sweep.at # "idle", Touched(j)', DueKey(j) PROVE Touched(j)
  <2>1. CASE Register(k)
    BY <1>1, <1>4, <2>1 DEF Register, UpsertAccepted, Touched, Honored, Present, StoreTypeOK
  <2>2. CASE MarkObserved(k)
    <3>1. ~(clock < Expiry[j])
      BY <1>1, <1>4, PostgresAssumption DEF DueKey, Retain, SharedInv, SweepInv
    <3>2. seen'[j] = seen[j]
      BY <1>1, <2>2, <3>1
         DEF MarkObserved, MarkObservedBeforeExpiry, StoreTypeOK, SharedInv, RowsInWindow
    <3> QED
      BY <1>4, <3>2 DEF Touched, Honored, Present
  <2> QED
    BY <2>1, <2>2
<1>5. \A o \in Outpoints : DueOutpoint(o)' => DueOutpoint(o)
  BY <1>1 DEF DueOutpoint, InState
<1>6. SweepInv'
  BY <1>1, <1>4, <1>5, SweepKept DEF SharedInv
<1> QED
  BY <1>3, <1>6, TablesAreDated DEF RowsInv

LEMMA ReserveShared ==
  ASSUME TypeOK, SharedInv, NEW c \in Calls, NEW o \in Outpoints, Reserve(c, o)
  PROVE  RowsInv'
<1>1. /\ StoreTypeOK /\ clock \in Nat /\ clock' = clock /\ sweep' = sweep
      /\ sweep.now \in Nat /\ seen' = seen /\ txn[c].key \in Keys
      /\ ReserveClaimOutpoint(txn[c].key, o)
  BY DEF TypeOK, SweepTypeOK, CallTypeOK, InFlight, Reserve, ReserveClaimOutpoint
<1>2. TablesDated(Expiry, Retention)
  BY TablesAreDated DEF SharedInv
<1>3. TablesDated(Expiry, Retention)'
  BY <1>1, <1>2, ReserveDated
<1>4. \A q \in Outpoints : /\ InState(q, "honored") => consumed'[q] = consumed[q]
                           /\ DueOutpoint(q)' => DueOutpoint(q)
  BY <1>1 DEF ReserveClaimOutpoint, StoreTypeOK, InState, DueOutpoint
<1>5. SweepInv'
  BY <1>1, <1>4, SweepKept DEF SharedInv, Touched, Honored, Present
<1> QED
  BY <1>3, <1>5, TablesAreDated DEF RowsInv

LEMMA CommitShared ==
  ASSUME CallsFitWindow, TypeOK, LockInv, SharedInv, NEW c \in Calls, Commit(c)
  PROVE  RowsInv'
<1> DEFINE k == txn[c].key
           o == txn[c].out
           now == txn[c].now
<1>1. /\ StoreTypeOK /\ clock \in Nat /\ clock' = clock /\ sweep' = sweep
      /\ sweep.now \in Nat
  BY DEF TypeOK, SweepTypeOK, Commit
<1>2. /\ k \in Keys /\ o \in Outpoints /\ now \in Nat /\ Mode[k] \in {"single", "promote"}
      /\ TxnResult(k, o, now, Mode[k], "ok") = "committed"
      /\ RunHonorTxn(k, o, now, txn[c].row, Mode[k], "ok")
      /\ CommitEffect(k, o, now, txn[c].row)
  BY CommitIsWhole, CommitHas
<1>3. txn[c].row = Retain(k) /\ Retention[k] = Retain(k) /\ Retain(k) \in Nat
  BY <1>2, RetainNat DEF Commit, SharedInv, CallsInWindow, InFlight, InTxn, Retention
<1>4. DueKey(k) /\ sweep.at # "idle" => k \in Chosen /\ sweep.at # "second"
  BY CommitDuringSweep
<1> HIDE DEF k, o, now
<1>5. TablesDated(Expiry, Retention)
  BY TablesAreDated DEF SharedInv
<1>6. TablesDated(Expiry, Retention)'
  BY <1>1, <1>2, <1>3, <1>5, CommitDated
<1>7. ASSUME NEW j \in Keys, sweep.at # "idle", Touched(j)', DueKey(j)
      PROVE  Touched(j) \/ j \in Chosen
  <2>1. CASE j = k
    BY <1>4, <1>7, <2>1
  <2>2. CASE j # k
    BY <1>2, <1>7, <2>2 DEF CommitEffect, Touched, Honored, Present
  <2> QED
    BY <2>1, <2>2
<1>8. \A q \in Outpoints : InState(q, "honored") => consumed'[q] = consumed[q]
  BY <1>2 DEF CommitEffect
<1>9. ASSUME NEW q \in Outpoints, sweep.at = "second", DueOutpoint(q)'
      PROVE  DueOutpoint(q)
  <2>1. CASE q = o
    BY <1>1, <1>2, <1>3, <1>4, <1>9, <2>1 DEF CommitEffect, DueOutpoint, DueKey
  <2>2. CASE q # o
    BY <1>1, <1>2, <1>9, <2>2 DEF CommitEffect, DueOutpoint, InState
  <2> QED
    BY <2>1, <2>2
<1>10. SweepInv'
  BY <1>1, <1>7, <1>8, <1>9, SweepKept DEF SharedInv
<1> QED
  BY <1>6, <1>10, TablesAreDated DEF RowsInv

\* Steps that write no table and leave the sweep alone.
LEMMA SameShared ==
  ASSUME TypeOK, SharedInv, UNCHANGED <<storeVars, sweep>>, clock' \in Nat, clock <= clock'
  PROVE  RowsInv'
<1>1. TablesDated(Expiry, Retention)
  BY TablesAreDated DEF SharedInv
<1>2. TablesDated(Expiry, Retention)'
  BY <1>1, DatedSame
<1>3. sweep.now \in Nat /\ clock \in Nat
  BY DEF TypeOK, SweepTypeOK
<1>4. SweepInv'
  BY <1>3, SweepKept
     DEF SharedInv, storeVars, Touched, Honored, Present, DueOutpoint, InState
<1> QED
  BY <1>2, <1>4, TablesAreDated DEF RowsInv
-----------------------------------------------------------------------------
\* The sweep's commit frees exactly what is due, in both tables, and nobody
\* honors a due quote between its two DELETEs.
LEMMA SweepCommitShared ==
  ASSUME TypeOK, SharedInv, SweepCommit
  PROVE  RowsInv'
<1>1. /\ sweep.at = "second" /\ sweep.todo = {} /\ sweep' = IdleSweep /\ goods' = goods
      /\ seen' = [k \in Keys |-> IF k \in Chosen THEN NoRow ELSE seen[k]]
      /\ consumed' = [o \in Outpoints |-> IF o \in Chosen THEN NoRow ELSE consumed[o]]
  BY DEF SweepCommit, Chosen
<1>2. /\ \A k \in Keys : KeySwept(k)
      /\ \A o \in Outpoints : OutpointSwept(o)
  BY <1>1, SweepParts DEF SharedInv
<1>3. \A k \in Keys : Present(k)' => k \notin Chosen /\ seen'[k] = seen[k] /\ Present(k)
  BY <1>1 DEF Present
<1>4. \A k \in Keys : Honored(k)' => Honored(k) /\ ~DueKey(k)
  BY <1>2, <1>3 DEF Honored, KeySwept, Touched
<1>5. ASSUME NEW k \in Keys, Honored(k), ~DueKey(k)
      PROVE  /\ seen[k].honoredOut \in Outpoints
             /\ consumed'[seen[k].honoredOut] = consumed[seen[k].honoredOut]
  <2>1. /\ seen[k].honoredOut \in Outpoints
        /\ consumed[seen[k].honoredOut].retainUntil = Retain(k)
    BY <1>5 DEF SharedInv, RetentionInv, GateMatchesGoods
  <2>2. seen[k].honoredOut \notin Chosen
    BY <1>2, <1>5, <2>1 DEF OutpointSwept, DueOutpoint, DueKey
  <2> QED
    BY <1>1, <2>1, <2>2
<1>6. RowsInWindow'
  BY <1>3 DEF SharedInv, RowsInWindow, Retain
<1>7. RetentionInv'
  <2>1. \A k \in Keys : Honored(k)' =>
          consumed'[seen'[k].honoredOut].retainUntil = Retain(k)
    BY <1>3, <1>4, <1>5 DEF SharedInv, RetentionInv, Honored
  <2>2. \A o \in Outpoints : InState(o, "claim_pending")' =>
          consumed'[o].retainUntil = Forever
    BY <1>1 DEF SharedInv, RetentionInv, InState
  <2> QED
    BY <2>1, <2>2 DEF RetentionInv, Retain
<1>8. ASSUME NEW k \in Keys, Honored(k)'
      PROVE  /\ seen'[k].honoredOut \in Outpoints
             /\ consumed'[seen'[k].honoredOut] # NoRow
             /\ consumed'[seen'[k].honoredOut].state = "honored"
             /\ \E i \in DOMAIN goods' :
                  goods'[i] = [key |-> k, out |-> seen'[k].honoredOut]
  <2>1. Honored(k) /\ seen'[k] = seen[k]
    BY <1>3, <1>4, <1>8 DEF Honored
  <2>2. /\ seen[k].honoredOut \in Outpoints
        /\ consumed'[seen[k].honoredOut] = consumed[seen[k].honoredOut]
    BY <1>4, <1>5, <1>8, <2>1
  <2> QED
    BY <1>1, <2>1, <2>2 DEF SharedInv, GateMatchesGoods, InState
<1>9. ASSUME NEW o \in Outpoints, InState(o, "honored")'
      PROVE  \E k \in Keys : Honored(k)' /\ seen'[k].honoredOut = o
  <2>1. InState(o, "honored") /\ o \notin Chosen
    BY <1>1, <1>9 DEF InState
  <2>2. ~DueOutpoint(o)
    BY <1>1, <1>2, <2>1 DEF OutpointSwept
  <2>3. PICK k \in Keys : Honored(k) /\ seen[k].honoredOut = o
    BY <2>1 DEF SharedInv, GateMatchesGoods
  <2>4. ~DueKey(k)
    BY <2>1, <2>2, <2>3 DEF DueKey, DueOutpoint, SharedInv, RetentionInv
  <2>5. seen'[k] = seen[k]
    BY <1>1, <1>2, <2>4 DEF KeySwept
  <2> QED
    BY <2>3, <2>5 DEF Honored, Present
<1>10. GateMatchesGoods'
  BY <1>8, <1>9 DEF GateMatchesGoods, InState
<1>11. SweepInv'
  BY <1>1 DEF SweepInv, IdleSweep
<1> QED
  BY <1>6, <1>7, <1>10, <1>11 DEF RowsInv

\* The sweep's other steps write no table.
LEMMA SweepStepShared ==
  ASSUME TypeOK, SharedInv, SweepStep, ~SweepCommit
  PROVE  RowsInv'
<1>1. UNCHANGED <<storeVars, clock>>
  BY DEF SweepStep, SweepBegin, SweepRow, SweepNext, SweepFails
<1>2. (RowsInWindow /\ RetentionInv /\ GateMatchesGoods)'
  BY <1>1, TablesAreDated, DatedSame DEF SharedInv
<1>3. \A k \in Keys : (Touched(k)' <=> Touched(k)) /\ (Present(k)' <=> Present(k))
  BY <1>1 DEF storeVars, Touched, Honored, Present
<1>4. \A o \in Outpoints : consumed'[o] = consumed[o]
  BY <1>1 DEF storeVars
<1>5. CASE SweepFails
  BY <1>2, <1>5 DEF SweepFails, IdleSweep, SweepInv, RowsInv
<1>6. ASSUME NEW now \in 0..MaxTime, SweepBegin(now) PROVE RowsInv'
  <2>1. /\ sweep'.at = "first" /\ sweep'.now = now /\ now <= clock' /\ Chosen' = ExpiredRows(now)
    BY <1>6 DEF SweepBegin, Selects, Chosen
  <2>2. \A k \in Keys : KeySwept(k)'
    BY <1>3, <2>1 DEF KeySwept, DueKey, ExpiredRows, Touched, SharedInv, RowsInWindow, Retain
  <2>3. \A o \in Outpoints : OutpointSwept(o)'
    BY <2>1, PostgresAssumption DEF OutpointSwept, ExpiredRows
  <2> QED
    BY <1>2, <2>1, <2>2, <2>3, SweepParts DEF RowsInv
<1>7. ASSUME NEW x \in Keys \cup Outpoints, SweepRow(x) PROVE RowsInv'
  <2>1. /\ sweep'.at = sweep.at /\ sweep'.now = sweep.now
        /\ sweep'.todo = sweep.todo \ {x} /\ sweep'.doomed = sweep.doomed \cup {x}
        /\ x \in sweep.todo /\ sweep.at # "idle"
    BY <1>7 DEF SweepRow, TypeOK, SweepTypeOK, SharedInv, SweepOrder, IdleSweep
  <2>2. Chosen' = Chosen
    BY <2>1 DEF Chosen
  <2>3. /\ \A k \in Keys : KeySwept(k)'
        /\ \A o \in Outpoints : OutpointSwept(o)'
    BY <1>3, <1>4, <2>1, <2>2, SweepParts
       DEF KeySwept, OutpointSwept, DueKey, DueOutpoint, InState, SharedInv, Retain
  <2> QED
    BY <1>1, <1>2, <2>1, <2>3, SweepParts DEF RowsInv, SharedInv
<1>8. CASE SweepNext
  <2>1. /\ sweep.at = "first" /\ sweep.todo = {} /\ sweep'.at = "second"
        /\ sweep'.now = sweep.now /\ Chosen = sweep.doomed
        /\ Chosen' = ExpiredOutpoints(sweep.now) \cup sweep.doomed
    BY <1>8 DEF SweepNext, Selects, Chosen, TypeOK, SweepTypeOK
  <2>2. /\ sweep.doomed \subseteq Keys /\ ExpiredOutpoints(sweep.now) \subseteq Outpoints
        /\ Keys \cap Outpoints = {}
    BY <2>1, PostgresAssumption DEF SharedInv, SweepOrder, ExpiredOutpoints
  <2>3. /\ sweep.now <= clock
        /\ \A k \in Keys : KeySwept(k)
    BY <2>1, SweepParts DEF SharedInv
  <2>4. \A k \in Keys : KeySwept(k)'
    BY <1>3, <2>1, <2>2, <2>3 DEF KeySwept, DueKey, Retain
  <2>5. ASSUME NEW o \in Outpoints PROVE OutpointSwept(o)'
    <3>1. sweep.now \in Nat /\ clock \in Nat /\ ~(Forever < sweep.now)
      BY <2>3, PostgresAssumption, StoreAssumption
         DEF SharedInv, CallsInWindow, TypeOK, SweepTypeOK
    <3>2. consumed[o] # NoRow /\ consumed[o].state # "honored" => InState(o, "claim_pending")
      BY DEF TypeOK, StoreTypeOK, ConsumedRow, InState
    <3>3. consumed[o] # NoRow /\ consumed[o].retainUntil < sweep.now => InState(o, "honored")
      BY <3>1, <3>2 DEF SharedInv, RetentionInv, InState
    <3>4. o \in ExpiredOutpoints(sweep.now) <=> DueOutpoint(o)
      BY <3>3 DEF ExpiredOutpoints, DueOutpoint, InState
    <3>5. DueOutpoint(o)' <=> DueOutpoint(o)
      BY <1>4, <2>1 DEF DueOutpoint, InState
    <3> QED
      BY <2>1, <2>2, <3>4, <3>5 DEF OutpointSwept
  <2> QED
    BY <1>1, <1>2, <2>1, <2>3, <2>4, <2>5, SweepParts DEF RowsInv
<1> QED
  BY <1>5, <1>6, <1>7, <1>8 DEF SweepStep
-----------------------------------------------------------------------------
\* Every step keeps the rows dated, the goods matched and the sweep just.
LEMMA NextRows ==
  ASSUME CallsFitWindow, TypeOK, LockInv, SharedInv, [Next]_vars
  PROVE  RowsInv'
<1>1. clock \in Nat /\ clock + 1 \in Nat /\ clock <= clock /\ clock <= clock + 1
  BY DEF TypeOK
<1>2. CASE UNCHANGED <<storeVars, sweep>> /\ (clock' = clock \/ clock' = clock + 1)
  BY <1>1, <1>2, SameShared
<1>3. ASSUME NEW c \in Calls, Gate(c) PROVE RowsInv'
  <2>1. ASSUME NEW o \in Outpoints, Reserve(c, o) PROVE RowsInv'
    BY <2>1, ReserveShared
  <2>2. CASE Commit(c)
    BY <2>2, CommitShared
  <2>3. CASE UNCHANGED <<storeVars, sweep, clock>>
    BY <1>2, <2>3
  <2> QED
    BY <1>3, <2>1, <2>2, <2>3
       DEF Gate, LockSeen, GetLock, Insert, Promote, DeliverThrows, DeliverRejects,
           DeliverSwallows, Fails
<1>4. CASE SweepStep
  BY <1>4, SweepCommitShared, SweepStepShared
<1>5. ASSUME NEW k \in Keys, Register(k) \/ MarkObserved(k) PROVE RowsInv'
  BY <1>5, ConsumerShared
<1> QED
  BY <1>2, <1>3, <1>4, <1>5 DEF Next, HonorStart, Tick, vars, storeVars

LEMMA NextShared ==
  ASSUME CallsFitWindow, TypeOK, LockInv, SharedInv, [Next]_vars
  PROVE  SharedInv'
  BY NextOrder, NextCalls, NextRows DEF SharedInv, RowsInv

LEMMA InitShared == Init => SharedInv
<1> SUFFICES ASSUME Init PROVE SharedInv
  OBVIOUS
<1>1. SweepOrder /\ SweepInv
  BY InitOrder DEF Init, IdleSweep, SweepInv
<1>2. RowsInWindow /\ RetentionInv /\ GateMatchesGoods
  BY DEF Init, StoreInit, RowsInWindow, RetentionInv, GateMatchesGoods, Honored, Present, InState
<1>3. CallsInWindow
  BY PostgresAssumption DEF Init, CallsInWindow, InFlight, InTxn
<1> QED
  BY <1>1, <1>2, <1>3 DEF SharedInv

\* An honored quote always has its outpoint consumed and its goods written, and
\* a consumed outpoint its honored quote: also while several processes gate and
\* sweep the same tables, provided no call outlives the recheck window.
THEOREM SharedTablesMatchGoods ==
  ASSUME CallsFitWindow
  PROVE  Spec => []GateMatchesGoods
<1>1. TypeOK /\ LockInv /\ SharedInv /\ [Next]_vars => SharedInv'
  BY NextShared
<1>2. SharedInv => GateMatchesGoods
  BY DEF SharedInv
<1> QED
  BY <1>1, <1>2, InitShared, LocksHold, PTL DEF Spec
-----------------------------------------------------------------------------
LEMMA GoodsAreDeliveries ==
  ASSUME TypeOK
  PROVE  /\ goods \in Seq(Delivery)
         /\ \A i \in DOMAIN goods : goods[i].key \in Keys /\ goods[i].out \in Outpoints
<1>1. goods \in Seq(Delivery)
  BY DEF TypeOK, StoreTypeOK
<1>2. \A i \in DOMAIN goods : goods[i] \in Delivery
  BY <1>1
<1> QED
  BY <1>1, <1>2 DEF Delivery

\* A row past its retention that no step latches stays out of reach.
LEMMA SpentStays ==
  ASSUME TypeOK, clock' \in Nat, clock <= clock', NEW k \in Keys, Spent(k),
         Touched(k)' => Touched(k)
  PROVE  Spent(k)'
  BY RetainNat DEF Spent, TypeOK, Retain

\* A step that delivers nothing, latches no spent quote and frees an honored
\* outpoint only out of retention keeps OnceInv.
LEMMA OnceKept ==
  ASSUME TypeOK, OnceInv, goods' = goods, clock' \in Nat, clock <= clock',
         \A k \in Keys : Spent(k) /\ Touched(k)' => Touched(k),
         \A k \in Keys : Honored(k) => Honored(k)' \/ Spent(k)',
         \A o \in Outpoints : InState(o, "honored") =>
           consumed'[o] = consumed[o] \/ consumed[o].retainUntil < clock'
  PROVE  OnceInv'
<1>1. \A k \in Keys : Spent(k) => Spent(k)'
  BY SpentStays
<1>2. \A i \in DOMAIN goods' : Honored(goods[i].key)' \/ Spent(goods[i].key)'
  BY <1>1, GoodsAreDeliveries DEF OnceInv
<1>3. ASSUME NEW i \in DOMAIN goods
      PROVE  \/ Retain(goods[i].key) < clock'
             \/ /\ InState(goods[i].out, "honored")'
                /\ consumed'[goods[i].out].retainUntil = Retain(goods[i].key)
  <2>1. goods[i].out \in Outpoints /\ Retain(goods[i].key) \in Nat /\ clock \in Nat
    BY GoodsAreDeliveries, RetainNat DEF TypeOK
  <2> QED
    BY <2>1 DEF OnceInv, InState
<1> QED
  BY <1>2, <1>3 DEF OnceInv, Retain

\* Steps that leave the tables alone, or only let time pass.
LEMMA OnceSame ==
  ASSUME TypeOK, OnceInv, UNCHANGED storeVars, clock' \in Nat, clock <= clock'
  PROVE  OnceInv'
  BY OnceKept DEF storeVars, Honored, Present, Touched

\* Registering again makes an untouched row, and observing comes in time.
LEMMA OnceConsumer ==
  ASSUME TypeOK, SharedInv, OnceInv, NEW k \in Keys, Register(k) \/ MarkObserved(k)
  PROVE  OnceInv'
<1>1. /\ StoreTypeOK /\ clock \in Nat /\ clock' = clock /\ clock <= clock
      /\ goods' = goods /\ consumed' = consumed
  BY DEF TypeOK, Register, MarkObserved, UpsertAccepted, MarkObservedBeforeExpiry
<1>2. \A j \in Keys : Honored(j) => Honored(j)'
  <2>1. CASE Register(k)
    BY <1>1, <2>1 DEF Register, UpsertAccepted, StoreTypeOK, Honored, Present
  <2>2. CASE MarkObserved(k)
    <3>1. Present(k) => /\ [seen[k] EXCEPT !.observed = TRUE] # NoRow
                        /\ [seen[k] EXCEPT !.observed = TRUE].honoredAt = seen[k].honoredAt
      <4>1. Present(k) => [seen[k] EXCEPT !.observed = TRUE] \in SeenRow
        BY <1>1 DEF StoreTypeOK, Present, SeenRow
      <4> QED
        BY <1>1, <4>1, StoreAssumption DEF StoreTypeOK, Present, SeenRow
    <3> QED
      BY <1>1, <2>2, <3>1
         DEF MarkObserved, MarkObservedBeforeExpiry, StoreTypeOK, Honored, Present
  <2> QED
    BY <2>1, <2>2
<1>3. ASSUME NEW j \in Keys, Spent(j), Touched(j)' PROVE Touched(j)
  <2>1. CASE Register(k)
    BY <1>1, <1>3, <2>1 DEF Register, UpsertAccepted, Touched, Honored, Present, StoreTypeOK
  <2>2. CASE MarkObserved(k)
    <3>1. ~(clock < Expiry[j])
      BY <1>1, <1>3, PostgresAssumption DEF Spent, Retain
    <3>2. seen'[j] = seen[j]
      BY <1>1, <2>2, <3>1
         DEF MarkObserved, MarkObservedBeforeExpiry, StoreTypeOK, SharedInv, RowsInWindow
    <3> QED
      BY <1>3, <3>2 DEF Touched, Honored, Present
  <2> QED
    BY <2>1, <2>2
<1> QED
  BY <1>1, <1>2, <1>3, OnceKept DEF InState

LEMMA OnceReserve ==
  ASSUME TypeOK, OnceInv, NEW c \in Calls, NEW o \in Outpoints, Reserve(c, o)
  PROVE  OnceInv'
<1>1. /\ clock' = clock /\ clock \in Nat /\ clock <= clock /\ goods' = goods /\ seen' = seen
      /\ \A q \in Outpoints : consumed[q] # NoRow => consumed'[q] = consumed[q]
  BY DEF Reserve, ReserveClaimOutpoint, TypeOK, StoreTypeOK
<1> QED
  BY <1>1, OnceKept DEF InState, Touched, Honored, Present

\* A sweep deletes only what is due: the latch of a spent quote, and an outpoint
\* out of retention.
LEMMA OnceSweepCommit ==
  ASSUME TypeOK, SharedInv, OnceInv, SweepCommit
  PROVE  OnceInv'
<1>1. /\ sweep.at = "second" /\ sweep.todo = {} /\ goods' = goods /\ clock' = clock
      /\ seen' = [k \in Keys |-> IF k \in Chosen THEN NoRow ELSE seen[k]]
      /\ consumed' = [o \in Outpoints |-> IF o \in Chosen THEN NoRow ELSE consumed[o]]
  BY DEF SweepCommit, Chosen
<1>2. /\ \A k \in Keys : KeySwept(k)
      /\ \A o \in Outpoints : OutpointSwept(o)
      /\ sweep.now <= clock
  BY <1>1, SweepParts DEF SharedInv
<1>3. /\ clock \in Nat /\ sweep.now \in Nat /\ clock <= clock
      /\ \A k \in Keys : Retain(k) \in Nat
  BY RetainNat DEF TypeOK, SweepTypeOK
<1>4. \A k \in Keys : Touched(k)' => Touched(k) /\ k \notin Chosen
  BY <1>1 DEF Touched, Honored, Present
<1>5. \A k \in Keys : DueKey(k) => Spent(k)'
  BY <1>1, <1>2, <1>3, <1>4 DEF DueKey, KeySwept, Spent, Retain
<1>6. \A k \in Keys : Honored(k) => Honored(k)' \/ Spent(k)'
  BY <1>1, <1>2, <1>5 DEF KeySwept, Honored, Present
<1>7. ASSUME NEW o \in Outpoints, InState(o, "honored")
      PROVE  consumed'[o] = consumed[o] \/ consumed[o].retainUntil < clock'
  <2>1. CASE o \in Chosen
    <3>1. consumed[o].retainUntil \in Nat
      BY <1>7 DEF InState, TypeOK, StoreTypeOK, ConsumedRow
    <3> QED
      BY <1>1, <1>2, <1>3, <2>1, <3>1 DEF OutpointSwept, DueOutpoint
  <2>2. CASE o \notin Chosen
    BY <1>1, <2>2
  <2> QED
    BY <2>1, <2>2
<1> QED
  BY <1>1, <1>3, <1>4, <1>6, <1>7, OnceKept

\* The commit of a call of the window delivers afresh.
LEMMA OnceCommit ==
  ASSUME CallsFitWindow, TypeOK, LockInv, SharedInv, OnceInv, NEW c \in Calls, Commit(c)
  PROVE  OnceInv' /\ Promise!Deliver(txn[c].key, txn[c].out)
<1> DEFINE k == txn[c].key
           o == txn[c].out
<1>1. /\ at[c] = "delivering" /\ clock' = clock /\ clock \in Nat
      /\ k \in Keys /\ o \in Outpoints /\ o \in Settles[k]
      /\ CommitEffect(k, o, txn[c].now, txn[c].row)
      /\ txn[c].row = Retain(k)
  BY CommitIsWhole, CommitHas DEF Commit, TypeOK, SharedInv, CallsInWindow, InFlight, InTxn
<1>2. ~Spent(k)
  BY <1>1, LateLockObserved DEF Spent, SharedInv, InTxn
<1> HIDE DEF k, o
<1>3. /\ ~Honored(k) /\ ~InState(o, "honored")
      /\ seen'[k] # NoRow /\ seen'[k].honoredAt # NULL
      /\ \A j \in Keys : j # k => seen'[j] = seen[j]
      /\ consumed'[o] # NoRow /\ consumed'[o].state = "honored"
      /\ consumed'[o].retainUntil = Retain(k)
      /\ \A q \in Outpoints : q # o => consumed'[q] = consumed[q]
      /\ goods' = Append(goods, [key |-> k, out |-> o])
  BY <1>1 DEF CommitEffect, InState
<1>4. /\ goods \in Seq(Delivery)
      /\ \A i \in DOMAIN goods : goods[i].key \in Keys /\ goods[i].out \in Outpoints
  BY GoodsAreDeliveries
<1>5. \A i \in DOMAIN goods : /\ goods[i].key # k
                              /\ goods[i].out = o => Retain(goods[i].key) < clock
  BY <1>2, <1>3 DEF OnceInv
<1>6. Promise!Deliver(k, o)
  <2>1. \A i \in DOMAIN goods : Retention[goods[i].key] = Retain(goods[i].key)
    BY <1>4 DEF Retention
  <2> QED
    BY <1>1, <1>3, <1>5, <2>1 DEF Promise!Deliver, Promise!Fresh
<1> DEFINE n == Len(goods) + 1
<1>7. /\ DOMAIN goods' = DOMAIN goods \cup {n}
      /\ goods'[n] = [key |-> k, out |-> o]
      /\ \A i \in DOMAIN goods : goods'[i] = goods[i]
  BY <1>3, <1>4
<1> HIDE DEF n
<1>8. ASSUME NEW i \in DOMAIN goods'
      PROVE  /\ Honored(goods[i].key)' \/ Spent(goods[i].key)'
             /\ \/ Retain(goods'[i].key) < clock'
                \/ /\ InState(goods[i].out, "honored")'
                   /\ consumed'[goods'[i].out].retainUntil = Retain(goods'[i].key)
  <2>1. CASE i = n
    BY <1>1, <1>3, <1>7, <2>1 DEF Honored, Present, InState
  <2>2. CASE i # n
    <3>1. /\ i \in DOMAIN goods /\ goods'[i] = goods[i]
          /\ goods[i].key \in Keys /\ goods[i].out \in Outpoints
          /\ seen'[goods[i].key] = seen[goods[i].key]
      BY <1>3, <1>4, <1>5, <1>7, <2>2
    <3>2. Honored(goods[i].key)' \/ Spent(goods[i].key)'
      BY <1>1, <3>1 DEF OnceInv, Honored, Present, Spent, Touched, Retain
    <3> QED
      BY <1>1, <1>3, <1>5, <3>1, <3>2 DEF OnceInv, InState
  <2> QED
    BY <2>1, <2>2
<1>9. OnceInv'
  BY <1>8 DEF OnceInv, Retain
<1> QED
  BY <1>6, <1>9 DEF k, o
-----------------------------------------------------------------------------
LEMMA InitOnce == Init => OnceInv /\ Promise!Init
  BY DEF Init, StoreInit, OnceInv, Promise!Init

\* What one step may do: nothing to the goods, or one fresh delivery at a time.
LEMMA NextOnce ==
  ASSUME CallsFitWindow, TypeOK, LockInv, SharedInv, OnceInv, [Next]_vars
  PROVE  OnceInv' /\ [Promise!Next]_(Promise!vars)
<1>1. clock \in Nat /\ clock + 1 \in Nat /\ clock <= clock /\ clock <= clock + 1
  BY DEF TypeOK
<1>2. CASE UNCHANGED storeVars /\ (clock' = clock \/ clock' = clock + 1)
  <2>1. OnceInv'
    BY <1>1, <1>2, OnceSame DEF storeVars
  <2>2. [Promise!Next]_(Promise!vars)
    BY <1>1, <1>2 DEF storeVars, Promise!Next, Promise!TimePasses, Promise!vars
  <2> QED
    BY <2>1, <2>2
<1>3. ASSUME NEW c \in Calls, Gate(c) PROVE OnceInv' /\ [Promise!Next]_(Promise!vars)
  <2>1. ASSUME NEW o \in Outpoints, Reserve(c, o)
        PROVE  OnceInv' /\ [Promise!Next]_(Promise!vars)
    BY <2>1, OnceReserve DEF Reserve, ReserveClaimOutpoint, Promise!vars
  <2>2. CASE Commit(c)
    BY <2>2, OnceCommit, CommitIsWhole DEF Promise!Next
  <2>3. CASE UNCHANGED <<storeVars, clock>>
    BY <1>2, <2>3
  <2> QED
    BY <1>3, <2>1, <2>2, <2>3
       DEF Gate, LockSeen, GetLock, Insert, Promote, DeliverThrows, DeliverRejects,
           DeliverSwallows, Fails
<1>4. CASE SweepCommit
  BY <1>4, OnceSweepCommit DEF SweepCommit, Promise!vars
<1>5. ASSUME NEW k \in Keys, Register(k) \/ MarkObserved(k)
      PROVE  OnceInv' /\ [Promise!Next]_(Promise!vars)
  BY <1>5, OnceConsumer
     DEF Register, MarkObserved, UpsertAccepted, MarkObservedBeforeExpiry, Promise!vars
<1>6. CASE SweepStep /\ ~SweepCommit
  BY <1>2, <1>6 DEF SweepStep, SweepBegin, SweepRow, SweepNext, SweepFails
<1> QED
  BY <1>2, <1>3, <1>4, <1>5, <1>6 DEF Next, HonorStart, Tick, vars, storeVars

\* Several processes that gate, latch and sweep one Postgres implement the same
\* promise as the synchronous store: no quote delivers twice, and no payment
\* before the quote it paid is out of retention, for calls that fit the recheck
\* window.
THEOREM SharedGateImplementsPromise ==
  ASSUME CallsFitWindow
  PROVE  Spec => ImplementsPromise
<1>1. Init => SharedInv /\ OnceInv /\ Promise!Init
  BY InitShared, InitOnce
<1>2. TypeOK /\ LockInv /\ SharedInv /\ OnceInv /\ [Next]_vars =>
        SharedInv' /\ OnceInv' /\ [Promise!Next]_(Promise!vars)
  BY NextShared, NextOnce
<1> QED
  BY <1>1, <1>2, LocksHold, PTL DEF Spec, ImplementsPromise, Promise!Spec
=============================================================================
