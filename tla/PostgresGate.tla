---------------------------- MODULE PostgresGate ----------------------------
(***************************************************************************)
(* The gate over a Postgres that several processes share.  Here the gate   *)
(* transaction of runHonorTxn is not one step: its statements interleave   *)
(* with those of other gates and of the sweep, under row locks, and the    *)
(* client may lose its connection between any two of them.  getSeen,       *)
(* upsertAccepted, markObservedBeforeExpiry and reserveClaimOutpoint are   *)
(* one autocommitted statement each.                                       *)
(***************************************************************************)
EXTENDS GateStore

CONSTANTS
  Calls,          \* slots for honor calls, over all processes
  Expiry,         \* Expiry[k]: expiresAt of the signed quote
  RecheckWindow,  \* config.maxRecheckWindow
  Mode,           \* Mode[k]: "single" (plain) or "promote" (HTLC)
  Settles,        \* Settles[k]: outputs that pay quote k in full
  MaxTime,        \* bound on the clock
  CallSpan        \* longest life of a call, in clock units

VARIABLES
  clock,
  at,             \* how far each call has come
  txn,            \* its local variables and its snapshot
  result,         \* what it returned or threw
  claims,         \* quotes whose HTLC claim some process has recorded
  sweep           \* the sweep transaction

callVars == <<at, txn, result>>
vars == <<seen, consumed, goods, clock, at, txn, result, claims, sweep>>

ASSUME PostgresAssumption ==
  /\ Expiry \in [Keys -> Nat]
  /\ RecheckWindow \in Nat
  /\ Mode \in [Keys -> {"single", "promote"}]
  /\ Settles \in [Keys -> SUBSET Outpoints]
  /\ MaxTime \in Nat /\ MaxTime < Forever
  /\ CallSpan \in Nat
  /\ Keys \cap Outpoints = {}

Retain(k) == Expiry[k] + RecheckWindow

\* "waiting" for the row lock of quote_seen, "locked" with it, "delivering"
\* with the outpoint row as well, until the transaction ends.
InTxn == {"waiting", "locked", "delivering"}

InFlight(c) == at[c] \in InTxn \cup {"scoring"}

Results == {"none", "htlc_claim_pending", "honored", "already_honored",
            "expired_unobserved", "outpoint_consumed", "delivery_failed",
            "deliver_error", "adapter_error"}

Txn == [key      : Keys \cup {NULL},
        now      : Nat,
        row      : Nat,                    \* retainUntil of the row it read
        out      : Outpoints \cup {NULL},
        reserved : BOOLEAN]                \* its snapshot shows out claim_pending

Txn0(k, now, row) == [key |-> k, now |-> now, row |-> row, out |-> NULL, reserved |-> FALSE]

IdleSweep == [at |-> "idle", now |-> 0, todo |-> {}, doomed |-> {}]

CallTypeOK ==
  /\ at \in [Calls -> InTxn \cup {"idle", "scoring", "done"}]
  /\ txn \in [Calls -> Txn]
  /\ result \in [Calls -> Results]
  /\ \A c \in Calls : InFlight(c) => txn[c].key \in Keys
  /\ \A c \in Calls : at[c] \in InTxn => txn[c].out \in Settles[txn[c].key]

SweepTypeOK ==
  sweep \in [at     : {"idle", "first", "second"},
             now    : Nat,
             todo   : SUBSET (Keys \cup Outpoints),  \* rows it has yet to delete
             doomed : SUBSET (Keys \cup Outpoints)]  \* deleted, not committed

\* A gate transaction is about an output that settles its quote.
TypeOK ==
  /\ StoreTypeOK
  /\ clock \in Nat
  /\ CallTypeOK
  /\ claims \subseteq Keys
  /\ SweepTypeOK

Init ==
  /\ StoreInit
  /\ clock = 0
  /\ at = [c \in Calls |-> "idle"]
  /\ txn = [c \in Calls |-> Txn0(NULL, 0, 0)]
  /\ result = [c \in Calls |-> "none"]
  /\ claims = {}
  /\ sweep = IdleSweep
-----------------------------------------------------------------------------
\* Variant for the runs: a gate does not wait for a row under deletion.
LockedByGates(x) ==
  \E c \in Calls : \/ at[c] = "locked" /\ x = txn[c].key
                   \/ at[c] = "delivering" /\ x \in {txn[c].key, txn[c].out}

\* The rows a gate has written: quote_seen at step 1, the outpoint at step 2.
HeldBy(c) ==
  (IF at[c] \in {"locked", "delivering"} THEN {txn[c].key} ELSE {})
    \cup (IF at[c] = "delivering" THEN {txn[c].out} ELSE {})

\* Another statement that would write row x waits.
Locked(x) == x \in sweep.doomed \/ \E c \in Calls : x \in HeldBy(c)

\* Variant for the runs: READ COMMITTED, a waiting update just goes on.
NobodyLoses(X) == {}

\* First updater wins: a SERIALIZABLE update that waited for a row of X fails
\* with a serialization failure when the writer of that row commits.
Losers(X) == {c \in Calls : at[c] = "waiting" /\ txn[c].key \in X}

\* What is left of a call that has answered.
Over(c) == [Txn0(txn[c].key, 0, 0) EXCEPT !.out = txn[c].out]

\* The calls of D lose their transaction; the engine rethrows the raw error.
Lose(D) ==
  /\ at' = [c \in Calls |-> IF c \in D THEN "done" ELSE at[c]]
  /\ txn' = [c \in Calls |->
       IF c \in D THEN Over(c) ELSE txn[c]]
  /\ result' = [c \in Calls |-> IF c \in D THEN "adapter_error" ELSE result[c]]

\* Call c returns r or throws it, its transaction over.
Return(c, r) ==
  /\ at' = [at EXCEPT ![c] = "done"]
  /\ txn' = [txn EXCEPT ![c] = Over(c)]
  /\ result' = [result EXCEPT ![c] = r]

MoveOn(c, to) ==
  /\ at' = [at EXCEPT ![c] = to]
  /\ UNCHANGED result
-----------------------------------------------------------------------------
\* upsertAccepted, by any process: waits for a row under deletion.
Register(k) ==
  /\ ~Locked(k)
  /\ UpsertAccepted(k, Expiry[k], Retain(k))
  /\ UNCHANGED <<clock, callVars, claims, sweep>>

\* The latch waits for a locked row, and behind a gate that waits for it.
MarkObserved(k) ==
  /\ ~Locked(k)
  /\ Losers({k}) = {}
  /\ MarkObservedBeforeExpiry(k, clock)
  /\ UNCHANGED <<clock, callVars, claims, sweep>>

\* A call that ends in the turn that began it.
Answer(c, k, r) ==
  /\ at' = [at EXCEPT ![c] = "done"]
  /\ txn' = [txn EXCEPT ![c] = Txn0(k, 0, 0)]
  /\ result' = [result EXCEPT ![c] = r]

\* honor captures now and decides step 0 on the committed row.
HonorStart(c, k) ==
  /\ ~InFlight(c)
  /\ \/ ~Present(k) /\ Answer(c, k, "expired_unobserved")
     \/ Honored(k) /\ Answer(c, k, "already_honored")
     \/ /\ Present(k) /\ ~Honored(k)
        /\ at' = [at EXCEPT ![c] = "scoring"]
        /\ txn' = [txn EXCEPT ![c] = Txn0(k, clock, seen[k].retainUntil)]
        /\ result' = [result EXCEPT ![c] = "none"]
  /\ UNCHANGED <<storeVars, clock, claims, sweep>>

\* HTLC phase A reserves the lock it has claimed and answers "wait".
Reserve(c, o) ==
  /\ at[c] = "scoring"
  /\ Mode[txn[c].key] = "promote"
  /\ o \in Settles[txn[c].key]
  /\ ~Locked(o)
  /\ ReserveClaimOutpoint(txn[c].key, o)
  /\ claims' = claims \cup {txn[c].key}
  /\ Return(c, "htlc_claim_pending")
  /\ UNCHANGED <<clock, sweep>>

\* What honor makes of a GateViolation of step 1.
LockRefusal(k) == IF Honored(k) THEN "already_honored" ELSE "expired_unobserved"

\* Variant for the runs: any output is taken to the gate.
LockSeenForAny(c, o) ==
  /\ at[c] = "scoring"
  /\ Mode[txn[c].key] = "promote" => txn[c].key \in claims
  /\ Lockable(txn[c].key, txn[c].now)
  /\ MoveOn(c, IF Locked(txn[c].key) THEN "waiting" ELSE "locked")
  /\ txn' = [txn EXCEPT ![c].out = o, ![c].reserved = InState(o, "claim_pending")]
  /\ UNCHANGED <<storeVars, clock, claims, sweep>>

\* Step 1, once the chain shows output o final.  The snapshot is taken by this
\* UPDATE: it matches the committed row, then waits if somebody is writing it.
LockSeen(c, o) ==
  /\ at[c] = "scoring"
  /\ o \in Settles[txn[c].key]
  /\ Mode[txn[c].key] = "promote" => txn[c].key \in claims
  /\ \/ /\ ~Lockable(txn[c].key, txn[c].now)
        /\ Return(c, LockRefusal(txn[c].key))
     \/ /\ Lockable(txn[c].key, txn[c].now)
        /\ MoveOn(c, IF Locked(txn[c].key) THEN "waiting" ELSE "locked")
        /\ txn' = [txn EXCEPT ![c].out = o, ![c].reserved = InState(o, "claim_pending")]
  /\ UNCHANGED <<storeVars, clock, claims, sweep>>

\* The writer it waited for rolled back.
GetLock(c) ==
  /\ at[c] = "waiting"
  /\ ~Locked(txn[c].key)
  /\ MoveOn(c, "locked")
  /\ UNCHANGED <<storeVars, clock, txn, claims, sweep>>

\* Variant for the runs: ON CONFLICT DO NOTHING, its row count not looked at.
InsertIgnored(c) ==
  /\ at[c] = "locked"
  /\ Mode[txn[c].key] = "single"
  /\ ~Locked(txn[c].out)
  /\ MoveOn(c, "delivering")
  /\ UNCHANGED <<storeVars, clock, txn, claims, sweep>>

\* Step 2a: the unique index waits for a writer, then knows only the committed row.
Insert(c) ==
  /\ at[c] = "locked"
  /\ Mode[txn[c].key] = "single"
  /\ ~Locked(txn[c].out)
  /\ \/ /\ consumed[txn[c].out] = NoRow
        /\ MoveOn(c, "delivering")
        /\ UNCHANGED txn
     \/ /\ consumed[txn[c].out] # NoRow
        /\ Return(c, "outpoint_consumed")
  /\ UNCHANGED <<storeVars, clock, claims, sweep>>

\* Step 2b, on the snapshot; a row that changed since then fails serialization.
Promote(c) ==
  /\ at[c] = "locked"
  /\ Mode[txn[c].key] = "promote"
  /\ \/ /\ ~txn[c].reserved
        /\ Return(c, "outpoint_consumed")
     \/ /\ txn[c].reserved
        /\ ~Locked(txn[c].out)
        /\ InState(txn[c].out, "claim_pending")
        /\ MoveOn(c, "delivering")
        /\ UNCHANGED txn
     \/ /\ txn[c].reserved
        /\ ~Locked(txn[c].out)
        /\ ~InState(txn[c].out, "claim_pending")
        /\ Return(c, "adapter_error")
  /\ UNCHANGED <<storeVars, clock, claims, sweep>>

\* The writes of a gate become visible together, the goods among them.
Publish(c) ==
  LET k == txn[c].key
      o == txn[c].out
  IN /\ seen' = [seen EXCEPT ![k] = [@ EXCEPT !.honoredAt = txn[c].now, !.honoredOut = o]]
     /\ consumed' = [consumed EXCEPT ![o] =
          [owner |-> ConsumedOwner(k, o, Mode[k]), state |-> "honored",
           retainUntil |-> txn[c].row]]
     /\ goods' = Append(goods, [key |-> k, out |-> o])

\* deliver resolved and COMMIT took effect; a connection lost after that turns
\* the answer into an error.
Commit(c) ==
  /\ at[c] = "delivering"
  /\ Publish(c)
  /\ LET beaten == Losers({txn[c].key})
     IN /\ at' = [d \in Calls |-> IF d \in beaten \cup {c} THEN "done" ELSE at[d]]
        /\ txn' = [d \in Calls |-> IF d \in beaten \cup {c} THEN Over(d) ELSE txn[d]]
        /\ \E r \in {"honored", "adapter_error"} :
             result' = [d \in Calls |-> IF d = c THEN r
               ELSE IF d \in beaten THEN "adapter_error" ELSE result[d]]
  /\ UNCHANGED <<clock, claims, sweep>>

\* deliver throws before it returns its promise: the bridge records it.
DeliverThrows(c) ==
  /\ at[c] = "delivering"
  /\ Return(c, "delivery_failed")
  /\ UNCHANGED <<storeVars, clock, claims, sweep>>

\* Its promise rejects: the bridge has returned, and nothing is recorded.
DeliverRejects(c) ==
  /\ at[c] = "delivering"
  /\ Return(c, "deliver_error")
  /\ UNCHANGED <<storeVars, clock, claims, sweep>>

\* It catches the error of a statement of its own: the transaction is aborted,
\* Postgres answers COMMIT with ROLLBACK and no error, and honor sees success.
DeliverSwallows(c) ==
  /\ at[c] = "delivering"
  /\ Return(c, "honored")
  /\ UNCHANGED <<storeVars, clock, claims, sweep>>

\* A chain read throws, the connection is lost before COMMIT took effect, or
\* Postgres aborts the transaction for a conflict.
Fails(c) ==
  /\ InFlight(c)
  /\ Return(c, "adapter_error")
  /\ UNCHANGED <<storeVars, clock, claims, sweep>>
-----------------------------------------------------------------------------
ExpiredRows(now) == {k \in Keys : Present(k) /\ seen[k].retainUntil < now}

ExpiredOutpoints(now) ==
  {o \in Outpoints : consumed[o] # NoRow /\ consumed[o].retainUntil < now}

\* Variant for the runs: the two DELETEs the other way round.
OutpointsFirst(statement, now) ==
  IF statement = "first" THEN ExpiredOutpoints(now) ELSE ExpiredRows(now)

\* What each DELETE of the sweep selects when it starts (READ COMMITTED).
Selects(statement, now) ==
  IF statement = "first" THEN ExpiredRows(now) ELSE ExpiredOutpoints(now)

SweepBegin(now) ==
  /\ sweep.at = "idle"
  /\ now <= clock
  /\ sweep' = [at |-> "first", now |-> now, todo |-> Selects("first", now), doomed |-> {}]
  /\ UNCHANGED <<storeVars, clock, callVars, claims>>

\* It deletes row by row, and waits for a row a gate has written.
SweepRow(x) ==
  /\ x \in sweep.todo
  /\ ~Locked(x)
  /\ sweep' = [sweep EXCEPT !.todo = @ \ {x}, !.doomed = @ \cup {x}]
  /\ UNCHANGED <<storeVars, clock, callVars, claims>>

SweepNext ==
  /\ sweep.at = "first" /\ sweep.todo = {}
  /\ sweep' = [sweep EXCEPT !.at = "second", !.todo = Selects("second", sweep.now)]
  /\ UNCHANGED <<storeVars, clock, callVars, claims>>

SweepCommit ==
  /\ sweep.at = "second" /\ sweep.todo = {}
  /\ seen' = [k \in Keys |-> IF k \in sweep.doomed THEN NoRow ELSE seen[k]]
  /\ consumed' = [o \in Outpoints |-> IF o \in sweep.doomed THEN NoRow ELSE consumed[o]]
  /\ Lose(Losers(sweep.doomed))
  /\ sweep' = IdleSweep
  /\ UNCHANGED <<goods, clock, claims>>

SweepFails ==
  /\ sweep.at # "idle"
  /\ sweep' = IdleSweep
  /\ UNCHANGED <<storeVars, clock, callVars, claims>>

\* Time passes, but no call outlives CallSpan.
Tick ==
  /\ clock < MaxTime
  /\ \A c \in Calls : InFlight(c) => clock + 1 <= txn[c].now + CallSpan
  /\ clock' = clock + 1
  /\ UNCHANGED <<storeVars, callVars, claims, sweep>>

Gate(c) ==
  \/ \E o \in Outpoints : Reserve(c, o) \/ LockSeen(c, o)
  \/ GetLock(c) \/ Insert(c) \/ Promote(c)
  \/ Commit(c) \/ DeliverThrows(c) \/ DeliverRejects(c) \/ DeliverSwallows(c)
  \/ Fails(c)

SweepStep ==
  \/ \E now \in 0..MaxTime : SweepBegin(now)
  \/ \E x \in Keys \cup Outpoints : SweepRow(x)
  \/ SweepNext \/ SweepCommit \/ SweepFails

Next ==
  \/ \E k \in Keys : Register(k) \/ MarkObserved(k)
  \/ \E c \in Calls, k \in Keys : HonorStart(c, k)
  \/ \E c \in Calls : Gate(c)
  \/ SweepStep
  \/ Tick

Spec == Init /\ [][Next]_vars
-----------------------------------------------------------------------------
Retention == [k \in Keys |-> Retain(k)]

Promise == INSTANCE ExactlyOnce

\* No call outlives the recheck window.  Nothing in the code enforces it.
CallsFitWindow == CallSpan <= RecheckWindow + 1

\* What a gate found in its snapshot is still there to be published: its quote
\* lockable, also while it waits, its outpoint free or reserved once it delivers,
\* and both its own, whatever gates, latches and sweeps commit meanwhile.
LockInv ==
  /\ \A c \in Calls : at[c] \in InTxn => Lockable(txn[c].key, txn[c].now)
  /\ \A c \in Calls : at[c] = "delivering" => Consumable(txn[c].out, Mode[txn[c].key])
  /\ \A c \in Calls : HeldBy(c) \cap sweep.doomed = {}
  /\ \A c, d \in Calls : c # d => HeldBy(c) \cap HeldBy(d) = {}

\* Spread over four statements, the gate still acts as the one synchronous step
\* of the SQLite store: a step that moves goods is runHonorTxn, whole, on the
\* tables as they are committed at that moment (postgres-store.ts, "NO
\* cross-statement gap").
GateIsAtomic ==
  [][goods' # goods => \E c \in Calls :
       /\ at[c] = "delivering"
       /\ RunHonorTxn(txn[c].key, txn[c].out, txn[c].now, txn[c].row, Mode[txn[c].key], "ok")]_vars

\* The shared gate implements the same promise: one delivery per quote, and per
\* payment until the quote it paid is out of retention, whatever processes race,
\* die or sweep.
ImplementsPromise == Promise!Spec

\* Who waits for whom, the sweep being one of the parties.
WaitsFor(p, q) ==
  LET needs == CASE p = "sweep"          -> sweep.todo
                 [] p # "sweep"          -> (IF at[p] = "waiting" THEN {txn[p].key}
                                             ELSE IF at[p] = "locked" THEN {txn[p].out} ELSE {})
      holds == IF q = "sweep" THEN sweep.doomed ELSE HeldBy(q)
  IN p # q /\ needs \cap holds # {}

\* No circle of gates and the sweep waits for each other's rows: both write
\* quote_seen first and the outpoint second, so Postgres never has to break a
\* deadlock among them.  One sweep runs at a time here: two that delete the rows
\* of one table in different orders are not covered.
NoCircularWait ==
  \A S \in SUBSET (Calls \cup {"sweep"}) : S # {} =>
    \E p \in S : \A q \in S : ~WaitsFor(p, q)
=============================================================================
