----------------------------- MODULE GateStore -----------------------------
(***************************************************************************)
(* The gate tables of SqliteStore and the consumer's goods table on the    *)
(* same connection.  better-sqlite3 is synchronous: every operation below  *)
(* is one atomic step, and runHonorTxn, with the consumer's deliver inside *)
(* it, commits all of its writes or none.                                  *)
(***************************************************************************)
EXTENDS Integers, Sequences

CONSTANTS
  Keys,        \* primary key of quote_seen: (signer_pubkey, quote_id)
  Outpoints,   \* primary key of quote_consumed_outpoint: (tx_id, output_index)
  NoRow,       \* no row under this primary key
  NULL,        \* SQL NULL
  Forever      \* Number.MAX_SAFE_INTEGER

VARIABLES
  seen,        \* quote_seen
  consumed,    \* quote_consumed_outpoint
  goods        \* the consumer's own rows, written by deliver

storeVars == <<seen, consumed, goods>>

SeenRow == [expiresAt   : Nat,
            retainUntil : Nat,
            observed    : BOOLEAN,
            honoredAt   : Nat \cup {NULL},
            honoredOut  : Outpoints \cup {NULL}]

ConsumedRow == [owner       : Keys,
                state       : {"claim_pending", "honored"},
                retainUntil : Nat]

Delivery == [key : Keys, out : Outpoints]

ASSUME StoreAssumption ==
  /\ NoRow \notin SeenRow \cup ConsumedRow
  /\ NULL \notin Nat \cup Outpoints
  /\ Forever \in Nat

StoreTypeOK ==
  /\ seen \in [Keys -> SeenRow \cup {NoRow}]
  /\ consumed \in [Outpoints -> ConsumedRow \cup {NoRow}]
  /\ goods \in Seq(Delivery)

StoreInit ==
  /\ seen = [k \in Keys |-> NoRow]
  /\ consumed = [o \in Outpoints |-> NoRow]
  /\ goods = << >>

Present(k) == seen[k] # NoRow

Honored(k) == Present(k) /\ seen[k].honoredAt # NULL

InState(o, s) == consumed[o] # NoRow /\ consumed[o].state = s
-----------------------------------------------------------------------------
\* Variant for the runs: ON CONFLICT DO UPDATE.
UpsertOverwrites(k, expiresAt, retainUntil) ==
  /\ seen' = [seen EXCEPT ![k] =
       [expiresAt |-> expiresAt, retainUntil |-> retainUntil,
        observed |-> FALSE, honoredAt |-> NULL, honoredOut |-> NULL]]
  /\ UNCHANGED <<consumed, goods>>

\* INSERT ... ON CONFLICT DO NOTHING: an existing row is never mutated.
UpsertAccepted(k, expiresAt, retainUntil) ==
  /\ seen' = [seen EXCEPT ![k] =
       IF Present(k) THEN @
       ELSE [expiresAt |-> expiresAt, retainUntil |-> retainUntil,
             observed |-> FALSE, honoredAt |-> NULL, honoredOut |-> NULL]]
  /\ UNCHANGED <<consumed, goods>>

\* UPDATE ... WHERE now < expires_at: no row or a late one leaves the table alone.
MarkObservedBeforeExpiry(k, now) ==
  /\ seen' = [seen EXCEPT ![k] =
       IF Present(k) /\ now < seen[k].expiresAt
       THEN [seen[k] EXCEPT !.observed = TRUE] ELSE @]
  /\ UNCHANGED <<consumed, goods>>

\* Variant for the runs: the reservation ages from the epoch, not Forever.
ReserveSweepable(k, o) ==
  /\ consumed' = [consumed EXCEPT ![o] =
       IF @ # NoRow THEN @
       ELSE [owner |-> k, state |-> "claim_pending", retainUntil |-> 0]]
  /\ UNCHANGED <<seen, goods>>

\* HTLC phase A.  ON CONFLICT DO NOTHING, whoever owns the row in the way.
ReserveClaimOutpoint(k, o) ==
  /\ consumed' = [consumed EXCEPT ![o] =
       IF @ # NoRow THEN @
       ELSE [owner |-> k, state |-> "claim_pending", retainUntil |-> Forever]]
  /\ UNCHANGED <<seen, goods>>
-----------------------------------------------------------------------------
\* Variant for the runs: the lock forgets honored_at IS NULL.
LockTwice(k, now) ==
  /\ Present(k)
  /\ now < seen[k].retainUntil
  /\ now < seen[k].expiresAt \/ seen[k].observed

\* Variant for the runs: the lock forgets the observation latch.
LockUnobserved(k, now) ==
  /\ Present(k)
  /\ seen[k].honoredAt = NULL
  /\ now < seen[k].retainUntil

\* The WHERE clause of the SEEN hard-lock: unhonored, retained, and either
\* unexpired or observed before expiry (R6).
Lockable(k, now) ==
  /\ Present(k)
  /\ seen[k].honoredAt = NULL
  /\ now < seen[k].retainUntil
  /\ now < seen[k].expiresAt \/ seen[k].observed

\* Variant for the runs: INSERT OR REPLACE, and a promote of any row.
ConsumeAnyway(o, mode) == mode = "single" \/ consumed[o] # NoRow

\* 'single' inserts and needs a free primary key; 'promote' updates a reserved
\* row, without looking at which quote reserved it.
Consumable(o, mode) ==
  \/ mode = "single" /\ consumed[o] = NoRow
  \/ mode = "promote" /\ InState(o, "claim_pending")

\* Variant for the runs: changes() # 1 is always read as "honored already".
ViolationGuessed(k, o, now, mode) ==
  CASE ~Lockable(k, now)                         -> "seen-already-honored"
    [] Lockable(k, now) /\ ~Consumable(o, mode)  -> "outpoint-consumed"
    [] Lockable(k, now) /\ Consumable(o, mode)   -> "none"

\* The GateViolation the transaction throws, "none" when it reaches deliver.
GateViolation(k, o, now, mode) ==
  CASE ~Lockable(k, now) /\ Honored(k)                  -> "seen-already-honored"
    [] ~Lockable(k, now) /\ ~Honored(k)                 -> "expired-window"
    [] Lockable(k, now) /\ ~Consumable(o, mode)         -> "outpoint-consumed"
    [] Lockable(k, now) /\ Consumable(o, mode)          -> "none"

\* What deliver does: its goods write, a throw, or a promise under a sync store.
DeliverReturns == {"ok", "throw", "thenable"}

\* How the transaction ends; all but "committed" are throws that roll back.
TxnResult(k, o, now, mode, ret) ==
  IF GateViolation(k, o, now, mode) # "none" THEN GateViolation(k, o, now, mode)
  ELSE CASE ret = "ok"       -> "committed"
         [] ret = "throw"    -> "deliver-threw"
         [] ret = "thenable" -> "async-deliver"

ConsumedOwner(k, o, mode) == IF mode = "promote" THEN consumed[o].owner ELSE k

\* Variant for the runs: a throw from deliver is swallowed and the gate commits.
CommitWithoutGoods(k, o, now, retainUntil, mode, ret) ==
  LET txn == TxnResult(k, o, now, mode, ret)
  IN \/ /\ txn \in {"committed", "deliver-threw"}
        /\ seen' = [seen EXCEPT ![k] = [@ EXCEPT !.honoredAt = now, !.honoredOut = o]]
        /\ consumed' = [consumed EXCEPT ![o] =
             [owner |-> ConsumedOwner(k, o, mode), state |-> "honored",
              retainUntil |-> retainUntil]]
        /\ goods' = IF txn = "committed" THEN Append(goods, [key |-> k, out |-> o])
                    ELSE goods
     \/ /\ txn \notin {"committed", "deliver-threw"}
        /\ UNCHANGED storeVars

\* Lock, insert or promote, deliver, commit: one synchronous transaction.
RunHonorTxn(k, o, now, retainUntil, mode, ret) ==
  \/ /\ TxnResult(k, o, now, mode, ret) = "committed"
     /\ seen' = [seen EXCEPT ![k] = [@ EXCEPT !.honoredAt = now, !.honoredOut = o]]
     /\ consumed' = [consumed EXCEPT ![o] =
          [owner |-> ConsumedOwner(k, o, mode), state |-> "honored",
           retainUntil |-> retainUntil]]
     /\ goods' = Append(goods, [key |-> k, out |-> o])
  \/ /\ TxnResult(k, o, now, mode, ret) # "committed"
     /\ UNCHANGED storeVars

\* Both DELETEs, WHERE retain_until < now, in one transaction.
SweepTables(now) ==
  /\ seen' = [k \in Keys |->
       IF Present(k) /\ seen[k].retainUntil < now THEN NoRow ELSE seen[k]]
  /\ consumed' = [o \in Outpoints |->
       IF consumed[o] # NoRow /\ consumed[o].retainUntil < now
       THEN NoRow ELSE consumed[o]]
  /\ UNCHANGED goods
-----------------------------------------------------------------------------
\* Whatever the interleaving, restarts and sweeps, a quote's goods move at most
\* once (README.md "can never deliver twice"; runHonorTxn under stale reads).
OneDeliveryPerQuote ==
  \A i, j \in DOMAIN goods : goods[i].key = goods[j].key => i = j

\* The gate tables and the goods agree at every turn: an honored quote has its
\* outpoint consumed and its goods written, and a consumed outpoint has its
\* honored quote.  Holds through rollbacks, crashes and sweeps (F3, F11).
GateMatchesGoods ==
  /\ \A k \in Keys : Honored(k) =>
       /\ seen[k].honoredOut \in Outpoints
       /\ InState(seen[k].honoredOut, "honored")
       /\ \E i \in DOMAIN goods : goods[i] = [key |-> k, out |-> seen[k].honoredOut]
  /\ \A o \in Outpoints : InState(o, "honored") =>
       \E k \in Keys : Honored(k) /\ seen[k].honoredOut = o
=============================================================================
