--------------------------- MODULE GateStoreProofs ---------------------------
(***************************************************************************)
(* Every operation of the store keeps its tables well typed, and keeps     *)
(* tables and goods together, whatever dates the quotes were signed with.  *)
(***************************************************************************)
EXTENDS GateStore, TLAPS

LEMMA InitStoreType == StoreInit => StoreTypeOK
  BY DEF StoreInit, StoreTypeOK

LEMMA UpsertType ==
  ASSUME StoreTypeOK, NEW k \in Keys, NEW e \in Nat, NEW r \in Nat,
         UpsertAccepted(k, e, r)
  PROVE  StoreTypeOK'
<1>1. [expiresAt |-> e, retainUntil |-> r,
       observed |-> FALSE, honoredAt |-> NULL, honoredOut |-> NULL] \in SeenRow
  BY DEF SeenRow
<1> QED
  BY <1>1 DEF UpsertAccepted, StoreTypeOK

LEMMA MarkObservedType ==
  ASSUME StoreTypeOK, NEW k \in Keys, NEW now, MarkObservedBeforeExpiry(k, now)
  PROVE  StoreTypeOK'
<1>1. ASSUME Present(k)
      PROVE  [seen[k] EXCEPT !.observed = TRUE] \in SeenRow
  BY <1>1 DEF StoreTypeOK, Present, SeenRow
<1> QED
  BY <1>1 DEF MarkObservedBeforeExpiry, StoreTypeOK

LEMMA ReserveType ==
  ASSUME StoreTypeOK, NEW k \in Keys, NEW o \in Outpoints, ReserveClaimOutpoint(k, o)
  PROVE  StoreTypeOK'
<1>1. [owner |-> k, state |-> "claim_pending", retainUntil |-> Forever] \in ConsumedRow
  BY StoreAssumption DEF ConsumedRow
<1> QED
  BY <1>1 DEF ReserveClaimOutpoint, StoreTypeOK

LEMMA SweepType ==
  ASSUME StoreTypeOK, NEW now, SweepTables(now)
  PROVE  StoreTypeOK'
  BY DEF SweepTables, StoreTypeOK

\* What a transaction that is not refused has found in the tables.
LEMMA CommitFound ==
  ASSUME NEW k, NEW o, NEW now, NEW mode \in {"single", "promote"}, NEW ret,
         TxnResult(k, o, now, mode, ret) = "committed"
  PROVE  Lockable(k, now) /\ Consumable(o, mode)
  BY DEF TxnResult, GateViolation

\* What it writes: the quote's latch, the outpoint's row and the goods.
LEMMA TxnType ==
  ASSUME StoreTypeOK, NEW k \in Keys, NEW o \in Outpoints, NEW now \in Nat,
         NEW r \in Nat, NEW mode \in {"single", "promote"}, NEW ret,
         RunHonorTxn(k, o, now, r, mode, ret)
  PROVE  StoreTypeOK'
<1>1. CASE TxnResult(k, o, now, mode, ret) = "committed"
  <2>1. Present(k) /\ Consumable(o, mode)
    BY <1>1, CommitFound DEF Lockable
  <2>2. [seen[k] EXCEPT !.honoredAt = now, !.honoredOut = o] \in SeenRow
    BY <2>1 DEF StoreTypeOK, Present, SeenRow
  <2>3. ConsumedOwner(k, o, mode) \in Keys
    BY <2>1 DEF ConsumedOwner, Consumable, InState, StoreTypeOK, ConsumedRow
  <2>4. [owner |-> ConsumedOwner(k, o, mode), state |-> "honored", retainUntil |-> r]
          \in ConsumedRow
    BY <2>3 DEF ConsumedRow
  <2>5. [key |-> k, out |-> o] \in Delivery
    BY DEF Delivery
  <2>6. /\ seen' = [seen EXCEPT ![k] = [seen[k] EXCEPT !.honoredAt = now, !.honoredOut = o]]
        /\ consumed' = [consumed EXCEPT ![o] =
             [owner |-> ConsumedOwner(k, o, mode), state |-> "honored", retainUntil |-> r]]
        /\ goods' = Append(goods, [key |-> k, out |-> o])
    BY <1>1 DEF RunHonorTxn, StoreTypeOK
  <2>7. goods' \in Seq(Delivery)
    BY <2>5, <2>6 DEF StoreTypeOK
  <2> QED
    BY <2>2, <2>4, <2>6, <2>7 DEF StoreTypeOK
<1>2. CASE TxnResult(k, o, now, mode, ret) # "committed"
  BY <1>2 DEF RunHonorTxn, StoreTypeOK, storeVars
<1> QED
  BY <1>1, <1>2

\* A commit row by row: it takes an unhonored quote and an outpoint that is not
\* honored yet, latches both, appends the goods and touches nothing else.
CommitEffect(k, o, now, r) ==
  /\ Lockable(k, now) /\ ~Honored(k) /\ ~InState(o, "honored")
  /\ seen'[k] # NoRow /\ seen'[k].honoredAt # NULL
  /\ seen'[k].honoredAt = now /\ seen'[k].honoredOut = o
  /\ seen'[k].expiresAt = seen[k].expiresAt
  /\ seen'[k].retainUntil = seen[k].retainUntil
  /\ seen'[k].observed = seen[k].observed
  /\ \A j \in Keys : j # k => seen'[j] = seen[j]
  /\ consumed'[o] # NoRow /\ consumed'[o].state = "honored"
  /\ consumed'[o].retainUntil = r
  /\ InState(o, "claim_pending") => consumed'[o].owner = consumed[o].owner
  /\ \A q \in Outpoints : q # o => consumed'[q] = consumed[q]
  /\ goods' = Append(goods, [key |-> k, out |-> o])

LEMMA CommitWrites ==
  ASSUME StoreTypeOK, NEW k \in Keys, NEW o \in Outpoints, NEW now \in Nat,
         NEW r \in Nat, NEW mode \in {"single", "promote"}, NEW ret,
         RunHonorTxn(k, o, now, r, mode, ret),
         TxnResult(k, o, now, mode, ret) = "committed"
  PROVE  CommitEffect(k, o, now, r)
<1>1. Lockable(k, now) /\ Consumable(o, mode)
  BY CommitFound
<1>2. /\ seen' = [seen EXCEPT ![k] = [seen[k] EXCEPT !.honoredAt = now, !.honoredOut = o]]
      /\ consumed' = [consumed EXCEPT ![o] =
           [owner |-> ConsumedOwner(k, o, mode), state |-> "honored", retainUntil |-> r]]
      /\ goods' = Append(goods, [key |-> k, out |-> o])
  BY DEF RunHonorTxn, StoreTypeOK
<1>3. seen[k] \in SeenRow
  BY <1>1 DEF Lockable, Present, StoreTypeOK
<1>4. [seen[k] EXCEPT !.honoredAt = now, !.honoredOut = o] \in SeenRow
  BY <1>3 DEF SeenRow
<1>5. /\ seen'[k].honoredAt = now /\ seen'[k].honoredOut = o
      /\ seen'[k].expiresAt = seen[k].expiresAt
      /\ seen'[k].retainUntil = seen[k].retainUntil
      /\ seen'[k].observed = seen[k].observed
  BY <1>2, <1>3 DEF StoreTypeOK, SeenRow
<1>6. seen'[k] # NoRow /\ now # NULL
  BY <1>2, <1>4, StoreAssumption DEF StoreTypeOK
<1>7. seen'[k].honoredAt # NULL /\ ~Honored(k)
  BY <1>1, <1>5, <1>6 DEF Honored, Lockable
<1>8. consumed'[o] = [owner |-> ConsumedOwner(k, o, mode), state |-> "honored",
                      retainUntil |-> r]
  BY <1>2 DEF StoreTypeOK
<1>9. ConsumedOwner(k, o, mode) \in Keys
  BY <1>1 DEF ConsumedOwner, Consumable, InState, StoreTypeOK, ConsumedRow
<1>10. consumed'[o] # NoRow
  BY <1>8, <1>9, StoreAssumption DEF ConsumedRow
<1>11. consumed'[o].state = "honored" /\ consumed'[o].retainUntil = r
  BY <1>8
<1>12. ~InState(o, "honored")
  BY <1>1 DEF Consumable, InState
<1>13. InState(o, "claim_pending") => consumed'[o].owner = consumed[o].owner
  BY <1>1, <1>8 DEF Consumable, InState, ConsumedOwner
<1>14. /\ \A j \in Keys : j # k => seen'[j] = seen[j]
       /\ \A q \in Outpoints : q # o => consumed'[q] = consumed[q]
  BY <1>2 DEF StoreTypeOK
<1> QED
  BY <1>1, <1>2, <1>5, <1>6, <1>7, <1>10, <1>11, <1>12, <1>13, <1>14 DEF CommitEffect

\* Refused or rolled back, a transaction leaves no trace.
LEMMA RollbackKeeps ==
  ASSUME NEW k, NEW o, NEW now, NEW r, NEW mode, NEW ret,
         RunHonorTxn(k, o, now, r, mode, ret),
         TxnResult(k, o, now, mode, ret) # "committed"
  PROVE  UNCHANGED storeVars
  BY DEF RunHonorTxn
-----------------------------------------------------------------------------
\* The goods only grow.
GoodsGrow ==
  \A i \in DOMAIN goods : i \in DOMAIN goods' /\ goods'[i] = goods[i]

\* The dates in quote_seen are those of the signed quotes, whoever wrote the row.
RowsDated(expiry, retain) ==
  \A k \in Keys : Present(k) =>
    seen[k].expiresAt = expiry[k] /\ seen[k].retainUntil = retain[k]

\* The two rows of an honor fall due together, and a reservation never does.
RowsRetained(retain) ==
  /\ \A k \in Keys : Honored(k) => consumed[seen[k].honoredOut].retainUntil = retain[k]
  /\ \A o \in Outpoints : InState(o, "claim_pending") => consumed[o].retainUntil = Forever

\* What every operation of the store keeps of its tables and the goods.
TablesDated(expiry, retain) ==
  /\ RowsDated(expiry, retain)
  /\ RowsRetained(retain)
  /\ GateMatchesGoods

LEMMA DatedSame ==
  ASSUME NEW expiry, NEW retain, TablesDated(expiry, retain), UNCHANGED storeVars
  PROVE  TablesDated(expiry, retain)' /\ GoodsGrow
<1>1. RowsDated(expiry, retain)'
  BY DEF TablesDated, storeVars, RowsDated, Present
<1>2. RowsRetained(retain)'
  BY DEF TablesDated, storeVars, RowsRetained, Honored, Present, InState
<1>3. GateMatchesGoods'
  BY DEF TablesDated, storeVars, GateMatchesGoods, Honored, Present, InState
<1> QED
  BY <1>1, <1>2, <1>3 DEF TablesDated, GoodsGrow, storeVars

\* A row that only appears unhonored, or only gets its latch, disturbs nothing.
LEMMA DatedKept ==
  ASSUME NEW expiry, NEW retain, TablesDated(expiry, retain), UNCHANGED <<consumed, goods>>,
         RowsDated(expiry, retain)',
         \A k \in Keys : Honored(k)' <=> Honored(k),
         \A k \in Keys : Honored(k) => seen'[k].honoredOut = seen[k].honoredOut
  PROVE  TablesDated(expiry, retain)' /\ GoodsGrow
<1>1. RowsRetained(retain)'
  BY DEF TablesDated, RowsRetained, InState
<1>2. GateMatchesGoods'
  BY DEF TablesDated, GateMatchesGoods, InState
<1> QED
  BY <1>1, <1>2 DEF TablesDated, GoodsGrow

LEMMA UpsertDated ==
  ASSUME NEW expiry, NEW retain, StoreTypeOK, TablesDated(expiry, retain), NEW k \in Keys,
         UpsertAccepted(k, expiry[k], retain[k])
  PROVE  TablesDated(expiry, retain)' /\ GoodsGrow
<1>1. \A j \in Keys : Present(j) => seen'[j] = seen[j]
  BY DEF UpsertAccepted, StoreTypeOK, Present
<1>2. \A j \in Keys : ~Present(j) => \/ seen'[j] = seen[j]
                                     \/ /\ j = k
                                        /\ seen'[j].expiresAt = expiry[k]
                                        /\ seen'[j].retainUntil = retain[k]
                                        /\ seen'[j].honoredAt = NULL
  BY DEF UpsertAccepted, StoreTypeOK, Present
<1>3. RowsDated(expiry, retain)'
  BY <1>1, <1>2 DEF TablesDated, RowsDated, Present
<1>4. \A j \in Keys : Honored(j)' <=> Honored(j)
  BY <1>1, <1>2 DEF Honored, Present
<1>5. \A j \in Keys : Honored(j) => seen'[j].honoredOut = seen[j].honoredOut
  BY <1>1 DEF Honored
<1> QED
  BY <1>3, <1>4, <1>5, DatedKept DEF UpsertAccepted

LEMMA MarkDated ==
  ASSUME NEW expiry, NEW retain, StoreTypeOK, TablesDated(expiry, retain), NEW k \in Keys,
         NEW now, MarkObservedBeforeExpiry(k, now)
  PROVE  TablesDated(expiry, retain)' /\ GoodsGrow
<1>1. \A j \in Keys : Present(j)' <=> Present(j)
  <2>1. [seen[k] EXCEPT !.observed = TRUE] \in SeenRow \/ ~Present(k)
    BY DEF StoreTypeOK, Present, SeenRow
  <2> QED
    BY <2>1, StoreAssumption DEF MarkObservedBeforeExpiry, StoreTypeOK, Present
<1>2. \A j \in Keys : Present(j) => /\ seen'[j].expiresAt = seen[j].expiresAt
                                    /\ seen'[j].retainUntil = seen[j].retainUntil
                                    /\ seen'[j].honoredAt = seen[j].honoredAt
                                    /\ seen'[j].honoredOut = seen[j].honoredOut
  BY DEF MarkObservedBeforeExpiry, StoreTypeOK, Present, SeenRow
<1>3. RowsDated(expiry, retain)'
  BY <1>1, <1>2 DEF TablesDated, RowsDated
<1>4. \A j \in Keys : Honored(j)' <=> Honored(j)
  BY <1>1, <1>2 DEF Honored
<1>5. \A j \in Keys : Honored(j) => seen'[j].honoredOut = seen[j].honoredOut
  BY <1>2 DEF Honored
<1> QED
  BY <1>3, <1>4, <1>5, DatedKept DEF MarkObservedBeforeExpiry

LEMMA ReserveDated ==
  ASSUME NEW expiry, NEW retain, StoreTypeOK, TablesDated(expiry, retain),
         NEW k \in Keys, NEW o \in Outpoints,
         ReserveClaimOutpoint(k, o)
  PROVE  TablesDated(expiry, retain)' /\ GoodsGrow
<1>1. [owner |-> k, state |-> "claim_pending", retainUntil |-> Forever] # NoRow
  BY StoreAssumption DEF ConsumedRow
<1>2. \A q \in Outpoints : consumed[q] # NoRow => consumed'[q] = consumed[q]
  BY DEF ReserveClaimOutpoint, StoreTypeOK
<1>3. \A q \in Outpoints : consumed[q] = NoRow =>
        \/ consumed'[q] = NoRow
        \/ consumed'[q].state = "claim_pending" /\ consumed'[q].retainUntil = Forever
  BY DEF ReserveClaimOutpoint, StoreTypeOK
<1>4. \A q \in Outpoints : InState(q, "honored")' <=> InState(q, "honored")
  BY <1>2, <1>3 DEF InState
<1>5. RowsDated(expiry, retain)'
  BY DEF ReserveClaimOutpoint, TablesDated, RowsDated, Present
<1>6. RowsRetained(retain)'
  <2>1. ASSUME NEW j \in Keys, Honored(j)'
        PROVE  consumed'[seen'[j].honoredOut].retainUntil = retain[j]
    <3>1. Honored(j) /\ seen'[j] = seen[j]
      BY <2>1 DEF ReserveClaimOutpoint, Honored, Present
    <3>2. seen[j].honoredOut \in Outpoints /\ InState(seen[j].honoredOut, "honored")
      BY <3>1 DEF TablesDated, GateMatchesGoods
    <3> QED
      BY <1>2, <3>1, <3>2 DEF TablesDated, RowsRetained, InState
  <2>2. ASSUME NEW q \in Outpoints, InState(q, "claim_pending")'
        PROVE  consumed'[q].retainUntil = Forever
    BY <1>2, <1>3, <2>2 DEF TablesDated, RowsRetained, InState
  <2> QED
    BY <2>1, <2>2 DEF RowsRetained
<1>7. GateMatchesGoods'
  BY <1>4 DEF ReserveClaimOutpoint, TablesDated, GateMatchesGoods, Honored, Present
<1> QED
  BY <1>5, <1>6, <1>7 DEF TablesDated, GoodsGrow, ReserveClaimOutpoint

\* A sweep takes an honored quote and its outpoint together, and no reservation.
LEMMA SweepDated ==
  ASSUME NEW expiry, NEW retain, StoreTypeOK, TablesDated(expiry, retain),
         NEW now \in Nat, now <= Forever, SweepTables(now)
  PROVE  /\ TablesDated(expiry, retain)' /\ GoodsGrow
         /\ \A k \in Keys : Present(k)' => Present(k) /\ seen'[k] = seen[k]
         /\ \A k \in Keys : Present(k) /\ ~(retain[k] < now) => Present(k)'
         /\ \A o \in Outpoints : InState(o, "claim_pending") => consumed'[o] = consumed[o]
<1>1. \A k \in Keys : Present(k)' => Present(k) /\ seen'[k] = seen[k]
  BY DEF SweepTables, Present
<1>2. \A k \in Keys : Present(k) /\ ~(retain[k] < now) => Present(k)'
  BY DEF SweepTables, Present, TablesDated, RowsDated
<1>3. \A o \in Outpoints : consumed'[o] # NoRow => consumed'[o] = consumed[o]
  BY DEF SweepTables
<1>4. \A o \in Outpoints : InState(o, "claim_pending") => consumed'[o] = consumed[o]
  <2>1. ~(Forever < now)
    BY StoreAssumption
  <2> QED
    BY <2>1 DEF SweepTables, TablesDated, RowsRetained, InState
<1>5. RowsDated(expiry, retain)'
  BY <1>1 DEF TablesDated, RowsDated
<1>6. \A k \in Keys : Honored(k)' =>
        /\ Honored(k) /\ seen'[k] = seen[k]
        /\ consumed'[seen[k].honoredOut] = consumed[seen[k].honoredOut]
  <2> SUFFICES ASSUME NEW k \in Keys, Honored(k)'
               PROVE  /\ Honored(k) /\ seen'[k] = seen[k]
                      /\ consumed'[seen[k].honoredOut] = consumed[seen[k].honoredOut]
    OBVIOUS
  <2>1. Honored(k) /\ seen'[k] = seen[k]
    BY <1>1 DEF Honored
  <2>2. ~(seen[k].retainUntil < now)
    BY <2>1 DEF SweepTables, Honored, Present
  <2>3. seen[k].honoredOut \in Outpoints /\ ~(consumed[seen[k].honoredOut].retainUntil < now)
    BY <2>1, <2>2 DEF TablesDated, GateMatchesGoods, RowsRetained, RowsDated, Honored
  <2> QED
    BY <2>1, <2>3 DEF SweepTables
<1>7. RowsRetained(retain)'
  BY <1>3, <1>6 DEF TablesDated, RowsRetained, InState
<1>8. \A o \in Outpoints : InState(o, "honored")' =>
        \E k \in Keys : Honored(k)' /\ seen'[k].honoredOut = o
  <2> SUFFICES ASSUME NEW o \in Outpoints, InState(o, "honored")'
               PROVE  \E k \in Keys : Honored(k)' /\ seen'[k].honoredOut = o
    OBVIOUS
  <2>1. InState(o, "honored") /\ ~(consumed[o].retainUntil < now)
    BY DEF SweepTables, InState
  <2>2. PICK k \in Keys : Honored(k) /\ seen[k].honoredOut = o
    BY <2>1 DEF TablesDated, GateMatchesGoods
  <2>3. ~(retain[k] < now)
    BY <2>1, <2>2 DEF TablesDated, RowsRetained
  <2>4. Present(k)' /\ seen'[k] = seen[k]
    BY <1>1, <1>2, <2>2, <2>3 DEF Honored
  <2> QED
    BY <2>2, <2>4 DEF Honored
<1>9. GateMatchesGoods'
  <2>1. ASSUME NEW k \in Keys, Honored(k)'
        PROVE  /\ seen'[k].honoredOut \in Outpoints
               /\ consumed'[seen'[k].honoredOut] # NoRow
               /\ consumed'[seen'[k].honoredOut].state = "honored"
               /\ \E i \in DOMAIN goods' :
                    goods'[i] = [key |-> k, out |-> seen'[k].honoredOut]
    <3>1. Honored(k) /\ seen'[k] = seen[k]
          /\ consumed'[seen[k].honoredOut] = consumed[seen[k].honoredOut]
      BY <1>6, <2>1
    <3>2. goods' = goods
      BY DEF SweepTables
    <3> QED
      BY <3>1, <3>2 DEF TablesDated, GateMatchesGoods, InState
  <2> QED
    BY <1>8, <2>1 DEF GateMatchesGoods, InState
<1> QED
  BY <1>1, <1>2, <1>4, <1>5, <1>7, <1>9 DEF TablesDated, GoodsGrow, SweepTables

\* The gate transaction, committed: quote, outpoint and goods change together.
LEMMA CommitDated ==
  ASSUME NEW expiry, NEW retain, StoreTypeOK, TablesDated(expiry, retain),
         NEW k \in Keys, retain[k] \in Nat, NEW o \in Outpoints, NEW now \in Nat,
         NEW mode \in {"single", "promote"}, NEW ret,
         RunHonorTxn(k, o, now, retain[k], mode, ret),
         TxnResult(k, o, now, mode, ret) = "committed"
  PROVE  /\ TablesDated(expiry, retain)' /\ GoodsGrow
         /\ \E i \in DOMAIN goods' : goods'[i] = [key |-> k, out |-> o]
<1>2. /\ Lockable(k, now) /\ ~Honored(k) /\ ~InState(o, "honored")
      /\ Honored(k)' /\ seen'[k].honoredOut = o
      /\ seen'[k].expiresAt = seen[k].expiresAt
      /\ seen'[k].retainUntil = seen[k].retainUntil
      /\ \A j \in Keys : j # k => seen'[j] = seen[j]
      /\ InState(o, "honored")' /\ consumed'[o].retainUntil = retain[k]
      /\ \A q \in Outpoints : q # o => consumed'[q] = consumed[q]
      /\ goods' = Append(goods, [key |-> k, out |-> o])
  BY CommitWrites DEF CommitEffect, Honored, Present, InState
<1>3. /\ GoodsGrow
      /\ \E i \in DOMAIN goods' : goods'[i] = [key |-> k, out |-> o]
  <2>1. goods \in Seq(Delivery) /\ [key |-> k, out |-> o] \in Delivery
    BY DEF StoreTypeOK, Delivery
  <2>2. \A i \in DOMAIN goods : i \in DOMAIN goods' /\ goods'[i] = goods[i]
    BY <1>2, <2>1
  <2>3. Len(goods) + 1 \in DOMAIN goods' /\ goods'[Len(goods) + 1] = [key |-> k, out |-> o]
    BY <1>2, <2>1
  <2> QED
    BY <2>2, <2>3 DEF GoodsGrow
<1>4. \A j \in Keys : j # k =>
        (Honored(j)' <=> Honored(j)) /\ (Present(j)' <=> Present(j))
  BY <1>2 DEF Honored, Present
<1>5. RowsDated(expiry, retain)'
  BY <1>2, <1>4 DEF TablesDated, RowsDated, Lockable
<1>6. \A j \in Keys : Honored(j) => /\ seen[j].honoredOut \in Outpoints
                                    /\ seen[j].honoredOut # o
                                    /\ InState(seen[j].honoredOut, "honored")
  BY <1>2 DEF TablesDated, GateMatchesGoods
<1>7. RowsRetained(retain)'
  <2>1. ASSUME NEW j \in Keys, Honored(j)'
        PROVE  consumed'[seen'[j].honoredOut].retainUntil = retain[j]
    <3>1. CASE j = k
      BY <1>2, <3>1
    <3>2. CASE j # k
      BY <1>2, <1>4, <1>6, <2>1, <3>2 DEF TablesDated, RowsRetained
    <3> QED
      BY <3>1, <3>2
  <2>2. ASSUME NEW q \in Outpoints, consumed'[q] # NoRow, consumed'[q].state = "claim_pending"
        PROVE  consumed'[q].retainUntil = Forever
    <3>1. q # o
      BY <1>2, <2>2 DEF InState
    <3> QED
      BY <1>2, <2>2, <3>1 DEF TablesDated, RowsRetained, InState
  <2> QED
    BY <2>1, <2>2 DEF RowsRetained, InState
<1>8. GateMatchesGoods'
  <2>1. ASSUME NEW j \in Keys, Honored(j)'
        PROVE  /\ seen'[j].honoredOut \in Outpoints
               /\ consumed'[seen'[j].honoredOut] # NoRow
               /\ consumed'[seen'[j].honoredOut].state = "honored"
               /\ \E i \in DOMAIN goods' :
                    goods'[i] = [key |-> j, out |-> seen'[j].honoredOut]
    <3>1. CASE j = k
      BY <1>2, <1>3, <3>1 DEF InState
    <3>2. CASE j # k
      <4>1. Honored(j) /\ seen'[j] = seen[j]
        BY <1>2, <1>4, <2>1, <3>2
      <4>2. consumed'[seen[j].honoredOut] = consumed[seen[j].honoredOut]
        BY <1>2, <1>6, <4>1
      <4>3. PICK i \in DOMAIN goods : goods[i] = [key |-> j, out |-> seen[j].honoredOut]
        BY <4>1 DEF TablesDated, GateMatchesGoods
      <4> QED
        BY <1>3, <1>6, <4>1, <4>2, <4>3 DEF InState, GoodsGrow
    <3> QED
      BY <3>1, <3>2
  <2>2. ASSUME NEW q \in Outpoints, InState(q, "honored")'
        PROVE  \E j \in Keys : Honored(j)' /\ seen'[j].honoredOut = q
    <3>1. CASE q = o
      BY <1>2, <3>1
    <3>2. CASE q # o
      <4>1. InState(q, "honored")
        BY <1>2, <2>2, <3>2 DEF InState
      <4>2. PICK j \in Keys : Honored(j) /\ seen[j].honoredOut = q
        BY <4>1 DEF TablesDated, GateMatchesGoods
      <4>3. j # k
        BY <1>2, <4>2
      <4> QED
        BY <1>2, <1>4, <4>2, <4>3
    <3> QED
      BY <3>1, <3>2
  <2> QED
    BY <2>1, <2>2 DEF GateMatchesGoods, InState
<1> QED
  BY <1>3, <1>5, <1>7, <1>8 DEF TablesDated
=============================================================================
