------------------------------ MODULE FakeStore ------------------------------
(***************************************************************************)
(* FakeSyncStore, the in-memory store that the engine's tests, the forms'  *)
(* tests and half of the conformance suite run on.  It takes copies of the *)
(* rows, decides in an order of its own, and publishes the copies at the   *)
(* end.  Its goods are a set keyed by quote, not a log.                    *)
(***************************************************************************)
EXTENDS Integers

CONSTANTS Keys, Outpoints, NoRow, NULL, Forever

VARIABLES
  seen,       \* the map of SEEN rows
  outpoints,  \* the map of OutpointRows
  ledger      \* committed goods, by quote

UpsertAccepted(k, expiresAt, retainUntil) ==
  /\ \/ seen[k] # NoRow /\ UNCHANGED seen
     \/ /\ seen[k] = NoRow
        /\ seen' = [seen EXCEPT ![k] =
             [expiresAt |-> expiresAt, retainUntil |-> retainUntil,
              observed |-> FALSE, honoredAt |-> NULL, honoredOut |-> NULL]]
  /\ UNCHANGED <<outpoints, ledger>>

MarkObservedBeforeExpiry(k, now) ==
  /\ IF seen[k] # NoRow /\ now < seen[k].expiresAt
     THEN seen' = [seen EXCEPT ![k].observed = TRUE]
     ELSE UNCHANGED seen
  /\ UNCHANGED <<outpoints, ledger>>

ReserveClaimOutpoint(k, o) ==
  /\ \/ outpoints[o] # NoRow /\ UNCHANGED outpoints
     \/ /\ outpoints[o] = NoRow
        /\ outpoints' = [outpoints EXCEPT ![o] =
             [owner |-> k, state |-> "claim_pending", retainUntil |-> Forever]]
  /\ UNCHANGED <<seen, ledger>>
-----------------------------------------------------------------------------
\* Variant for the runs: the fake forgets the latch in its window test.
InsideOnly(row, now) == now < row.retainUntil /\ now < row.expiresAt

\* insideRetention and lateHonorOk.
InsideWindow(row, now) ==
  /\ now < row.retainUntil
  /\ now < row.expiresAt \/ row.observed

\* The outpoint row staged by step 2, NoRow where it throws outpoint-consumed.
StagedOutpoint(k, o, retainUntil, mode) ==
  LET existing == outpoints[o]
  IN IF mode = "single"
     THEN IF existing # NoRow THEN NoRow
          ELSE [owner |-> k, state |-> "honored", retainUntil |-> retainUntil]
     ELSE IF existing = NoRow \/ existing.state # "claim_pending" THEN NoRow
          ELSE [owner |-> existing.owner, state |-> "honored", retainUntil |-> retainUntil]

\* How runHonorTxn ends: its checks one after the other, then deliver.
Ends(k, o, now, retainUntil, mode, ret) ==
  IF seen[k] = NoRow                                   THEN "expired-window"
  ELSE IF seen[k].honoredAt # NULL                     THEN "seen-already-honored"
  ELSE IF ~InsideWindow(seen[k], now)                  THEN "expired-window"
  ELSE IF StagedOutpoint(k, o, retainUntil, mode) = NoRow THEN "outpoint-consumed"
  ELSE CASE ret = "ok"       -> "committed"
         [] ret = "throw"    -> "deliver-threw"
         [] ret = "thenable" -> "async-deliver"

\* The staged rows and the staged goods are published on commit only.
RunHonorTxn(k, o, now, retainUntil, mode, ret) ==
  IF Ends(k, o, now, retainUntil, mode, ret) = "committed"
  THEN /\ seen' = [seen EXCEPT ![k].honoredAt = now, ![k].honoredOut = o]
       /\ outpoints' =
            [outpoints EXCEPT ![o] = StagedOutpoint(k, o, retainUntil, mode)]
       /\ ledger' = ledger \cup {k}
  ELSE UNCHANGED <<seen, outpoints, ledger>>

\* One row after the other, in one turn of the event loop.
Sweep(now) ==
  LET live(row) == row # NoRow /\ ~(row.retainUntil < now)
  IN /\ seen' = [k \in Keys |-> IF live(seen[k]) THEN seen[k] ELSE NoRow]
     /\ outpoints' = [o \in Outpoints |-> IF live(outpoints[o]) THEN outpoints[o] ELSE NoRow]
     /\ UNCHANGED ledger
=============================================================================
