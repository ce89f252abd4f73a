--------------------------- MODULE MCPostgresGate ---------------------------
(***************************************************************************)
(* Small instances of PostgresGate for TLC.                                *)
(***************************************************************************)
EXTENDS PostgresGate, TLC

CONSTANTS k1, k2, o1, o2

\* o1 can pay both quotes; the HTLC one ages out while the plain one is still open.
SharedExpiry  == k1 :> 2 @@ k2 :> 1
SharedSettles == k1 :> {o1} @@ k2 :> {o1, o2}
SharedModes   == k1 :> "single" @@ k2 :> "promote"

\* What the states are told apart by: no step and no property reads the locals or
\* the answer of a call that is over.
View == <<storeVars, clock, claims, sweep,
  [c \in Calls |-> IF InFlight(c) THEN <<at[c], txn[c]>> ELSE <<>>]>>

CallSymmetry == Permutations(Calls)
=============================================================================
