----------------------------- MODULE MCHtlcForm -----------------------------
(***************************************************************************)
(* Small instances of HtlcForm for TLC.                                    *)
(***************************************************************************)
EXTENDS HtlcForm, TLC

CONSTANTS k1, o1, o2

OneQuoteExpiry == k1 :> 1

Good == [receiver |-> "payee", value |-> "exact", sender |-> "payer"]

OneLock == o1 :> Good
MixedLocks == o1 :> Good @@ o2 :> [Good EXCEPT !.value = "other"]

OneTimeout == o1 :> 3
\* The mismatched lock outlives the run.
MixedTimeouts == o1 :> 3 @@ o2 :> 9

CallSymmetry == Permutations(Calls)
=============================================================================
