--------------------------- MODULE MCHonorEngine ---------------------------
(***************************************************************************)
(* Small instances of HonorEngine for TLC.                                 *)
(***************************************************************************)
EXTENDS StoreParity, TLC

CONSTANTS k1, k2, o1, o2

\* o1 can pay both quotes; the HTLC one is swept while the plain one is still open.
SharedExpiry  == k1 :> 2 @@ k2 :> 1
SharedSettles == k1 :> {o1, o2} @@ k2 :> {o1}
SharedForms   == k1 :> "plain" @@ k2 :> "htlc"

\* What the states are told apart by.  No step reads the locals or the answer of a
\* call that is over, and no property any answer but these two.
TrueAnswers == {"honored", "already_honored"}

View == <<storeVars, clock, claims,
  [c \in Calls |-> IF InFlight(c) THEN <<pc[c], call[c]>>
                   ELSE IF result[c] \in TrueAnswers THEN <<result[c], call[c]>> ELSE <<>>]>>

CallSymmetry == Permutations(Calls)
=============================================================================
