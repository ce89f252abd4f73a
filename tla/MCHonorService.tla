--------------------------- MODULE MCHonorService ---------------------------
(***************************************************************************)
(* Small instances of HonorService for TLC.                                *)
(***************************************************************************)
EXTENDS HonorService, TLC

CONSTANTS k1, o1

OneQuoteExpiry  == k1 :> 1
OneQuoteSettles == k1 :> {o1}

LoopSymmetry == Permutations(Loops)
=============================================================================
