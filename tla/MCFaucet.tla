------------------------------ MODULE MCFaucet ------------------------------
(***************************************************************************)
(* Faucet for TLC: two requests at once, two clients, a budget that one    *)
(* drip nearly spends.                                                     *)
(***************************************************************************)
EXTENDS Faucet, TLC

Sym == Permutations(Slots) \cup Permutations(Addresses) \cup Permutations(Ips)
=============================================================================
