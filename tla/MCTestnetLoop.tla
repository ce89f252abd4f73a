---------------------------- MODULE MCTestnetLoop ----------------------------
(***************************************************************************)
(* TestnetLoop for TLC: its constants are plain values.                    *)
(***************************************************************************)
EXTENDS TestnetLoop
=============================================================================
