---------------------------- MODULE MCPlainForm ----------------------------
(***************************************************************************)
(* Small instances of PlainForm for TLC.                                   *)
(***************************************************************************)
EXTENDS PlainForm, TLC

Good == [datum |-> "ours", value |-> "exact", script |-> "payee", funded |-> TRUE]

\* A paying output, ways to fail one clause, and one that fails two.
MCKinds == {Good,
            [Good EXCEPT !.datum = "foreign"],
            [Good EXCEPT !.datum = "unhonorable"],
            [Good EXCEPT !.script = "other"],
            [Good EXCEPT !.value = "other", !.script = "other"],
            [Good EXCEPT !.funded = FALSE]}

\* The world moves before a call, not between an answer and the next call: an
\* answer is not looked at again, and Start forgets it.  Once asked, the index
\* only drops: score looks at no output it lists later, and one it lists again
\* reads as if it had never been dropped.
FewerMoves ==
  /\ stage = "done" => stage' = "tip"
  /\ stage \in {"fetch", "score"} => index' \subseteq index

\* What the states are told apart by.  Of a call that has ended the properties read
\* what it gathered, and Start the chain; a call may throw on any chain, so the
\* next one starts from each of them all the same.
Threw == Fault("adapter_error")

View ==
  IF stage # "done" THEN vars
  ELSE IF verdict = Threw THEN <<stage, chainVars>>
  ELSE <<stage, kind, holds, readTip, raw, verdict, history>>

OutputSymmetry == Permutations(Outputs)
=============================================================================
