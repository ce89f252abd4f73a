----------------------------- MODULE MCRpcPorts -----------------------------
(***************************************************************************)
(* RpcPorts for TLC.  Bytes have four values and ids two bytes; a payment  *)
(* whose first output has a datum hash and whose second carries the quote  *)
(* id, and one that has a datum of another length.                         *)
(***************************************************************************)
EXTENDS RpcPorts

CONSTANTS t1, t2

MCTxIds == {t1, t2}
Out(value, script, datum, hash) ==
  [value |-> value, script |-> script, datum |-> datum, hash |-> hash]
In(prevTx, prevIndex) == [prevTx |-> prevTx, prevIndex |-> prevIndex]

MCTxBody ==
  t1 :> [inputs  |-> <<In(<<1, 3>>, 5)>>,
         outputs |-> <<Out(7, <<2>>, NULL, Text(<<0, 1>>)),
                       Out(300, <<0>>, EncodeSettlementDatum(Text(<<2, 1>>), 1), NULL)>>]
  @@
  t2 :> [inputs  |-> <<In(<<0, 2>>, 1), In(<<1, 1>>, 0)>>,
         outputs |-> <<Out(9, <<>>, Text(<<2, 1, 1>>), NULL), Out(1, <<1>>, NULL, NULL)>>]

MCListings ==
  LET o(t, i) == [tx |-> t, index |-> i]
  IN {<<>>, <<o(t1, 2)>>, <<o(t1, 2), o(t2, 1)>>, <<o(t2, 1), o(t1, 2)>>,
      <<o(t1, 2), o(t1, 1)>>, <<o(t1, 2), o(t2, 3)>>, <<o(t1, 2), o(t2, 1), o(t2, 2)>>}

\* A hypothesis of the proofs, evaluated.
ASSUME MCSpend == TxsSpend
=============================================================================
