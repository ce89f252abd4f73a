------------------------------ MODULE TxCodec ------------------------------
(***************************************************************************)
(* The two codecs of the library: the decoder of a node's tx_hex, and the  *)
(* strict settlement datum.  A text of hex is the sequence of its byte     *)
(* pairs, NaN for a pair that is no number, and whether a digit is left    *)
(* over.  A reader takes the bytes and a position, and gives the position  *)
(* after what it read, Eof where the code throws.  A byte has Base values. *)
(***************************************************************************)
EXTENDS Integers, Sequences, SequencesExt, FiniteSetsExt

CONSTANTS Base, IdLen, QuoteIdBytes, NULL

Byte == 0..(Base - 1)
NaN == -1
Eof == 0
Throws == "throws"

\* hexToBytes; a text that it refuses has no bytes, and no header either.
HexToBytes(text) ==
  IF text.odd \/ \E i \in DOMAIN text.bytes : text.bytes[i] = NaN
  THEN <<>> ELSE text.bytes

\* u16le, u32le and u64le.
LE(b, p, width) == MapThenSumSet(LAMBDA i : b[p + i] * Base^i, 0..(width - 1))

\* need, and the move past n bytes.
Skip(b, p, n) == IF p # Eof /\ p + n - 1 <= Len(b) THEN p + n ELSE Eof

VarBytes(b, p) ==
  LET q == Skip(b, p, 2) IN IF q = Eof THEN Eof ELSE Skip(b, q, LE(b, p, 2))

\* A field behind a has_ flag, present being where it would end; only 0 and 1
\* are canonical.
Optional(b, p, present) ==
  LET q == Skip(b, p, 1)
  IN IF q = Eof THEN Eof
     ELSE CASE b[p] = 1 -> present [] b[p] = 0 -> q [] OTHER -> Eof

InputEnd(b, p) == Skip(b, p, IdLen + 4)

\* value, script and an optional datum.
DatumEnd(b, p) ==
  LET q == VarBytes(b, Skip(b, p, 8)) IN Optional(b, q, VarBytes(b, q + 1))

\* Variant for the runs: the datum hash is taken for the next output's.
OutputEndNoHash(b, p) == DatumEnd(b, p)

OutputEnd(b, p) ==
  LET q == DatumEnd(b, p) IN Optional(b, q, Skip(b, q + 1, IdLen))

DecodeTx(text) ==
  LET b    == HexToBytes(text)
      nIn  == LE(b, 1, 2)
      nOut == LE(b, 3, 2)
      ins[i \in 0..nIn]   == IF i = 0 THEN 5 ELSE InputEnd(b, ins[i - 1])
      outs[i \in 0..nOut] == IF i = 0 THEN ins[nIn] ELSE OutputEnd(b, outs[i - 1])
  IN IF Skip(b, 1, 4) = Eof \/ outs[nOut] = Eof THEN [ok |-> FALSE]
     ELSE [ok |-> TRUE,
           inputs |-> [i \in 1..nIn |->
             LET p == ins[i - 1]
             IN [prevTx |-> SubSeq(b, p, p + IdLen - 1), prevIndex |-> LE(b, p + IdLen, 4)]],
           outputs |-> [i \in 1..nOut |->
             LET p == outs[i - 1]
             IN [value |-> LE(b, p, 8),
                 script |-> SubSeq(b, p + 10, p + 9 + LE(b, p + 8, 2))]]]
-----------------------------------------------------------------------------
(* The node's side of the wire, Transaction::serialize, as lines 300-308 of *)
(* indexer-chain.ts give it.  An output's datum and datum hash are NULL or  *)
(* one bytes.  present is the flag of a field that is there.               *)
ToLE(v, width) == [i \in 1..width |-> (v \div Base^(i - 1)) % Base]
Sized(bytes) == ToLE(Len(bytes), 2) \o bytes

EncodeOutput(o, present) ==
  ToLE(o.value, 8) \o Sized(o.script)
  \o (IF o.datum = NULL THEN <<0>> ELSE <<present>> \o Sized(o.datum.bytes))
  \o (IF o.hash = NULL THEN <<0>> ELSE <<present>> \o o.hash.bytes)

EncodeTx(tx, present) ==
  ToLE(Len(tx.inputs), 2) \o ToLE(Len(tx.outputs), 2)
  \o FlattenSeq([i \in DOMAIN tx.inputs |->
       tx.inputs[i].prevTx \o ToLE(tx.inputs[i].prevIndex, 4)])
  \o FlattenSeq([i \in DOMAIN tx.outputs |-> EncodeOutput(tx.outputs[i], present)])

Text(bytes) == [odd |-> FALSE, bytes |-> bytes]
-----------------------------------------------------------------------------
(* The settlement datum, version 1: the quote id and nothing else.         *)
CurrentVersion == 1

DecodeSettlementDatum(text, version) ==
  IF version # CurrentVersion THEN "unknown_version"
  ELSE IF \E i \in DOMAIN text.bytes : text.bytes[i] = NaN THEN "not_hex"
  ELSE IF text.odd THEN "odd_length"
  ELSE IF Len(text.bytes) # QuoteIdBytes THEN "wrong_length"
  ELSE "ok"

EncodeSettlementDatum(text, version) ==
  IF DecodeSettlementDatum(text, version) = "ok" THEN text ELSE Throws
=============================================================================
