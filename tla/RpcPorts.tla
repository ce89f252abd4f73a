------------------------------ MODULE RpcPorts ------------------------------
(***************************************************************************)
(* The reference adapters over JSON-RPC: IndexerChainSource, the ACCEPT    *)
(* bridge WalletdVerifier and KeystoreKeyCustody on the transport          *)
(* httpJsonRpc.  A port's method makes one request after the other; each   *)
(* attempt at a request is answered by the server, with a result or an     *)
(* error member, or fails below JSON-RPC.  Between two requests the node   *)
(* may mine, unmine or forget a transaction.                               *)
(***************************************************************************)
EXTENDS TxCodec

CONSTANTS
  TxIds,        \* transactions
  TxBody,       \* [TxIds -> body], what the node serializes
  Listings,     \* what the index may list for one quote: sequences of outpoints
  MaxAttempts,  \* RPC_MAX_ATTEMPTS
  Payer         \* the payer's key, when a quote names one

VARIABLES
  chain,    \* the node's view of each transaction
  op,       \* the method that is running, "returned", or "idle"
  arg,      \* its outpoint, or the quote's payer
  attempt,  \* attempts at the request in flight
  listed,   \* find_settlements_by_quote_id's answer
  out,      \* the candidates that the discovery has joined so far
  heard,    \* the servers' answers to the method, in order
  result    \* how the method ended

vars == <<chain, op, arg, attempt, listed, out, heard, result>>
-----------------------------------------------------------------------------
Outpoints == [tx : TxIds, index : 1..3]

ASSUME PortsAssumption ==
  /\ Listings \subseteq Seq(Outpoints) /\ <<>> \in Listings
  /\ MaxAttempts \in Nat \ {0}

Views == {"unknown", "mempool", "mined"}

\* Methods by what they take.
OnOutpoint == {"getOutputDatum", "getOutputScript", "getHtlc"}
OnTx == {"getTransaction", "getTxInputs"}
OnNothing == {"tipHeight", "findSettlements", "controlsPayee"}
Methods == OnOutpoint \cup OnTx \cup OnNothing \cup {"accept"}

Arguments(m) ==
  CASE m \in OnOutpoint -> Outpoints
    [] m \in OnTx       -> TxIds
    [] m = "accept"     -> {NULL, Payer}
    [] OTHER            -> {NULL}

\* Failures below JSON-RPC: a dropped socket, a status that is not 2xx, a body
\* that is no JSON ("Unexpected end of JSON input").
Faults == {"socket", "http_4xx", "http_5xx", "not_json"}

\* The error members the servers answer a method with.
Errors(m) ==
  CASE m = "getHtlc"       -> {"no_indexed_htlc", "internal"}
    [] m = "controlsPayee" -> {"wallet_not_found", "locked", "no_such_file", "method_not_found"}
    [] m = "accept"        -> {"bad_params", "UpstreamUnexpected", "internal"}
    [] OTHER               -> {"internal"}

\* The classifiers read the text of an error, so "expected" is found in
\* "UpstreamUnexpected" and in the parser's "Unexpected end" too, and "no such"
\* and "not found" in a keystore's "No such file or directory" and in the
\* "Method not found" of a server that is no keystore.
IsNoSuchHtlc(e) == e = "no_indexed_htlc"
IsStrictDecodeFault(e) == e \in {"bad_params", "UpstreamUnexpected", "not_json"}

\* Variant for the runs: a keystore that does not answer holds no key.
AnyKeyFault(e) == e # "locked"

IsNoSuchKey(e) == e \in {"wallet_not_found", "no_such_file", "method_not_found"}

NormaliseHtlcState(s) == IF s \in {"claimed", "reclaimed"} THEN s ELSE "locked"
HtlcStates == {"locked", "locked_expired", "claimed", "reclaimed", "unknown"}

\* What may stand in tx_hex: the transaction with witnesses behind it, or a
\* text that is cut off, has half a byte, no digit, or a flag that is neither.
WireTexts(t) ==
  LET body == EncodeTx(TxBody[t], 1)
  IN {Text(body \o <<1, 1>>),
      [odd |-> TRUE, bytes |-> body],
      Text([body EXCEPT ![Len(body)] = NaN]),
      Text(EncodeTx(TxBody[t], 2))}
     \cup {Text(SubSeq(body, 1, n)) : n \in 0..(Len(body) - 1)}

NoResult == [op |-> "idle", arg |-> NULL, status |-> "null", value |-> NULL]

Height(t) == IF chain[t] = "mined" THEN 1 ELSE NULL
-----------------------------------------------------------------------------
\* A request is answered, and the method goes on or ends with it.
Hear(body) == heard' = Append(heard, body) /\ UNCHANGED chain

End(status, value) ==
  /\ result' = [op |-> op, arg |-> arg, status |-> status, value |-> value]
  /\ op' = "returned"
  /\ arg' = NULL
  /\ attempt' = 1
  /\ listed' = <<>>
  /\ out' = <<>>

\* A rejected call, through the method's catch.
Caught(e) ==
  CASE op = "getHtlc" /\ IsNoSuchHtlc(e) -> End("null", NULL)
    [] op = "controlsPayee" ->
         IF IsNoSuchKey(e) THEN End("value", FALSE) ELSE End("keystore_fault", NULL)
    [] op = "accept" ->
         IF IsStrictDecodeFault(e) THEN End("malformed_quote", NULL)
         ELSE End("chain_fault", NULL)
    [] OTHER -> End("throws", NULL)
-----------------------------------------------------------------------------
Call(m) ==
  /\ op = "idle"
  /\ op' = m
  /\ arg' \in Arguments(m)
  /\ UNCHANGED <<chain, attempt, listed, out, heard, result>>

\* The caller goes on with the result; the adapters keep nothing of the call.
Return ==
  /\ op = "returned"
  /\ op' = "idle"
  /\ heard' = <<>>
  /\ result' = NoResult
  /\ UNCHANGED <<chain, arg, attempt, listed, out>>

\* Variants for the runs: a busy node is asked again from the first attempt on;
\* and one attempt too many.
AttemptsStartOver ==
  /\ op \in Methods
  /\ \/ /\ attempt < MaxAttempts
        /\ attempt' \in {1, attempt + 1}
        /\ UNCHANGED <<op, arg, listed, out, result>>
     \/ attempt = MaxAttempts /\ \E f \in Faults : Caught(f)
  /\ UNCHANGED <<chain, heard>>

AttemptsOnceMore ==
  /\ op \in Methods
  /\ \/ /\ attempt <= MaxAttempts
        /\ attempt' = attempt + 1
        /\ UNCHANGED <<op, arg, listed, out, result>>
     \/ attempt > MaxAttempts /\ \E f \in Faults : Caught(f)
  /\ UNCHANGED <<chain, heard>>

\* An attempt fails, whatever the fault: the back-off and the next attempt, or
\* the last error.
AttemptFails ==
  /\ op \in Methods
  /\ \/ /\ attempt < MaxAttempts
        /\ attempt' = attempt + 1
        /\ UNCHANGED <<op, arg, listed, out, result>>
     \/ attempt = MaxAttempts /\ \E f \in Faults : Caught(f)
  /\ UNCHANGED <<chain, heard>>

\* The answer has an error member: a JsonRpcError, at once.
ErrorAnswered ==
  /\ op \in Methods
  /\ \E e \in Errors(op) : Hear([error |-> e]) /\ Caught(e)

TipHeight ==
  /\ op = "tipHeight"
  /\ Hear([error |-> NULL]) /\ End("value", 1)

\* The indexer has a datum for the outpoint or none (NULL), of whatever length, and
\* flags it or not; nothing is decoded on this side.
GetOutputDatum ==
  /\ op = "getOutputDatum"
  /\ LET outputs == TxBody[arg.tx].outputs
     IN \E datum \in {outputs[i].datum : i \in DOMAIN outputs} \cup {NULL}, flag \in BOOLEAN :
          /\ Hear([error |-> NULL, quote_id |-> datum, unhonorable |-> flag])
          /\ End("value", [quoteIdHex |-> datum, honorable |-> ~flag /\ datum # NULL])

NotFound == [error |-> NULL, found |-> FALSE, height |-> NULL]

\* What get_transaction answers, and what its tx_hex decodes to.
NodeAnswers(t) ==
  IF chain[t] = "unknown" THEN {NotFound}
  ELSE {[error |-> NULL, found |-> TRUE, height |-> Height(t)]}

\* The null answer has no tx_hex.
WireReads == [t \in TxIds |-> {DecodeTx(text) : text \in WireTexts(t)}]
Decoded(t, r) == IF r.found THEN WireReads[t] ELSE {[ok |-> FALSE]}

GetTransaction ==
  /\ op = "getTransaction"
  /\ \E r \in NodeAnswers(arg) :
       /\ Hear(r)
       /\ IF r.found THEN End("value", [blockHeight |-> r.height]) ELSE End("null", NULL)

GetTxInputs ==
  /\ op = "getTxInputs"
  /\ \E r \in NodeAnswers(arg) : \E tx \in Decoded(arg, r) :
       /\ Hear(r)
       /\ CASE ~r.found -> End("value", <<>>)
            [] r.found /\ ~tx.ok -> End("throws", NULL)
            [] r.found /\ tx.ok -> End("value", tx.inputs)

GetOutputScript ==
  /\ op = "getOutputScript"
  /\ \E r \in NodeAnswers(arg.tx) : \E tx \in Decoded(arg.tx, r) :
       /\ Hear(r)
       /\ IF tx.ok /\ arg.index \in DOMAIN tx.outputs
          THEN End("value", tx.outputs[arg.index].script)
          ELSE End("throws", NULL)
-----------------------------------------------------------------------------
\* The discovery: the listing, and then one get_transaction for each entry.
DiscoveryGoesOn(entries, found) ==
  IF Len(found) = Len(entries) THEN End("value", found)
  ELSE /\ listed' = entries
       /\ out' = found
       /\ attempt' = 1
       /\ UNCHANGED <<op, arg, result>>

\* listed stays empty until the answer; an empty answer ends the method.
FindSettlements ==
  /\ op = "findSettlements" /\ listed = <<>>
  /\ \E entries \in Listings :
       Hear([error |-> NULL, listing |-> entries]) /\ DiscoveryGoesOn(entries, <<>>)

Candidate(o, tx, r) ==
  [outpoint |-> o, value |-> tx.outputs[o.index].value,
   script |-> tx.outputs[o.index].script, blockHeight |-> r.height]

\* Variant for the runs: a settlement the node does not know is passed over.
JoinOrSkip ==
  /\ op = "findSettlements" /\ listed # <<>>
  /\ LET o == listed[Len(out) + 1]
     IN \E r \in NodeAnswers(o.tx) : \E tx \in Decoded(o.tx, r) :
          /\ Hear(r)
          /\ IF tx.ok /\ o.index \in DOMAIN tx.outputs
             THEN DiscoveryGoesOn(listed, Append(out, Candidate(o, tx, r)))
             ELSE IF ~r.found THEN DiscoveryGoesOn(RemoveAt(listed, Len(out) + 1), out)
             ELSE End("throws", NULL)

JoinSettlement ==
  /\ op = "findSettlements" /\ listed # <<>>
  /\ LET o == listed[Len(out) + 1]
     IN \E r \in NodeAnswers(o.tx) : \E tx \in Decoded(o.tx, r) :
          /\ Hear(r)
          /\ IF tx.ok /\ o.index \in DOMAIN tx.outputs
             THEN DiscoveryGoesOn(listed, Append(out, Candidate(o, tx, r)))
             ELSE End("throws", NULL)
-----------------------------------------------------------------------------
GetHtlc ==
  /\ op = "getHtlc"
  /\ \/ Hear([error |-> NULL, state |-> NULL]) /\ End("null", NULL)
     \/ \E s \in HtlcStates :
          /\ Hear([error |-> NULL, state |-> s])
          /\ End("value", [lock |-> arg, state |-> NormaliseHtlcState(s)])

ControlsPayee ==
  /\ op = "controlsPayee"
  /\ \E signed \in BOOLEAN :
       Hear([error |-> NULL, signed |-> signed]) /\ End("value", signed)

ToAcceptedQuote(payer) == [payerPubkey |-> payer, form |-> "plain"]

\* The valid and invalid verdicts of quote_verify.
Accept ==
  /\ op = "accept"
  /\ \E valid \in BOOLEAN :
       /\ Hear([error |-> NULL, valid |-> valid])
       /\ IF valid THEN End("value", ToAcceptedQuote(arg)) ELSE End("refused", NULL)

\* The node meanwhile: a block, a reorganisation, an eviction.
NodeMoves ==
  /\ op # "returned"
  /\ \E t \in TxIds : \E v \in Views \ {chain[t]} : chain' = [chain EXCEPT ![t] = v]
  /\ UNCHANGED <<op, arg, attempt, listed, out, heard, result>>

Init ==
  /\ chain \in [TxIds -> Views]
  /\ op = "idle" /\ arg = NULL /\ attempt = 1
  /\ listed = <<>> /\ out = <<>> /\ heard = <<>>
  /\ result = NoResult

\* The attempt in flight settles, one way or the other.
Settles ==
  \/ AttemptFails \/ ErrorAnswered
  \/ TipHeight \/ GetOutputDatum \/ GetTransaction \/ GetTxInputs \/ GetOutputScript
  \/ FindSettlements \/ JoinSettlement
  \/ GetHtlc \/ ControlsPayee \/ Accept

Next == (\E m \in Methods : Call(m)) \/ Settles \/ Return \/ NodeMoves

\* fetch answers or rejects (its own timeouts bound it), and timers fire.
Spec == Init /\ [][Next]_vars /\ WF_vars(Settles)
-----------------------------------------------------------------------------
Statuses == {"value", "null", "refused", "throws", "chain_fault", "keystore_fault", "malformed_quote"}

\* The transport never makes a sixth attempt, a discovery never has more
\* candidates than settlements, and between calls a port holds nothing.
TypeOK ==
  /\ chain \in [TxIds -> Views]
  /\ op \in Methods \cup {"idle", "returned"}
  /\ op \in Methods => arg \in Arguments(op)
  /\ attempt \in 1..MaxAttempts
  /\ listed \in Listings /\ Len(out) <= Len(listed)
  /\ op \notin Methods => attempt = 1 /\ arg = NULL /\ listed = <<>>
  /\ result.status \in Statuses

Ended(m, status) == op = "returned" /\ result.op = m /\ result.status = status

\* A transaction or a lock that "is not there" was missed by the node or the index
\* itself; a keystore that cannot be reached never says "not mine"; and a quote is
\* refused by quote_verify only (indexer-chain.ts:211-272, keystore-custody.ts:81-102,
\* walletd-verifier.ts:106-139).  An error member that the keystore's classifier
\* misreads does become "not mine", and a misread fault malformed_quote.
AbsenceWasTold ==
  /\ Ended("getTransaction", "null") => heard = <<NotFound>>
  /\ Ended("getTxInputs", "value") /\ result.value = <<>> =>
       heard = <<NotFound>>
  /\ Ended("getHtlc", "null") =>
       heard \in {<<[error |-> "no_indexed_htlc"]>>, <<[error |-> NULL, state |-> NULL]>>}
  /\ Ended("controlsPayee", "value") /\ result.value = FALSE =>
       heard # <<>>
  /\ Ended("accept", "refused") => heard = <<[error |-> NULL, valid |-> FALSE]>>

\* A discovery that returns has one candidate for each settlement that the index
\* listed, in its order, with what the wire carried, whatever the node forgot or
\* mined between the requests (indexer-chain.ts:178-209).
DiscoveryIsWhole ==
  Ended("findSettlements", "value") =>
    LET listing == heard[1].listing
    IN result.value = [i \in DOMAIN listing |->
         Candidate(listing[i], TxBody[listing[i].tx], heard[i + 1])]

\* Scripts and prevouts that are read out of tx_hex are the transaction's own:
\* a text that is cut, odd or not canonical throws and is never read past
\* (indexer-chain.ts:220-244, 391-437).
ReadsAreExact ==
  /\ Ended("getOutputScript", "value") =>
       result.value = TxBody[result.arg.tx].outputs[result.arg.index].script
  /\ Ended("getTxInputs", "value") =>
       result.value \in {<<>>, TxBody[result.arg].inputs}

\* What the proofs of AbsenceWasTold and DiscoveryIsWhole rest on: a text that decodes
\* gives the transaction's own fields, and a transaction spends something.
WireIsExact ==
  \A t \in TxIds : \A tx \in WireReads[t] : tx.ok =>
    /\ tx.inputs = TxBody[t].inputs
    /\ DOMAIN tx.outputs \subseteq DOMAIN TxBody[t].outputs
    /\ \A i \in DOMAIN tx.outputs :
         /\ tx.outputs[i].value = TxBody[t].outputs[i].value
         /\ tx.outputs[i].script = TxBody[t].outputs[i].script

TxsSpend == \A t \in TxIds : TxBody[t].inputs # <<>>

\* Every call of a port ends, also while its server stays down
\* (http-rpc.ts:65-102).
CallsEnd == op \in Methods ~> op = "returned"
=============================================================================
