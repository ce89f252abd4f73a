--------------------------- MODULE RpcPortsProofs ---------------------------
(***************************************************************************)
(* RpcPorts for any transactions, listings and number of attempts.  What   *)
(* the decoder makes of a text is recursion over data, out of reach here:  *)
(* the theorems that need it say so (WireIsExact), and TLC checks what     *)
(* follows from it at every text of the instance.                          *)
(***************************************************************************)
EXTENDS RpcPorts, TLAPS

\* Methods that end with the answer to their only request.
OneRequest == Methods \ {"findSettlements"}

\* What a discovery hears and goes on: a listing, then transactions.
Lookups == [error : {NULL}, found : {TRUE}, height : {1, NULL}]
Answers == [error : {NULL}, listing : Listings] \cup Lookups

\* What the decoder makes of entry o's transaction, once it has the output.
ReadsOf(o) == {tx \in WireReads[o.tx] : tx.ok /\ o.index \in DOMAIN tx.outputs}

AllReads == UNION {WireReads[t] : t \in TxIds}
Joins == {Candidate(j[1], j[2], j[3]) : j \in Outpoints \X AllReads \X Lookups}

\* A discovery that heard said and has joined found, of the entries listed: one
\* lookup and one candidate for each, in order, as the decoder read it.
Joined(entries, found, said) ==
  /\ found \in Seq(Joins) /\ said \in Seq(Answers)
  /\ Len(said) = Len(found) + 1
  /\ said[1] = [error |-> NULL, listing |-> entries]
  /\ \A i \in 1..Len(found) :
       \E tx \in ReadsOf(entries[i]) : found[i] = Candidate(entries[i], tx, said[i + 1])

\* What a port holds of a call: nothing between calls, nothing but its argument in
\* a call of one request, and in a discovery what it has heard and joined so far.
HoldsInv ==
  /\ op \in OneRequest \cup {"idle"} => heard = <<>>
  /\ op # "findSettlements" => listed = <<>> /\ out = <<>>
  /\ op = "findSettlements" /\ listed = <<>> => heard = <<>> /\ out = <<>>
  /\ op = "findSettlements" /\ listed # <<>> =>
       Joined(listed, out, heard) /\ Len(out) < Len(listed)

\* An answer ends the method, or the discovery goes on to its next lookup.
GoesOn ==
  /\ op = "findSettlements" /\ UNCHANGED <<chain, op, arg, result>>
  /\ attempt' = 1
  /\ listed' \in Listings /\ listed' # <<>>
  /\ Joined(listed', out', heard') /\ Len(out') < Len(listed')

LEMMA MethodNames ==
  /\ "returned" \notin Methods /\ "idle" \notin Methods /\ "findSettlements" \in Methods
  /\ OneRequest = {"getOutputDatum", "getOutputScript", "getHtlc", "getTransaction",
                   "getTxInputs", "tipHeight", "controlsPayee", "accept"}
  BY DEF Methods, OneRequest, OnOutpoint, OnTx, OnNothing

\* How a rejected call ends: never with an absence, except those two that an
\* error member of the server was read as, and never with another value.
LEMMA CaughtEnds ==
  ASSUME NEW e, Caught(e)
  PROVE  \E status, value :
           /\ status \in Statuses /\ End(status, value)
           /\ status = "null" => op = "getHtlc" /\ e = "no_indexed_htlc"
           /\ status = "value" =>
                op = "controlsPayee" /\ IsNoSuchKey(e) /\ value = FALSE
           /\ status # "refused"
<1>1. CASE op = "getHtlc" /\ IsNoSuchHtlc(e)
  <2>1. End("null", NULL) /\ e = "no_indexed_htlc" /\ "null" \in Statuses
    BY <1>1 DEF Caught, IsNoSuchHtlc, Statuses
  <2> QED
    BY <1>1, <2>1
<1>2. CASE op = "controlsPayee"
  <2>1. CASE IsNoSuchKey(e)
    <3>1. End("value", FALSE) /\ "value" \in Statuses
      BY <1>2, <2>1 DEF Caught, Statuses
    <3> QED
      BY <1>2, <2>1, <3>1
  <2>2. CASE ~IsNoSuchKey(e)
    <3>1. End("keystore_fault", NULL) /\ "keystore_fault" \in Statuses
      BY <1>2, <2>2 DEF Caught, Statuses
    <3> QED
      BY <3>1
  <2> QED
    BY <2>1, <2>2
<1>3. CASE op = "accept"
  <2>1. /\ End("malformed_quote", NULL) \/ End("chain_fault", NULL)
        /\ {"malformed_quote", "chain_fault"} \subseteq Statuses
    BY <1>3 DEF Caught, Statuses
  <2> QED
    BY <2>1
<1>4. CASE op \notin {"controlsPayee", "accept"} /\ ~(op = "getHtlc" /\ IsNoSuchHtlc(e))
  <2>1. End("throws", NULL) /\ "throws" \in Statuses
    BY <1>4 DEF Caught, Statuses
  <2> QED
    BY <2>1
<1> QED
  BY <1>1, <1>2, <1>3, <1>4

\* What the node answers about a transaction, and what is decoded of it.
LEMMA AnswerTypes ==
  ASSUME NEW t \in TxIds, NEW r \in NodeAnswers(t), NEW tx \in Decoded(t, r)
  PROVE  /\ r.found => r \in Lookups /\ tx \in WireReads[t]
         /\ ~r.found => r = NotFound /\ ~tx.ok
<1>1. CASE r = NotFound
  BY <1>1 DEF NotFound, Decoded
<1>2. CASE r = [error |-> NULL, found |-> TRUE, height |-> Height(t)]
  BY <1>2 DEF Lookups, Height, Decoded
<1> QED
  BY <1>1, <1>2 DEF NodeAnswers

\* One more lookup, one more candidate.
LEMMA JoinedGrows ==
  ASSUME NEW entries \in Seq(Outpoints), NEW found, NEW said,
         Joined(entries, found, said), Len(found) < Len(entries),
         NEW tx \in ReadsOf(entries[Len(found) + 1]), NEW r \in Lookups
  PROVE  LET c == Candidate(entries[Len(found) + 1], tx, r)
         IN /\ Joined(entries, Append(found, c), Append(said, r))
            /\ Len(Append(found, c)) = Len(found) + 1 /\ Len(found) \in Nat
<1> DEFINE n == Len(found)
           o == entries[n + 1]
           c == Candidate(o, tx, r)
<1>1. /\ found \in Seq(Joins) /\ said \in Seq(Answers) /\ Len(said) = n + 1 /\ n \in Nat
      /\ said[1] = [error |-> NULL, listing |-> entries]
  BY DEF Joined
<1>2. n + 1 \in 1..Len(entries)
  <2>1. Len(entries) \in Nat
    OBVIOUS
  <2> QED
    BY <1>1, <2>1
<1>3. c \in Joins /\ r \in Answers
  <2>1. o \in Outpoints /\ o.tx \in TxIds
    <3>1. entries[n + 1] \in Outpoints
      BY <1>2
    <3> QED
      BY <3>1 DEF Outpoints
  <2>2. tx \in AllReads
    BY <2>1 DEF ReadsOf, AllReads
  <2> HIDE DEF o
  <2>3. Candidate(o, tx, r) \in Joins
    <3>1. <<o, tx, r>> \in Outpoints \X AllReads \X Lookups
      BY <2>1, <2>2
    <3> QED
      BY <3>1 DEF Joins
  <2> QED
    BY <2>3 DEF Answers
<1> HIDE DEF c, o
<1>4. /\ Append(found, c) \in Seq(Joins) /\ Len(Append(found, c)) = n + 1
      /\ \A i \in 1..n : Append(found, c)[i] = found[i]
      /\ Append(found, c)[n + 1] = c
  BY <1>1, <1>3
<1>5. /\ Append(said, r) \in Seq(Answers) /\ Len(Append(said, r)) = n + 2
      /\ \A i \in 1..(n + 1) : Append(said, r)[i] = said[i]
      /\ Append(said, r)[n + 2] = r
  BY <1>1, <1>3
<1>6. ASSUME NEW i \in 1..(n + 1)
      PROVE  \E x \in ReadsOf(entries[i]) :
               Append(found, c)[i] = Candidate(entries[i], x, Append(said, r)[i + 1])
  <2>1. CASE i = n + 1
    <3>1. c = Candidate(entries[i], tx, r) /\ tx \in ReadsOf(entries[i])
      BY <2>1 DEF c, o
    <3>2. Append(said, r)[i + 1] = r /\ Append(found, c)[i] = c
      BY <1>1, <1>4, <1>5, <2>1
    <3> QED
      BY <3>1, <3>2
  <2>2. CASE i \in 1..n
    <3>1. PICK x \in ReadsOf(entries[i]) : found[i] = Candidate(entries[i], x, said[i + 1])
      BY <2>2 DEF Joined
    <3>2. Append(said, r)[i + 1] = said[i + 1] /\ Append(found, c)[i] = found[i]
      BY <1>1, <1>4, <1>5, <2>2
    <3> QED
      BY <3>1, <3>2
  <2> QED
    BY <1>1, <2>1, <2>2
<1>7. Append(said, r)[1] = said[1]
  BY <1>1, <1>5
<1> QED
  BY <1>1, <1>4, <1>5, <1>6, <1>7 DEF Joined, c, o
-----------------------------------------------------------------------------
\* What a method that returned says, by what it heard and by what the decoder
\* made of the texts.
ReportInv ==
  /\ Ended("getTransaction", "null") => heard = <<NotFound>>
  /\ Ended("getTxInputs", "value") =>
       \/ heard = <<NotFound>> /\ result.value = <<>>
       \/ /\ result.arg \in TxIds
          /\ \E tx \in WireReads[result.arg] : tx.ok /\ result.value = tx.inputs
  /\ Ended("getHtlc", "null") =>
       heard \in {<<[error |-> "no_indexed_htlc"]>>, <<[error |-> NULL, state |-> NULL]>>}
  /\ Ended("controlsPayee", "value") /\ result.value = FALSE =>
       heard # <<>>
  /\ Ended("accept", "refused") => heard = <<[error |-> NULL, valid |-> FALSE]>>
  /\ Ended("findSettlements", "value") =>
       \E entries \in Listings :
         Joined(entries, result.value, heard) /\ Len(result.value) = Len(entries)

PortsInv == TypeOK /\ HoldsInv /\ ReportInv

\* A method that ends leaves nothing behind but its result.
LEMMA EndKeeps ==
  ASSUME TypeOK, op \in Methods, chain' = chain,
         NEW status \in Statuses, NEW value, End(status, value)
  PROVE  TypeOK' /\ HoldsInv'
<1>1. /\ op' = "returned" /\ arg' = NULL /\ attempt' = 1 /\ listed' = <<>> /\ out' = <<>>
      /\ result'.status = status
  BY DEF End
<1>2. "returned" \notin Methods /\ "returned" \notin OneRequest \cup {"idle", "findSettlements"}
  BY MethodNames
<1>3. TypeOK'
  BY <1>1, <1>2, PortsAssumption DEF TypeOK
<1>4. HoldsInv'
  BY <1>1, <1>2 DEF HoldsInv
<1> QED
  BY <1>3, <1>4

\* In a method of one request the answer is all that it hears.
LEMMA HearsOnce ==
  ASSUME HoldsInv, op \in OneRequest, NEW body, Hear(body)
  PROVE  heard' = <<body>> /\ chain' = chain
  BY DEF HoldsInv, Hear

\* The argument is one of the method's.
LEMMA ArgumentTypes ==
  ASSUME TypeOK
  PROVE  /\ op \in {"getOutputDatum", "getOutputScript", "getHtlc"} =>
              arg \in Outpoints /\ arg.tx \in TxIds
         /\ op \in {"getTransaction", "getTxInputs"} => arg \in TxIds
<1>1. op \in {"getOutputDatum", "getOutputScript", "getHtlc"} => arg \in Outpoints
  <2>1. ASSUME op \in {"getOutputDatum", "getOutputScript", "getHtlc"}
        PROVE  op \in Methods /\ Arguments(op) = Outpoints
    BY <2>1 DEF Arguments, OnOutpoint, OnTx, Methods
  <2> QED
    BY <2>1 DEF TypeOK
<1>2. op \in {"getTransaction", "getTxInputs"} => arg \in TxIds
  <2>1. ASSUME op \in {"getTransaction", "getTxInputs"}
        PROVE  op \in Methods /\ Arguments(op) = TxIds
    BY <2>1 DEF Arguments, OnOutpoint, OnTx, Methods
  <2> QED
    BY <2>1 DEF TypeOK
<1> QED
  BY <1>1, <1>2 DEF Outpoints

\* A call that is rejected, with an error member or with its last fault.
LEMMA Rejected ==
  ASSUME PortsInv, op \in Methods, NEW e, Caught(e), chain' = chain,
         \/ heard' = Append(heard, [error |-> e])
         \/ heard' = heard /\ e \in Faults
  PROVE  PortsInv'
<1>1. PICK status, value :
           /\ status \in Statuses /\ End(status, value)
           /\ status = "null" => op = "getHtlc" /\ e = "no_indexed_htlc"
           /\ status = "value" =>
                op = "controlsPayee" /\ IsNoSuchKey(e) /\ value = FALSE
           /\ status # "refused"
  BY CaughtEnds
<1>2. TypeOK' /\ HoldsInv'
  BY <1>1, EndKeeps DEF PortsInv
<1>3. /\ op' = "returned"
      /\ result' = [op |-> op, arg |-> arg, status |-> status, value |-> value]
  BY <1>1 DEF End
<1>4. ASSUME status \in {"null", "value"}
      PROVE  heard' = <<[error |-> e]>>
  <2>1. op \in OneRequest /\ e \notin Faults
    BY <1>1, <1>4, MethodNames DEF Faults, IsNoSuchKey
  <2>2. heard = <<>>
    BY <2>1 DEF PortsInv, HoldsInv
  <2> QED
    BY <2>1, <2>2
<1>5. ReportInv'
  BY <1>1, <1>3, <1>4 DEF ReportInv, Ended
<1> QED
  BY <1>2, <1>5 DEF PortsInv
\* An answer to a method's only request.
LEMMA Answered ==
  ASSUME PortsInv, op \in OneRequest, NEW body, NEW status \in Statuses, NEW value,
         Hear(body), End(status, value)
  PROVE  /\ TypeOK' /\ HoldsInv'
         /\ heard' = <<body>> /\ op' = "returned"
         /\ result' = [op |-> op, arg |-> arg, status |-> status, value |-> value]
  BY EndKeeps, HearsOnce DEF PortsInv, OneRequest, End

LEMMA TransactionReports ==
  ASSUME PortsInv, GetTransaction
  PROVE  PortsInv'
<1>1. op = "getTransaction" /\ op \in OneRequest /\ arg \in TxIds
  BY ArgumentTypes, MethodNames DEF GetTransaction, PortsInv
<1>2. PICK r \in NodeAnswers(arg) :
        /\ Hear(r)
        /\ IF r.found THEN End("value", [blockHeight |-> r.height]) ELSE End("null", NULL)
  BY DEF GetTransaction
<1>3. CASE r.found
  <2>1. End("value", [blockHeight |-> r.height]) /\ "value" \in Statuses
    BY <1>2, <1>3 DEF Statuses
  <2>2. /\ TypeOK' /\ HoldsInv'
        /\ result' = [op |-> op, arg |-> arg, status |-> "value",
                      value |-> [blockHeight |-> r.height]]
    BY <1>1, <1>2, <2>1, Answered
  <2> QED
    BY <1>1, <2>2 DEF PortsInv, ReportInv, Ended
<1>4. CASE ~r.found
  <2>1. End("null", NULL) /\ "null" \in Statuses
    BY <1>2, <1>4 DEF Statuses
  <2>2. r = NotFound
    BY <1>2, <1>4 DEF NodeAnswers
  <2>3. /\ TypeOK' /\ HoldsInv' /\ heard' = <<NotFound>>
        /\ result' = [op |-> op, arg |-> arg, status |-> "null", value |-> NULL]
    BY <1>1, <1>2, <2>1, <2>2, Answered
  <2> QED
    BY <1>1, <2>3 DEF PortsInv, ReportInv, Ended
<1> QED
  BY <1>3, <1>4

LEMMA InputsReport ==
  ASSUME PortsInv, GetTxInputs
  PROVE  PortsInv'
<1>1. op = "getTxInputs" /\ op \in OneRequest /\ arg \in TxIds
  BY ArgumentTypes, MethodNames DEF GetTxInputs, PortsInv
<1>2. PICK r, tx :
        /\ r \in NodeAnswers(arg) /\ tx \in Decoded(arg, r)
        /\ Hear(r)
        /\ CASE ~r.found -> End("value", <<>>)
             [] r.found /\ ~tx.ok -> End("throws", NULL)
             [] r.found /\ tx.ok -> End("value", tx.inputs)
  BY DEF GetTxInputs
<1>3. {"value", "throws"} \subseteq Statuses
  BY DEF Statuses
<1>4. (r.found => tx \in WireReads[arg]) /\ (~r.found => r = NotFound)
  BY <1>1, <1>2, AnswerTypes
<1>5. CASE ~r.found
  <2>1. End("value", <<>>)
    BY <1>2, <1>5
  <2>2. /\ TypeOK' /\ HoldsInv' /\ heard' = <<NotFound>>
        /\ result' = [op |-> op, arg |-> arg, status |-> "value", value |-> <<>>]
    BY <1>1, <1>2, <1>3, <1>4, <1>5, <2>1, Answered
  <2> QED
    BY <1>1, <2>2 DEF PortsInv, ReportInv, Ended
<1>6. CASE r.found /\ ~tx.ok
  <2>1. End("throws", NULL)
    BY <1>2, <1>6
  <2>2. /\ TypeOK' /\ HoldsInv'
        /\ result' = [op |-> op, arg |-> arg, status |-> "throws", value |-> NULL]
    BY <1>1, <1>2, <1>3, <2>1, Answered
  <2> QED
    BY <1>1, <2>2 DEF PortsInv, ReportInv, Ended
<1>7. CASE r.found /\ tx.ok
  <2>1. End("value", tx.inputs)
    BY <1>2, <1>7
  <2>2. /\ TypeOK' /\ HoldsInv'
        /\ result' = [op |-> op, arg |-> arg, status |-> "value", value |-> tx.inputs]
    BY <1>1, <1>2, <1>3, <2>1, Answered
  <2>3. /\ result'.arg = arg /\ result'.value = tx.inputs /\ result'.op = "getTxInputs"
        /\ result'.status = "value"
    BY <1>1, <2>2
  <2> QED
    BY <1>1, <1>4, <1>7, <2>2, <2>3 DEF PortsInv, ReportInv, Ended
<1> QED
  BY <1>5, <1>6, <1>7

LEMMA ScriptReports ==
  ASSUME PortsInv, GetOutputScript
  PROVE  PortsInv'
<1>1. op = "getOutputScript" /\ op \in OneRequest /\ {"value", "throws"} \subseteq Statuses
  BY MethodNames DEF GetOutputScript, Statuses
<1>2. PICK body, status, value :
        Hear(body) /\ End(status, value) /\ status \in {"value", "throws"}
  BY DEF GetOutputScript
<1>3. /\ TypeOK' /\ HoldsInv'
      /\ result' = [op |-> op, arg |-> arg, status |-> status, value |-> value]
  BY <1>1, <1>2, Answered
<1> QED
  BY <1>1, <1>3 DEF PortsInv, ReportInv, Ended

LEMMA DatumReports ==
  ASSUME PortsInv, GetOutputDatum
  PROVE  PortsInv'
<1>1. op = "getOutputDatum" /\ op \in OneRequest /\ "value" \in Statuses
  BY MethodNames DEF GetOutputDatum, Statuses
<1>2. PICK body, value : Hear(body) /\ End("value", value)
  BY DEF GetOutputDatum
<1>3. /\ TypeOK' /\ HoldsInv'
      /\ result' = [op |-> op, arg |-> arg, status |-> "value", value |-> value]
  BY <1>1, <1>2, Answered
<1> QED
  BY <1>1, <1>3 DEF PortsInv, ReportInv, Ended

LEMMA TipReports ==
  ASSUME PortsInv, TipHeight
  PROVE  PortsInv'
<1>1. /\ op = "tipHeight" /\ op \in OneRequest /\ "value" \in Statuses
      /\ Hear([error |-> NULL]) /\ End("value", 1)
  BY MethodNames DEF TipHeight, Statuses
<1>2. /\ TypeOK' /\ HoldsInv'
      /\ result' = [op |-> op, arg |-> arg, status |-> "value", value |-> 1]
  BY <1>1, Answered
<1> QED
  BY <1>1, <1>2 DEF PortsInv, ReportInv, Ended

LEMMA HtlcReports ==
  ASSUME PortsInv, GetHtlc
  PROVE  PortsInv'
<1>1. op = "getHtlc" /\ op \in OneRequest /\ {"null", "value"} \subseteq Statuses
  BY MethodNames DEF GetHtlc, Statuses
<1>2. CASE Hear([error |-> NULL, state |-> NULL]) /\ End("null", NULL)
  <2>1. /\ TypeOK' /\ HoldsInv' /\ heard' = <<[error |-> NULL, state |-> NULL]>>
        /\ result' = [op |-> op, arg |-> arg, status |-> "null", value |-> NULL]
    BY <1>1, <1>2, Answered
  <2> QED
    BY <1>1, <2>1 DEF PortsInv, ReportInv, Ended
<1>3. ASSUME NEW s \in HtlcStates, Hear([error |-> NULL, state |-> s]),
             End("value", [lock |-> arg, state |-> NormaliseHtlcState(s)])
      PROVE  PortsInv'
  <2>1. /\ TypeOK' /\ HoldsInv'
        /\ result' = [op |-> op, arg |-> arg, status |-> "value",
                      value |-> [lock |-> arg, state |-> NormaliseHtlcState(s)]]
    BY <1>1, <1>3, Answered
  <2> QED
    BY <1>1, <2>1 DEF PortsInv, ReportInv, Ended
<1> QED
  BY <1>2, <1>3 DEF GetHtlc

LEMMA KeyReports ==
  ASSUME PortsInv, ControlsPayee
  PROVE  PortsInv'
<1>1. op = "controlsPayee" /\ op \in OneRequest /\ "value" \in Statuses
  BY MethodNames DEF ControlsPayee, Statuses
<1>2. PICK signed \in BOOLEAN :
        Hear([error |-> NULL, signed |-> signed]) /\ End("value", signed)
  BY DEF ControlsPayee
<1>3. /\ TypeOK' /\ HoldsInv' /\ heard' = <<[error |-> NULL, signed |-> signed]>>
      /\ result' = [op |-> op, arg |-> arg, status |-> "value", value |-> signed]
  BY <1>1, <1>2, Answered
<1>4. heard' # <<>>
  BY <1>3
<1>5. result'.op = "controlsPayee"
  BY <1>1, <1>3
<1> QED
  BY <1>3, <1>4, <1>5 DEF PortsInv, ReportInv, Ended

LEMMA AcceptReports ==
  ASSUME PortsInv, Accept
  PROVE  PortsInv'
<1>1. op = "accept" /\ op \in OneRequest /\ {"value", "refused"} \subseteq Statuses
  BY MethodNames DEF Accept, Statuses
<1>2. PICK valid \in BOOLEAN :
        /\ Hear([error |-> NULL, valid |-> valid])
        /\ IF valid THEN End("value", ToAcceptedQuote(arg)) ELSE End("refused", NULL)
  BY DEF Accept
<1>3. CASE valid
  <2>1. End("value", ToAcceptedQuote(arg))
    BY <1>2, <1>3
  <2>2. /\ TypeOK' /\ HoldsInv'
        /\ result' = [op |-> op, arg |-> arg, status |-> "value",
                      value |-> ToAcceptedQuote(arg)]
    BY <1>1, <1>2, <2>1, Answered
  <2> QED
    BY <1>1, <2>2 DEF PortsInv, ReportInv, Ended
<1>4. CASE ~valid
  <2>1. End("refused", NULL) /\ valid = FALSE
    BY <1>2, <1>4
  <2>2. /\ TypeOK' /\ HoldsInv' /\ heard' = <<[error |-> NULL, valid |-> FALSE]>>
        /\ result' = [op |-> op, arg |-> arg, status |-> "refused", value |-> NULL]
    BY <1>1, <1>2, <2>1, Answered
  <2> QED
    BY <1>1, <2>2 DEF PortsInv, ReportInv, Ended
<1> QED
  BY <1>3, <1>4
-----------------------------------------------------------------------------
\* A discovery that has heard of one more settlement, or of the listing: it goes on
\* while one is left, and returns with all of them.
LEMMA DiscoveryKeeps ==
  ASSUME PortsInv, op = "findSettlements", chain' = chain,
         NEW entries \in Listings, NEW found,
         Joined(entries, found, heard'), Len(found) <= Len(entries),
         DiscoveryGoesOn(entries, found)
  PROVE  PortsInv'
<1>1. /\ found \in Seq(Joins) /\ Len(found) \in Nat
      /\ entries \in Seq(Outpoints) /\ Len(entries) \in Nat
  BY PortsAssumption DEF Joined
<1>2. CASE Len(found) = Len(entries)
  <2>1. End("value", found) /\ "value" \in Statuses
    BY <1>2 DEF DiscoveryGoesOn, Statuses
  <2>2. TypeOK' /\ HoldsInv'
    BY <2>1, EndKeeps, MethodNames DEF PortsInv
  <2>3. result'.op = "findSettlements" /\ result'.value = found
    BY <2>1 DEF End
  <2>4. Joined(entries, result'.value, heard') /\ Len(result'.value) = Len(entries)
    BY <1>2, <2>3
  <2>5. \E e \in Listings : Joined(e, result'.value, heard') /\ Len(result'.value) = Len(e)
    BY <2>4
  <2>6. ReportInv'
    BY <2>3, <2>5 DEF ReportInv, Ended, Joined
  <2> QED
    BY <2>2, <2>6 DEF PortsInv
<1>3. CASE Len(found) # Len(entries)
  <2>1. /\ listed' = entries /\ out' = found /\ attempt' = 1
        /\ op' = op /\ arg' = arg /\ result' = result
    BY <1>3 DEF DiscoveryGoesOn
  <2>2. entries # <<>> /\ Len(found) < Len(entries)
    BY <1>1, <1>3
  <2>3. TypeOK'
    BY <2>1, <2>2, PortsAssumption, MethodNames DEF PortsInv, TypeOK
  <2>4. Joined(listed', out', heard')
    BY <2>1
  <2>5. HoldsInv'
    BY <2>1, <2>2, <2>4, MethodNames DEF HoldsInv, OneRequest, Joined
  <2>6. ReportInv'
    BY <2>1, MethodNames DEF ReportInv, Ended
  <2> QED
    BY <2>3, <2>5, <2>6 DEF PortsInv
<1> QED
  BY <1>2, <1>3

LEMMA ListingKeeps ==
  ASSUME PortsInv, FindSettlements
  PROVE  PortsInv'
<1>1. /\ op = "findSettlements" /\ listed = <<>> /\ heard = <<>> /\ out = <<>>
  BY DEF FindSettlements, PortsInv, HoldsInv
<1>2. PICK entries \in Listings :
        /\ Hear([error |-> NULL, listing |-> entries])
        /\ DiscoveryGoesOn(entries, <<>>)
  BY DEF FindSettlements
<1> DEFINE a == [error |-> NULL, listing |-> entries]
<1>3. heard' = <<a>> /\ chain' = chain /\ a \in Answers
  BY <1>1, <1>2 DEF Hear, Answers
<1>4. Joined(entries, <<>>, <<a>>)
  <2>1. <<a>> \in Seq(Answers) /\ Len(<<a>>) = 1 /\ <<a>>[1] = a
    BY <1>3
  <2>2. <<>> \in Seq(Joins) /\ Len(<<>>) = 0
    OBVIOUS
  <2> QED
    BY <2>1, <2>2 DEF Joined
<1>5. entries \in Seq(Outpoints) /\ Len(entries) \in Nat
  BY PortsAssumption
<1>6. Joined(entries, <<>>, heard')
  BY <1>3, <1>4
<1> QED
  BY <1>1, <1>2, <1>3, <1>5, <1>6, DiscoveryKeeps

LEMMA JoinKeeps ==
  ASSUME PortsInv, JoinSettlement
  PROVE  PortsInv'
<1> DEFINE o == listed[Len(out) + 1]
<1>1. /\ op = "findSettlements" /\ listed # <<>> /\ listed \in Listings
      /\ Joined(listed, out, heard) /\ Len(out) < Len(listed)
  BY DEF JoinSettlement, PortsInv, HoldsInv, TypeOK
<1>2. listed \in Seq(Outpoints) /\ Len(listed) \in Nat /\ Len(out) \in Nat
  BY <1>1, PortsAssumption DEF Joined
<1>3. o \in Outpoints /\ o.tx \in TxIds
  <2>1. o \in Outpoints
    BY <1>1, <1>2
  <2> QED
    BY <2>1 DEF Outpoints
<1>4. PICK r, tx :
        /\ r \in NodeAnswers(o.tx) /\ tx \in Decoded(o.tx, r)
        /\ Hear(r)
        /\ IF tx.ok /\ o.index \in DOMAIN tx.outputs
           THEN DiscoveryGoesOn(listed, Append(out, Candidate(o, tx, r)))
           ELSE End("throws", NULL)
  BY DEF JoinSettlement
<1>5. CASE tx.ok /\ o.index \in DOMAIN tx.outputs
  <2>1. tx \in ReadsOf(o) /\ r \in Lookups
    BY <1>3, <1>4, <1>5, AnswerTypes DEF ReadsOf
  <2>2. /\ Joined(listed, Append(out, Candidate(o, tx, r)), Append(heard, r))
        /\ Len(Append(out, Candidate(o, tx, r))) = Len(out) + 1
    BY <1>1, <1>2, <2>1, JoinedGrows
  <2>3. heard' = Append(heard, r) /\ chain' = chain
    BY <1>4 DEF Hear
  <2>4. DiscoveryGoesOn(listed, Append(out, Candidate(o, tx, r)))
    BY <1>4, <1>5
  <2>5. Joined(listed, Append(out, Candidate(o, tx, r)), heard')
    BY <2>2, <2>3
  <2>6. Len(Append(out, Candidate(o, tx, r))) <= Len(listed)
    BY <1>1, <1>2, <2>2
  <2> HIDE DEF o
  <2> QED
    BY <1>1, <2>3, <2>4, <2>5, <2>6, DiscoveryKeeps
<1>6. CASE ~(tx.ok /\ o.index \in DOMAIN tx.outputs)
  <2>1. End("throws", NULL) /\ "throws" \in Statuses /\ chain' = chain
    BY <1>4, <1>6 DEF Statuses, Hear
  <2>2. TypeOK' /\ HoldsInv'
    BY <1>1, <2>1, EndKeeps, MethodNames DEF PortsInv
  <2>3. result' = [op |-> op, arg |-> arg, status |-> "throws", value |-> NULL]
    BY <2>1 DEF End
  <2> QED
    BY <1>1, <2>2, <2>3 DEF PortsInv, ReportInv, Ended
<1> QED
  BY <1>5, <1>6
\* The transport tries again, or gives its last fault to the method.
LEMMA FailureKeeps ==
  ASSUME PortsInv, AttemptFails
  PROVE  PortsInv'
<1>1. op \in Methods /\ UNCHANGED <<chain, heard>>
  BY DEF AttemptFails
<1>2. CASE attempt < MaxAttempts /\ attempt' = attempt + 1 /\ UNCHANGED <<op, arg, listed, out, result>>
  <2>1. TypeOK'
    BY <1>1, <1>2, PortsAssumption DEF PortsInv, TypeOK
  <2>2. HoldsInv'
    BY <1>1, <1>2 DEF PortsInv, HoldsInv
  <2>3. ReportInv'
    BY <1>1, <1>2, MethodNames DEF ReportInv, Ended
  <2> QED
    BY <2>1, <2>2, <2>3 DEF PortsInv
<1>3. ASSUME NEW f \in Faults, Caught(f)
      PROVE  PortsInv'
  BY <1>1, <1>3, Rejected
<1> QED
  BY <1>2, <1>3 DEF AttemptFails

LEMMA ErrorKeeps ==
  ASSUME PortsInv, ErrorAnswered
  PROVE  PortsInv'
<1>1. PICK e \in Errors(op) : Hear([error |-> e]) /\ Caught(e)
  BY DEF ErrorAnswered
<1> QED
  BY <1>1, Rejected DEF ErrorAnswered, Hear

LEMMA CallKeeps ==
  ASSUME PortsInv, NEW m \in Methods, Call(m)
  PROVE  PortsInv'
<1>1. /\ op = "idle" /\ op' = m /\ arg' \in Arguments(m)
      /\ UNCHANGED <<chain, attempt, listed, out, heard, result>>
  BY DEF Call
<1>2. TypeOK'
  BY <1>1, MethodNames DEF PortsInv, TypeOK
<1>3. HoldsInv'
  BY <1>1, MethodNames DEF PortsInv, HoldsInv, OneRequest
<1>4. ReportInv'
  BY <1>1, MethodNames DEF ReportInv, Ended
<1> QED
  BY <1>2, <1>3, <1>4 DEF PortsInv

LEMMA ReturnKeeps ==
  ASSUME PortsInv, Return
  PROVE  PortsInv'
<1>1. /\ op = "returned" /\ op' = "idle" /\ heard' = <<>> /\ result'.status = "null"
      /\ UNCHANGED <<chain, arg, attempt, listed, out>>
  BY DEF Return, NoResult
<1>2. TypeOK'
  BY <1>1, MethodNames DEF PortsInv, TypeOK, Statuses
<1>3. HoldsInv'
  BY <1>1, MethodNames DEF PortsInv, HoldsInv, OneRequest
<1>4. ReportInv'
  BY <1>1 DEF ReportInv, Ended
<1> QED
  BY <1>2, <1>3, <1>4 DEF PortsInv

LEMMA MovesKeep ==
  ASSUME PortsInv, NodeMoves
  PROVE  PortsInv'
<1>1. /\ UNCHANGED <<op, arg, attempt, listed, out, heard, result>>
      /\ \E t \in TxIds : \E v \in Views : chain' = [chain EXCEPT ![t] = v]
  BY DEF NodeMoves
<1>2. TypeOK'
  <2>1. chain' \in [TxIds -> Views]
    BY <1>1 DEF PortsInv, TypeOK
  <2> QED
    BY <1>1, <2>1 DEF PortsInv, TypeOK
<1>3. HoldsInv' /\ ReportInv'
  BY <1>1 DEF PortsInv, HoldsInv, ReportInv, Ended
<1> QED
  BY <1>2, <1>3 DEF PortsInv

LEMMA PortsInitially ==
  ASSUME Init
  PROVE  PortsInv
<1>1. op = "idle" /\ result.status = "null"
  BY DEF Init, NoResult
<1>2. TypeOK
  BY <1>1, MethodNames, PortsAssumption DEF Init, TypeOK, Statuses
<1>3. HoldsInv /\ ReportInv
  BY <1>1 DEF Init, HoldsInv, ReportInv, Ended
<1> QED
  BY <1>2, <1>3 DEF PortsInv

LEMMA PortsKept ==
  ASSUME PortsInv, [Next]_vars
  PROVE  PortsInv'
<1>1. CASE Settles
  BY <1>1, FailureKeeps, ErrorKeeps, TipReports, DatumReports, TransactionReports,
     InputsReport, ScriptReports, ListingKeeps, JoinKeeps, HtlcReports, KeyReports,
     AcceptReports DEF Settles
<1>2. CASE UNCHANGED vars
  BY <1>2 DEF vars, PortsInv, TypeOK, HoldsInv, ReportInv, Ended
<1>3. CASE Next /\ ~Settles
  BY <1>3, CallKeeps, ReturnKeeps, MovesKeep DEF Next
<1> QED
  BY <1>1, <1>2, <1>3

LEMMA PortsAlways == Spec => []PortsInv
  BY PortsInitially, PortsKept, PTL DEF Spec
-----------------------------------------------------------------------------
\* The transport makes at most MaxAttempts attempts at a request, a discovery has no
\* more candidates than settlements, and a port holds nothing between two calls
\* (http-rpc.ts:65-102, indexer-chain.ts:178-209), for any listings and any number
\* of attempts, whatever the decoder makes of a text.
THEOREM TypeCorrect == Spec => []TypeOK
  BY PortsAlways, PTL DEF PortsInv

\* A transaction or a lock that is missing was missed by the node or the index, a
\* keystore that answered nothing is never read as "not mine", and a refusal is
\* quote_verify's (indexer-chain.ts:211-272, keystore-custody.ts:81-102,
\* walletd-verifier.ts:106-139): only that a transaction without inputs would look
\* absent has to be excluded, and that the decoder loses none of them.
THEOREM AbsenceTold ==
  ASSUME WireIsExact, TxsSpend
  PROVE  Spec => []AbsenceWasTold
<1>1. ASSUME ReportInv
      PROVE  AbsenceWasTold
  <2>1. ASSUME Ended("getTxInputs", "value"), result.value = <<>>
        PROVE  heard = <<NotFound>>
    <3>1. SUFFICES ASSUME result.arg \in TxIds,
                          NEW tx \in WireReads[result.arg], tx.ok, result.value = tx.inputs
                   PROVE  FALSE
      BY <1>1, <2>1 DEF ReportInv
    <3>2. tx.inputs = TxBody[result.arg].inputs /\ TxBody[result.arg].inputs # <<>>
      BY <3>1 DEF WireIsExact, TxsSpend
    <3> QED
      BY <2>1, <3>1, <3>2
  <2> QED
    BY <1>1, <2>1 DEF ReportInv, AbsenceWasTold
<1> QED
  BY <1>1, PortsAlways, PTL DEF PortsInv

\* What a discovery returns is one candidate for each settlement listed, in order,
\* with the transaction's own value and script and the height that the node answered
\* (indexer-chain.ts:178-209), however many settlements the index lists.
THEOREM DiscoveryWhole ==
  ASSUME WireIsExact
  PROVE  Spec => []DiscoveryIsWhole
<1>1. ASSUME ReportInv, Ended("findSettlements", "value")
      PROVE  LET listing == heard[1].listing
             IN result.value = [i \in DOMAIN listing |->
                  Candidate(listing[i], TxBody[listing[i].tx], heard[i + 1])]
  <2>1. PICK entries \in Listings :
          Joined(entries, result.value, heard) /\ Len(result.value) = Len(entries)
    BY <1>1 DEF ReportInv
  <2>2. heard[1].listing = entries
    BY <2>1 DEF Joined
  <2>3. /\ entries \in Seq(Outpoints) /\ Len(entries) \in Nat
        /\ DOMAIN entries = 1..Len(entries) /\ DOMAIN result.value = DOMAIN entries
        /\ result.value \in Seq(Joins)
    BY <2>1, PortsAssumption DEF Joined
  <2>4. ASSUME NEW i \in DOMAIN entries
        PROVE  result.value[i] = Candidate(entries[i], TxBody[entries[i].tx], heard[i + 1])
    <3>1. entries[i].tx \in TxIds
      <4>1. entries[i] \in Outpoints
        BY <2>3
      <4> QED
        BY <4>1 DEF Outpoints
    <3>2. PICK tx \in ReadsOf(entries[i]) :
            result.value[i] = Candidate(entries[i], tx, heard[i + 1])
      BY <2>1, <2>3 DEF Joined
    <3>3. LET k == entries[i].index
              body == TxBody[entries[i].tx]
          IN /\ tx.outputs[k].value = body.outputs[k].value
             /\ tx.outputs[k].script = body.outputs[k].script
      BY <3>1, <3>2 DEF WireIsExact, ReadsOf
    <3> QED
      BY <3>2, <3>3 DEF Candidate
  <2> DEFINE whole == [i \in DOMAIN entries |->
                         Candidate(entries[i], TxBody[entries[i].tx], heard[i + 1])]
  <2>5. result.value = [i \in DOMAIN result.value |-> result.value[i]]
    BY <2>3
  <2>6. result.value = whole
    BY <2>3, <2>4, <2>5
  <2> QED
    BY <2>2, <2>6
<1>2. ReportInv => DiscoveryIsWhole
  BY <1>1 DEF DiscoveryIsWhole
<1> QED
  BY <1>2, PortsAlways, PTL DEF PortsInv
=============================================================================
