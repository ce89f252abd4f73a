----------------------------- MODULE PlainForm -----------------------------
(***************************************************************************)
(* scoreQuote over PlainOutputForm and IndexerChainSource: the live tip,   *)
(* then the indexer's list of settlements, then the node's height of each, *)
(* then the binding spine and the depth gate of each candidate in turn,    *)
(* one await at a time while blocks arrive and branches are abandoned,     *)
(* until one verdict comes out.                                            *)
(***************************************************************************)
EXTENDS Integers, Sequences, FiniteSetsExt, SequencesExt

CONSTANTS
  Outputs,            \* outputs that may appear under the quote_id
  Kinds,              \* what such an output may be (a set of OutputKind)
  NULL,               \* no block height: unconfirmed
  Absent,             \* unknown to the node
  ConfirmationDepth,  \* config.confirmationDepth
  MaxTip,             \* bound on the chain's height
  SourceBinding       \* payerBinding is "source" and the quote names a payer

OutputKind == [datum  : {"ours", "foreign", "unhonorable"},
               value  : {"exact", "other"},
               script : {"payee", "other"},
               funded : BOOLEAN]      \* a payer-keyed prevout funds the tx

VARIABLES
  kind,      \* kind[o], fixed when o is broadcast
  holds,     \* the keystore controls the quote's payee key
  height,    \* the node: block height, NULL in the mempool, or Absent
  tip,       \* the node: chain height
  index,     \* the indexer: outputs it lists under the quote_id
  stage,     \* where scoreQuote is
  readTip,   \* the tip it read
  todo,      \* listed settlements whose tx is still to be fetched
  raw,       \* RawSettlementCandidates gathered so far
  at,        \* the candidate in raw that score looks at
  verdict,   \* lastVerdict while score runs, then the answer
  buried,    \* outputs at ConfirmationDepth at some instant of the call (history)
  lost,      \* outputs the node forgot after they were fetched (history)
  unlisted   \* outputs outside index at an instant since it was asked (history)

vars == <<kind, holds, height, tip, index, stage, readTip, todo, raw, at, verdict,
          buried, lost, unlisted>>
chainVars == <<kind, holds, height, tip, index>>
history == <<buried, lost, unlisted>>
callVars == <<stage, readTip, todo, raw, at, verdict>>

ASSUME FormAssumption ==
  /\ IsFiniteSet(Outputs)
  /\ Kinds \subseteq OutputKind
  /\ NULL \notin Nat /\ Absent \notin Nat \cup {NULL}
  /\ ConfirmationDepth \in Nat \ {0}
  /\ MaxTip \in Nat
  /\ SourceBinding \in BOOLEAN

Reasons == {"datum_unhonorable", "amount_mismatch", "address_mismatch",
            "payee_not_controlled", "payer_binding_failed"}

Honor(o)   == [decision |-> "honor", out |-> o]
Decline(r) == [decision |-> "decline", reason |-> r]
Wait(r)    == [decision |-> "wait", reason |-> r]
Fault(r)   == [decision |-> "fault", reason |-> r]
NoVerdict  == [decision |-> "none"]

Verdicts == {Honor(o) : o \in Outputs} \cup {Decline(r) : r \in Reasons}
  \cup {Wait(r) : r \in {"no_candidate", "insufficient_depth"}}
  \cup {Fault(r) : r \in {"keystore_fault", "adapter_error"}} \cup {NoVerdict}

Heights == Nat \cup {NULL}
Candidates == [out : Outputs, blockHeight : Heights]

TypeOK ==
  /\ kind \in [Outputs -> Kinds]
  /\ holds \in BOOLEAN
  /\ height \in [Outputs -> Heights \cup {Absent}]
  /\ tip \in 0..MaxTip
  /\ index \subseteq Outputs
  /\ stage \in {"idle", "tip", "fetch", "score", "done"}
  /\ readTip \in 0..MaxTip
  /\ todo \in Seq(Outputs)
  /\ raw \in Seq(Candidates)
  /\ at \in 1..(Len(raw) + 1)
  /\ verdict \in Verdicts
  /\ buried \subseteq Outputs /\ lost \subseteq Outputs /\ unlisted \subseteq Outputs

Init ==
  /\ kind \in [Outputs -> Kinds]
  /\ holds \in BOOLEAN
  /\ height = [o \in Outputs |-> Absent]
  /\ tip = 0
  /\ index = {}
  /\ stage = "idle" /\ readTip = 0 /\ todo = << >> /\ raw = << >>
  /\ at = 1 /\ verdict = NoVerdict
  /\ buried = {} /\ lost = {} /\ unlisted = {}
-----------------------------------------------------------------------------
Depth(top, h) == top - h + 1

\* Variant for the runs: the tip is read again once the heights are known.
DepthAtScore(h) == tip - h + 1

\* The depth gate's reading: the tip from before discovery.
ReadDepth(h) == Depth(readTip, h)

\* Variant for the runs: the address is looked at before the amount.
SpineAddressFirst(o, down) ==
  LET k == kind[o]
  IN IF o \notin index \/ k.datum = "unhonorable" THEN "datum_unhonorable"
     ELSE IF k.datum = "foreign" THEN "skip"
     ELSE IF k.script # "payee" THEN "address_mismatch"
     ELSE IF k.value # "exact" THEN "amount_mismatch"
     ELSE IF down THEN "keystore_fault"
     ELSE IF ~holds THEN "payee_not_controlled"
     ELSE IF SourceBinding /\ ~(k.funded /\ height[o] # Absent) THEN "payer_binding_failed"
     ELSE "ok"

\* runBindingSpine, steps 2 to 6 in order; a datum of another quote is skipped.
\* The datum is asked of the indexer again: of an output it no longer lists it
\* knows none, which reads as unhonorable.  down: the keystore cannot be asked.
\* The prevouts of a transaction the node does not know are read as none.
BindingSpine(o, down) ==
  LET k == kind[o]
  IN IF o \notin index \/ k.datum = "unhonorable" THEN "datum_unhonorable"
     ELSE IF k.datum = "foreign" THEN "skip"
     ELSE IF k.value # "exact" THEN "amount_mismatch"
     ELSE IF k.script # "payee" THEN "address_mismatch"
     ELSE IF down THEN "keystore_fault"
     ELSE IF ~holds THEN "payee_not_controlled"
     ELSE IF SourceBinding /\ ~(k.funded /\ height[o] # Absent) THEN "payer_binding_failed"
     ELSE "ok"

\* depthGate: unconfirmed or shallow waits.
DepthGate(c) ==
  IF c.blockHeight # NULL /\ ReadDepth(c.blockHeight) >= ConfirmationDepth
    THEN Honor(c.out) ELSE Wait("insufficient_depth")

\* What the loop of score makes of one candidate.
CandidateVerdict(c, down) ==
  LET s == BindingSpine(c.out, down)
  IN CASE s = "skip"           -> NoVerdict
       [] s = "ok"             -> DepthGate(c)
       [] s = "keystore_fault" -> Fault(s)
       [] OTHER                -> Decline(s)

Ends(v) == v.decision \in {"honor", "fault"}
-----------------------------------------------------------------------------
Calling == stage \in {"tip", "fetch", "score"}

\* Outputs at ConfirmationDepth on a chain of height t with heights h.
Deep(h, t) ==
  {o \in Outputs : h[o] \in Nat /\ Depth(t, h[o]) >= ConfirmationDepth}

\* Fetched outputs that the node of heights h no longer knows.
Dropped(h) == {raw[i].out : i \in {j \in DOMAIN raw : h[raw[j].out] = Absent}}

Note ==
  IF Calling
    THEN /\ buried' = buried \cup Deep(height', tip')
         /\ lost' = lost \cup Dropped(height')
         /\ unlisted' = IF stage = "tip" THEN unlisted ELSE unlisted \cup (Outputs \ index')
    ELSE UNCHANGED history

\* A settlement is broadcast, or broadcast again after it was dropped.
Broadcast(o) ==
  /\ height[o] = Absent
  /\ height' = [height EXCEPT ![o] = NULL]
  /\ UNCHANGED <<kind, holds, tip, index, callVars>>
  /\ Note

\* A block arrives with some of the mempool.
Block(mined) ==
  /\ tip < MaxTip
  /\ \A o \in mined : height[o] = NULL
  /\ tip' = tip + 1
  /\ height' = [o \in Outputs |-> IF o \in mined THEN tip + 1 ELSE height[o]]
  /\ UNCHANGED <<kind, holds, index, callVars>>
  /\ Note

\* Outputs in a block above fork.
Above(fork) == {o \in Outputs : height[o] \in Nat /\ height[o] > fork}

\* A longer branch replaces every block above fork: their transactions are on
\* it at any height, back in the mempool, or dropped.
Reorg(moved) ==
  /\ tip < MaxTip
  /\ tip' = tip + 1
  /\ height' = [o \in Outputs |-> IF o \in DOMAIN moved THEN moved[o] ELSE height[o]]
  /\ UNCHANGED <<kind, holds, index, callVars>>
  /\ Note

\* The indexer follows the node at a pace of its own: it lists an output the node
\* has shown it, and drops one, whether or not the node still knows it.
Lists(o) ==
  /\ o \notin index /\ height[o] # Absent
  /\ index' = index \cup {o}
  /\ UNCHANGED <<kind, holds, height, tip, callVars>>
  /\ Note

Drops(o) ==
  /\ o \in index
  /\ index' = index \ {o}
  /\ UNCHANGED <<kind, holds, height, tip, callVars>>
  /\ Note
-----------------------------------------------------------------------------
Start ==
  /\ ~Calling
  /\ stage' = "tip" /\ readTip' = tip
  /\ todo' = << >> /\ raw' = << >> /\ at' = 1 /\ verdict' = NoVerdict
  /\ buried' = Deep(height, tip) /\ lost' = {} /\ unlisted' = {}
  /\ UNCHANGED chainVars

\* discover and score in turn: from the last fetch straight to the first candidate.
Gathering(rest) == stage' = IF rest = << >> THEN "score" ELSE "fetch"

\* The index lists its settlements in an order of its own.
Discover(listed) ==
  /\ stage = "tip"
  /\ Gathering(listed)
  /\ todo' = listed
  /\ unlisted' = Outputs \ index
  /\ UNCHANGED <<chainVars, readTip, raw, at, verdict, buried, lost>>

Finish(v) == stage' = "done" /\ verdict' = v

\* Variant for the runs: a null get_transaction is read as any other.
FetchUnchecked ==
  /\ stage = "fetch"
  /\ raw' = Append(raw, [out |-> Head(todo), blockHeight |-> height[Head(todo)]])
  /\ todo' = Tail(todo)
  /\ Gathering(Tail(todo))
  /\ UNCHANGED <<chainVars, history, readTip, at, verdict>>

\* get_transaction of the next settlement; null throws out of discover.
Fetch ==
  /\ stage = "fetch"
  /\ LET o == Head(todo)
     IN IF height[o] = Absent
          THEN Finish(Fault("adapter_error")) /\ UNCHANGED <<raw, todo>>
          ELSE /\ raw' = Append(raw, [out |-> o, blockHeight |-> height[o]])
               /\ todo' = Tail(todo)
               /\ Gathering(Tail(todo))
               /\ UNCHANGED verdict
  /\ UNCHANGED <<chainVars, history, readTip, at>>

\* Variant for the runs: score answers with the first candidate that is ours.
ScoreFirst(down) ==
  /\ stage = "score" /\ at <= Len(raw)
  /\ LET v == CandidateVerdict(raw[at], down)
     IN IF v # NoVerdict THEN Finish(v) ELSE UNCHANGED <<stage, verdict>>
  /\ at' = at + 1
  /\ UNCHANGED <<chainVars, history, readTip, todo, raw>>

\* One turn of the loop of score: an honor or a throw ends it, any other
\* verdict replaces the last one, a skipped candidate leaves it alone.
ScoreNext(down) ==
  /\ stage = "score" /\ at <= Len(raw)
  /\ LET v == CandidateVerdict(raw[at], down)
     IN IF Ends(v) THEN Finish(v)
        ELSE /\ verdict' = IF v = NoVerdict THEN verdict ELSE v
             /\ UNCHANGED stage
  /\ at' = at + 1
  /\ UNCHANGED <<chainVars, history, readTip, todo, raw>>

ScoreEnds ==
  /\ stage = "score" /\ at > Len(raw)
  /\ Finish(IF verdict = NoVerdict THEN Wait("no_candidate") ELSE verdict)
  /\ UNCHANGED <<chainVars, history, readTip, todo, raw, at>>

\* Any read of the node or the index throws.
ReadFails ==
  /\ Calling
  /\ Finish(Fault("adapter_error"))
  /\ UNCHANGED <<chainVars, history, readTip, todo, raw, at>>

\* Every order in which the index can list what it holds.
Listings == SetToSeqs(index)

Next ==
  \/ \E o \in Outputs : Broadcast(o)
  \/ \E mined \in SUBSET Outputs : Block(mined)
  \/ \E fork \in 0..tip :
       \E moved \in [Above(fork) -> (fork + 1)..(tip + 1) \cup {NULL, Absent}] :
         Reorg(moved)
  \/ \E o \in Outputs : Lists(o) \/ Drops(o)
  \/ Start
  \/ \E listed \in Listings : Discover(listed)
  \/ Fetch
  \/ \E down \in BOOLEAN : ScoreNext(down)
  \/ ScoreEnds
  \/ ReadFails

Spec == Init /\ [][Next]_vars
-----------------------------------------------------------------------------
\* The clauses of the spine in the order docs/exfer-honor-spec.md, section 6,
\* gives them.
Clauses(o) == <<
  [reason |-> "datum_unhonorable",    passed |-> kind[o].datum # "unhonorable"],
  [reason |-> "amount_mismatch",      passed |-> kind[o].value = "exact"],
  [reason |-> "address_mismatch",     passed |-> kind[o].script = "payee"],
  [reason |-> "payee_not_controlled", passed |-> holds],
  [reason |-> "payer_binding_failed", passed |-> ~SourceBinding \/ kind[o].funded] >>

Binds(o) ==
  /\ kind[o].datum = "ours"
  /\ \A i \in 1..5 : Clauses(o)[i].passed

\* An honor names an output that binds in every clause and that was, at some
\* instant while the call ran, really buried ConfirmationDepth deep, whatever
\* blocks and reorganisations came between the reads.
HonorWasBuried ==
  \A o \in Outputs : stage = "done" /\ verdict = Honor(o) => Binds(o) /\ o \in buried

\* A binding output that is deep enough is honored wherever it is listed: no
\* sibling under the same quote_id masks it, short of a fault, of the index
\* dropping it after it was listed, or of the node forgetting its transaction
\* after it was fetched.
DeepIsHonored ==
  (stage = "done" /\ verdict.decision \in {"wait", "decline"}) =>
    ~\E i \in DOMAIN raw :
       /\ Binds(raw[i].out) /\ raw[i].out \notin lost \cup unlisted
       /\ raw[i].blockHeight # NULL
       /\ Depth(readTip, raw[i].blockHeight) >= ConfirmationDepth

\* Output o fails clause j, and passes every clause the specification puts before.
FailsFirst(o, j) == ~Clauses(o)[j].passed /\ \A n \in 1..(j - 1) : Clauses(o)[n].passed

\* What earns a decline for reason r: a listed output of this quote that fails
\* r's clause and none before it; or, by what the index and the node forgot while
\* the call ran, one that no longer has a datum (of whichever quote it was), or
\* one of this quote that no longer has inputs.
Earns(o, r) ==
  \/ kind[o].datum # "foreign" /\ \E j \in 1..5 : Clauses(o)[j].reason = r /\ FailsFirst(o, j)
  \/ r = "datum_unhonorable" /\ o \in unlisted
  \/ r = "payer_binding_failed" /\ SourceBinding /\ kind[o].datum = "ours" /\ o \in lost

\* A decline is earned by an output of this discovery; an output that the index
\* and the node kept is declined for the first clause it fails.
DeclineIsEarned ==
  (stage = "done" /\ verdict.decision = "decline") =>
    \E i \in DOMAIN raw : Earns(raw[i].out, verdict.reason)

\* The doc comment of score: a binding-valid but shallow candidate is a wait.
ShallowWaits ==
  (stage = "done" /\ verdict.decision = "decline") =>
    ~\E i \in DOMAIN raw : Binds(raw[i].out) /\ raw[i].out \notin lost \cup unlisted
=============================================================================
