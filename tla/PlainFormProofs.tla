--------------------------- MODULE PlainFormProofs ---------------------------
(***************************************************************************)
(* PlainForm over any outputs, any depth and any chain: what scoreQuote    *)
(* answers follows from what it read, whatever moved between its reads.    *)
(***************************************************************************)
EXTENDS PlainForm, FiniteSetTheorems, TLAPS

\* A listing is a finite sequence of outputs.
LEMMA ListingsAreSequences == TypeOK => Listings \subseteq Seq(Outputs)
<1> SUFFICES ASSUME TypeOK PROVE Listings \subseteq Seq(Outputs)
  OBVIOUS
<1>1. index \subseteq Outputs /\ Cardinality(index) \in Nat
  BY FormAssumption, FS_Subset, FS_CardinalityType DEF TypeOK
<1> QED
  BY <1>1 DEF Listings, SetToSeqs

\* Verdicts of the spine are verdicts of score.
LEMMA VerdictTypes ==
  ASSUME TypeOK, NEW c \in Candidates, NEW down \in BOOLEAN
  PROVE  /\ CandidateVerdict(c, down) \in Verdicts
         /\ Wait("no_candidate") \in Verdicts
         /\ Fault("adapter_error") \in Verdicts
         /\ NoVerdict \in Verdicts
<1>1. BindingSpine(c.out, down) \in Reasons \cup {"skip", "ok", "keystore_fault"}
  BY DEF BindingSpine, Reasons
<1>2. DepthGate(c) \in {Honor(c.out), Wait("insufficient_depth")} /\ c.out \in Outputs
  BY DEF DepthGate, Candidates
<1>3. DepthGate(c) \in Verdicts
  BY <1>2 DEF Verdicts
<1> QED
  BY <1>1, <1>3 DEF CandidateVerdict, Verdicts, Reasons

\* Fetched candidates, one by one, and one more.
LEMMA RawTypes ==
  ASSUME TypeOK
  PROVE  /\ DOMAIN raw = 1..Len(raw) /\ Len(raw) \in Nat
         /\ \A i \in DOMAIN raw : /\ raw[i] \in Candidates /\ raw[i].out \in Outputs
                                 /\ raw[i].blockHeight \in Heights
<1>1. raw \in Seq(Candidates)
  BY DEF TypeOK
<1>2. \A i \in DOMAIN raw : raw[i] \in Candidates
  BY <1>1
<1>3. \A c \in Candidates : c.out \in Outputs /\ c.blockHeight \in Heights
  BY DEF Candidates
<1> QED
  BY <1>1, <1>2, <1>3

LEMMA AppendedCandidates ==
  ASSUME TypeOK, NEW c \in Candidates
  PROVE  \A i \in DOMAIN Append(raw, c) :
           Append(raw, c)[i] = c \/ (i \in DOMAIN raw /\ Append(raw, c)[i] = raw[i])
<1>1. raw \in Seq(Candidates)
  BY DEF TypeOK
<1>2. /\ Append(raw, c) \in Seq(Candidates) /\ Len(Append(raw, c)) = Len(raw) + 1
      /\ \A i \in 1..Len(raw) : Append(raw, c)[i] = raw[i]
      /\ Append(raw, c)[Len(raw) + 1] = c
  BY <1>1
<1>3. DOMAIN Append(raw, c) = 1..(Len(raw) + 1) /\ Len(raw) \in Nat
  BY <1>1, <1>2
<1>4. \A i \in 1..(Len(raw) + 1) : i \in 1..Len(raw) \/ i = Len(raw) + 1
  BY <1>3
<1> QED
  BY <1>2, <1>3, <1>4, RawTypes
-----------------------------------------------------------------------------
\* What moves around a call: broadcasts, blocks, reorganisations and the index.
EnvStep ==
  \/ \E o \in Outputs : Broadcast(o)
  \/ \E mined \in SUBSET Outputs : Block(mined)
  \/ \E fork \in 0..tip :
       \E moved \in [Above(fork) -> (fork + 1)..(tip + 1) \cup {NULL, Absent}] : Reorg(moved)
  \/ \E o \in Outputs : Lists(o) \/ Drops(o)

LEMMA EnvEffect ==
  ASSUME TypeOK, EnvStep
  PROVE  /\ UNCHANGED <<kind, holds, callVars>>
         /\ height' \in [Outputs -> Heights \cup {Absent}]
         /\ tip' \in 0..MaxTip /\ tip <= tip'
         /\ index' \subseteq Outputs
         /\ Note
<1> USE FormAssumption DEF TypeOK, Heights
<1>1. ASSUME NEW o \in Outputs, Broadcast(o)
      PROVE  height' \in [Outputs -> Heights \cup {Absent}] /\ tip' = tip /\ index' = index
  BY <1>1 DEF Broadcast
<1>2. ASSUME NEW mined \in SUBSET Outputs, Block(mined)
      PROVE  /\ height' \in [Outputs -> Heights \cup {Absent}]
             /\ tip' = tip + 1 /\ tip < MaxTip /\ index' = index
  BY <1>2 DEF Block
<1>3. ASSUME NEW fork \in 0..tip,
             NEW moved \in [Above(fork) -> (fork + 1)..(tip + 1) \cup {NULL, Absent}],
             Reorg(moved)
      PROVE  /\ height' \in [Outputs -> Heights \cup {Absent}]
             /\ tip' = tip + 1 /\ tip < MaxTip /\ index' = index
  BY <1>3 DEF Reorg
<1>4. ASSUME NEW o \in Outputs, Lists(o) \/ Drops(o)
      PROVE  height' = height /\ tip' = tip /\ index' \subseteq Outputs
  BY <1>4 DEF Lists, Drops
<1>5. UNCHANGED <<kind, holds, callVars>> /\ Note
  BY DEF EnvStep, Broadcast, Block, Reorg, Lists, Drops
<1> QED
  BY <1>1, <1>2, <1>3, <1>4, <1>5 DEF EnvStep

\* With a settlement still to fetch, Head and Tail of the list are what they seem.
FetchReady == stage = "fetch" => todo # << >>

LEMMA InitType == Init => TypeOK /\ FetchReady
<1> SUFFICES ASSUME Init PROVE TypeOK /\ FetchReady
  OBVIOUS
<1>1. verdict \in Verdicts
  BY DEF Init, Verdicts
<1> QED
  BY <1>1, FormAssumption DEF Init, TypeOK, FetchReady, Heights

LEMMA NextType == TypeOK /\ FetchReady /\ [Next]_vars => TypeOK' /\ FetchReady'
<1> SUFFICES ASSUME TypeOK, FetchReady, [Next]_vars PROVE TypeOK' /\ FetchReady'
  OBVIOUS
<1> USE DEF FetchReady
<1>1. CASE EnvStep
  <2>1. buried' \subseteq Outputs /\ lost' \subseteq Outputs /\ unlisted' \subseteq Outputs
    <3>1. Note
      BY <1>1, EnvEffect
    <3>2. \A h, t : Deep(h, t) \subseteq Outputs
      BY DEF Deep
    <3>3. Dropped(height') \subseteq Outputs
      BY RawTypes DEF Dropped
    <3> QED
      BY <3>1, <3>2, <3>3 DEF Note, history, TypeOK
  <2> QED
    BY <1>1, <2>1, EnvEffect DEF TypeOK, callVars
<1>2. CASE Start
  <2>1. NoVerdict \in Verdicts
    BY DEF Verdicts
  <2> QED
    BY <1>2, <2>1 DEF Start, TypeOK, chainVars, history, Deep
<1>3. ASSUME NEW listed \in Listings, Discover(listed) PROVE TypeOK' /\ FetchReady'
  BY <1>3, ListingsAreSequences DEF Discover, Gathering, TypeOK, chainVars, history
<1>4. CASE Fetch
  <2>1. /\ stage = "fetch" /\ Head(todo) \in Outputs /\ Tail(todo) \in Seq(Outputs)
        /\ UNCHANGED <<chainVars, history, readTip, at>>
    BY <1>4 DEF Fetch, TypeOK
  <2>2. CASE height[Head(todo)] = Absent
    <3>1. Fault("adapter_error") \in Verdicts
      BY DEF Verdicts
    <3> QED
      BY <1>4, <2>1, <2>2, <3>1 DEF Fetch, Finish, TypeOK, chainVars, history
  <2>3. CASE height[Head(todo)] # Absent
    <3>1. [out |-> Head(todo), blockHeight |-> height[Head(todo)]] \in Candidates
      BY <2>1, <2>3 DEF TypeOK, Candidates
    <3>2. /\ raw' = Append(raw, [out |-> Head(todo), blockHeight |-> height[Head(todo)]])
          /\ todo' = Tail(todo) /\ Gathering(Tail(todo)) /\ UNCHANGED verdict
      BY <1>4, <2>3 DEF Fetch
    <3>3. raw' \in Seq(Candidates) /\ Len(raw') = Len(raw) + 1 /\ Len(raw) \in Nat
      BY <3>1, <3>2 DEF TypeOK
    <3>4. at' \in 1..(Len(raw') + 1)
      BY <2>1, <3>3 DEF TypeOK
    <3> QED
      BY <2>1, <3>2, <3>3, <3>4 DEF Gathering, TypeOK, chainVars, history
  <2> QED
    BY <2>2, <2>3
<1>5. ASSUME NEW down \in BOOLEAN, ScoreNext(down) PROVE TypeOK' /\ FetchReady'
  <2>1. /\ stage = "score" /\ at <= Len(raw) /\ Len(raw) \in Nat /\ at \in Nat /\ at > 0
        /\ raw[at] \in Candidates
    BY <1>5 DEF ScoreNext, TypeOK
  <2>2. CandidateVerdict(raw[at], down) \in Verdicts
    BY <2>1, VerdictTypes
  <2>3. verdict' \in Verdicts /\ stage' \in {"score", "done"}
    BY <1>5, <2>1, <2>2 DEF ScoreNext, Finish, TypeOK
  <2> QED
    BY <1>5, <2>1, <2>3 DEF ScoreNext, TypeOK, chainVars, history
<1>6. CASE ScoreEnds \/ ReadFails
  <2>1. Wait("no_candidate") \in Verdicts /\ Fault("adapter_error") \in Verdicts
    BY DEF Verdicts
  <2> QED
    BY <1>6, <2>1 DEF ScoreEnds, ReadFails, Finish, TypeOK, chainVars, history
<1>7. CASE UNCHANGED vars
  BY <1>7 DEF vars, TypeOK
<1> QED
  BY <1>1, <1>2, <1>3, <1>4, <1>5, <1>6, <1>7 DEF Next, EnvStep
-----------------------------------------------------------------------------
\* What the reads of a call are worth later: every output that is deep while the
\* call runs is noted, so is every fetched one that the node forgets and every
\* one that the index does not hold once it was asked, and a height that looks deep at readTip was deep when it was fetched.
ReadsInv ==
  /\ readTip <= tip
  /\ Calling => Deep(height, tip) \subseteq buried /\ Dropped(height) \subseteq lost
  /\ stage \in {"fetch", "score"} => Outputs \ index \subseteq unlisted
  /\ \A i \in DOMAIN raw :
       raw[i].blockHeight # NULL /\ ReadDepth(raw[i].blockHeight) >= ConfirmationDepth
         => raw[i].out \in buried

LEMMA InitReads == Init => ReadsInv
  BY FormAssumption DEF Init, ReadsInv, Calling

LEMMA NextReads == TypeOK /\ FetchReady /\ ReadsInv /\ [Next]_vars => ReadsInv'
<1> SUFFICES ASSUME TypeOK, FetchReady, ReadsInv, [Next]_vars PROVE ReadsInv'
  OBVIOUS
<1>1. tip \in Nat /\ readTip \in Nat
  BY FormAssumption DEF TypeOK
<1>2. CASE EnvStep
  <2>1. /\ UNCHANGED <<stage, readTip, raw>> /\ Note
        /\ tip' \in 0..MaxTip /\ tip <= tip'
    BY <1>2, EnvEffect DEF callVars
  <2>2. readTip' <= tip'
    BY <1>1, <2>1, FormAssumption DEF ReadsInv
  <2>3. (Calling)' => Deep(height, tip)' \subseteq buried' /\ Dropped(height)' \subseteq lost'
    BY <2>1 DEF Note, Calling, Deep, Dropped
  <2>4. buried \subseteq buried'
    BY <2>1 DEF Note, history
  <2>5. stage' \in {"fetch", "score"} => (Outputs \ index)' \subseteq unlisted'
    BY <2>1 DEF Note, Calling
  <2> QED
    BY <2>1, <2>2, <2>3, <2>4, <2>5 DEF ReadsInv, ReadDepth
<1>3. CASE Start
  <2>1. /\ raw' = << >> /\ readTip' = tip /\ tip' = tip /\ height' = height /\ stage' = "tip"
        /\ buried' = Deep(height, tip) /\ lost' = {}
    BY <1>3 DEF Start, chainVars
  <2>2. Deep(height, tip)' = Deep(height, tip) /\ Dropped(height)' = {}
    BY <2>1 DEF Deep, Dropped
  <2> QED
    BY <1>1, <2>1, <2>2 DEF ReadsInv
<1>4. ASSUME UNCHANGED <<height, tip, index, readTip, raw, buried, lost>>,
             (Calling)' => Calling,
             stage' \in {"fetch", "score"} => Outputs \ index \subseteq unlisted'
      PROVE  ReadsInv'
  BY <1>4 DEF ReadsInv, Deep, Dropped, ReadDepth
<1>5. CASE Fetch /\ raw' # raw
  <2> DEFINE o == Head(todo)
             c == [out |-> o, blockHeight |-> height[o]]
  <2>1. /\ stage = "fetch" /\ o \in Outputs /\ height[o] # Absent /\ raw' = Append(raw, c)
        /\ UNCHANGED <<chainVars, history, readTip>>
    BY <1>5 DEF Fetch, FetchReady, TypeOK
  <2> HIDE DEF c
  <2>0. c \in Candidates
    BY <2>1 DEF c, TypeOK, Candidates
  <2>2. \A i \in DOMAIN raw' : raw'[i] = c \/ (i \in DOMAIN raw /\ raw'[i] = raw[i])
    BY <2>0, <2>1, AppendedCandidates
  <2>3. Deep(height, tip) \subseteq buried /\ Dropped(height) \subseteq lost
    BY <2>1 DEF ReadsInv, Calling
  <2>4. Dropped(height)' \subseteq lost'
    BY <2>1, <2>2, <2>3 DEF c, Dropped, chainVars, history
  <2>5. height[o] # NULL /\ ReadDepth(height[o]) >= ConfirmationDepth => o \in buried
    <3> SUFFICES ASSUME height[o] # NULL, ReadDepth(height[o]) >= ConfirmationDepth
                 PROVE  o \in Deep(height, tip)
      BY <2>3
    <3>1. height[o] \in Nat
      BY <2>1 DEF TypeOK, Heights
    <3> QED
      BY <1>1, <2>1, <3>1, FormAssumption DEF Deep, ReadDepth, Depth, ReadsInv
  <2> QED
    <3>1. UNCHANGED <<height, tip, index, readTip, buried, lost, unlisted>>
      BY <2>1 DEF chainVars, history
    <3>2. Deep(height, tip)' = Deep(height, tip)
      BY <3>1 DEF Deep
    <3>3. \A i \in DOMAIN raw' :
            raw'[i].blockHeight # NULL /\ Depth(readTip, raw'[i].blockHeight) >= ConfirmationDepth
              => raw'[i].out \in buried'
      <4>1. c.blockHeight = height[o] /\ c.out = o
        BY DEF c
      <4> QED
        BY <2>2, <2>5, <3>1, <4>1 DEF ReadsInv, ReadDepth
    <3>4. stage' \in {"fetch", "score"} => (Outputs \ index)' \subseteq unlisted'
      BY <2>1, <3>1 DEF ReadsInv
    <3> QED
      BY <2>3, <2>4, <3>1, <3>2, <3>3, <3>4 DEF ReadsInv, ReadDepth, Depth
<1>6. CASE Fetch /\ raw' = raw
  BY <1>4, <1>6 DEF Fetch, chainVars, history, Calling, Finish, Gathering, ReadsInv
<1>7. ASSUME NEW listed \in Listings, Discover(listed) PROVE ReadsInv'
  BY <1>4, <1>7 DEF Discover, chainVars, Calling
<1>8. ASSUME NEW down \in BOOLEAN, ScoreNext(down) PROVE ReadsInv'
  BY <1>4, <1>8 DEF ScoreNext, chainVars, history, Calling, ReadsInv
<1>9. CASE ScoreEnds \/ ReadFails
  BY <1>4, <1>9 DEF ScoreEnds, ReadFails, Finish, chainVars, history, Calling
<1>10. CASE UNCHANGED vars
  BY <1>4, <1>10 DEF vars, Calling, ReadsInv
<1> QED
  BY <1>2, <1>3, <1>5, <1>6, <1>7, <1>8, <1>9, <1>10 DEF Next, EnvStep
-----------------------------------------------------------------------------
\* A candidate that nothing but a fault may keep from being honored.
DeepBinding(i) ==
  /\ Binds(raw[i].out) /\ raw[i].out \notin lost \cup unlisted
  /\ raw[i].blockHeight # NULL
  /\ Depth(readTip, raw[i].blockHeight) >= ConfirmationDepth

\* The spine against the specification's clauses: it lets through what binds, and
\* names the first clause that fails, or what the index or the node forgot.
LEMMA SpineMeets ==
  ASSUME TypeOK, ReadsInv, stage = "score", NEW i \in DOMAIN raw, NEW down \in BOOLEAN
  PROVE  LET s == BindingSpine(raw[i].out, down)
         IN /\ s = "ok" => Binds(raw[i].out)
            /\ Binds(raw[i].out) /\ raw[i].out \notin lost \cup unlisted
                 => s \in {"ok", "keystore_fault"}
            /\ s \notin {"ok", "skip", "keystore_fault"} => Earns(raw[i].out, s)
<1> DEFINE o == raw[i].out
<1>1. /\ o \in Outputs
      /\ height[o] = Absent => o \in lost
      /\ o \notin index => o \in unlisted
  <2>1. Dropped(height) \subseteq lost /\ Outputs \ index \subseteq unlisted
    BY DEF ReadsInv, Calling
  <2> QED
    BY <2>1, RawTypes DEF Dropped
<1> HIDE DEF o
<1> DEFINE k == kind[o]
<1>2. k.datum \in {"ours", "foreign", "unhonorable"}
  BY <1>1, FormAssumption DEF TypeOK, OutputKind
<1>3. /\ Clauses(o)[1].reason = "datum_unhonorable"
      /\ (Clauses(o)[1].passed <=> (k.datum # "unhonorable"))
      /\ Clauses(o)[2].reason = "amount_mismatch"
      /\ (Clauses(o)[2].passed <=> (k.value = "exact"))
      /\ Clauses(o)[3].reason = "address_mismatch"
      /\ (Clauses(o)[3].passed <=> (k.script = "payee"))
      /\ Clauses(o)[4].reason = "payee_not_controlled"
      /\ (Clauses(o)[4].passed <=> holds)
      /\ Clauses(o)[5].reason = "payer_binding_failed"
      /\ (Clauses(o)[5].passed <=> (~SourceBinding \/ k.funded))
  BY DEF Clauses
<1>4. Binds(o) <=> /\ k.datum = "ours" /\ k.value = "exact" /\ k.script = "payee"
                   /\ holds /\ (~SourceBinding \/ k.funded)
  <2>1. 1..5 = {1, 2, 3, 4, 5}
    OBVIOUS
  <2> QED
    BY <1>3, <2>1 DEF Binds
<1>5. /\ FailsFirst(o, 1) <=> ~Clauses(o)[1].passed
      /\ FailsFirst(o, 2) <=> ~Clauses(o)[2].passed /\ Clauses(o)[1].passed
      /\ FailsFirst(o, 3) <=> ~Clauses(o)[3].passed /\ Clauses(o)[1].passed
                              /\ Clauses(o)[2].passed
      /\ FailsFirst(o, 4) <=> ~Clauses(o)[4].passed /\ Clauses(o)[1].passed
                              /\ Clauses(o)[2].passed /\ Clauses(o)[3].passed
      /\ FailsFirst(o, 5) <=> ~Clauses(o)[5].passed /\ Clauses(o)[1].passed
                              /\ Clauses(o)[2].passed /\ Clauses(o)[3].passed
                              /\ Clauses(o)[4].passed
  <2>1. /\ 1..0 = {} /\ 1..1 = {1} /\ 1..2 = {1, 2} /\ 1..3 = {1, 2, 3}
        /\ 1..4 = {1, 2, 3, 4}
    OBVIOUS
  <2> QED
    BY <2>1 DEF FailsFirst
<1> DEFINE s == BindingSpine(o, down)
<1>6. s = "ok" => Binds(o)
  BY <1>2, <1>4 DEF BindingSpine
<1>7. Binds(o) /\ o \notin lost \cup unlisted => s \in {"ok", "keystore_fault"}
  BY <1>1, <1>4 DEF BindingSpine
<1>8. ASSUME s \notin {"ok", "skip", "keystore_fault"} PROVE Earns(o, s)
  <2>1. CASE o \notin index
    BY <1>1, <2>1 DEF BindingSpine, Earns
  <2>2. CASE o \in index
    <3>1. k.datum # "foreign"
      BY <1>8, <2>2 DEF BindingSpine
    <3>2. \/ s = "datum_unhonorable" /\ FailsFirst(o, 1)
          \/ s = "amount_mismatch" /\ FailsFirst(o, 2)
          \/ s = "address_mismatch" /\ FailsFirst(o, 3)
          \/ s = "payee_not_controlled" /\ FailsFirst(o, 4)
          \/ s = "payer_binding_failed" /\ FailsFirst(o, 5)
          \/ s = "payer_binding_failed" /\ SourceBinding /\ k.datum = "ours" /\ o \in lost
      BY <1>1, <1>2, <1>3, <1>5, <1>8, <2>2 DEF BindingSpine
    <3> HIDE DEF s
    <3>3. 1 \in 1..5 /\ 2 \in 1..5 /\ 3 \in 1..5 /\ 4 \in 1..5 /\ 5 \in 1..5
      OBVIOUS
    <3> QED
      BY <1>3, <3>1, <3>2, <3>3 DEF Earns
  <2> QED
    BY <2>1, <2>2
<1> QED
  BY <1>6, <1>7, <1>8 DEF o

\* What score makes of one candidate: an honor is for a payment once really deep,
\* a decline is earned, and only a fault passes over what is deep and binds.
LEMMA CandidateMeets ==
  ASSUME TypeOK, ReadsInv, stage = "score", NEW i \in DOMAIN raw, NEW down \in BOOLEAN
  PROVE  LET v == CandidateVerdict(raw[i], down)
         IN /\ v.decision \in {"none", "honor", "decline", "wait", "fault"}
            /\ v.decision = "none" => v = NoVerdict
            /\ \A o : v = Honor(o) => Binds(o) /\ o \in buried
            /\ v.decision = "decline" => Earns(raw[i].out, v.reason)
            /\ ~Ends(v) => ~DeepBinding(i)
<1> DEFINE c == raw[i]
           s == BindingSpine(c.out, down)
           v == CandidateVerdict(c, down)
<1> USE DEF Honor, Decline, Wait, Fault, NoVerdict, Ends
<1>1. s \in Reasons \cup {"skip", "ok", "keystore_fault"}
  BY DEF BindingSpine, Reasons
<1>2. /\ s = "ok" => Binds(c.out)
      /\ Binds(c.out) /\ c.out \notin lost \cup unlisted => s \in {"ok", "keystore_fault"}
      /\ s \notin {"ok", "skip", "keystore_fault"} => Earns(raw[i].out, s)
  BY SpineMeets
<1> HIDE DEF s
<1>3. CASE s = "ok"
  <2>1. v = DepthGate(c)
    BY <1>3 DEF s, CandidateVerdict
  <2>2. CASE c.blockHeight # NULL /\ ReadDepth(c.blockHeight) >= ConfirmationDepth
    <3>1. v = Honor(c.out)
      BY <2>1, <2>2 DEF DepthGate
    <3>2. c.out \in buried
      BY <2>2 DEF ReadsInv
    <3> QED
      BY <1>2, <1>3, <3>1, <3>2
  <2>3. CASE ~(c.blockHeight # NULL /\ ReadDepth(c.blockHeight) >= ConfirmationDepth)
    <3>1. v = Wait("insufficient_depth")
      BY <2>1, <2>3 DEF DepthGate
    <3>2. ~DeepBinding(i)
      BY <2>3 DEF DeepBinding, ReadDepth
    <3> QED
      BY <3>1, <3>2
  <2> QED
    BY <2>2, <2>3
<1>4. CASE s = "skip"
  <2>1. v = NoVerdict /\ ~DeepBinding(i)
    BY <1>2, <1>4 DEF s, CandidateVerdict, DeepBinding
  <2> QED
    BY <2>1
<1>5. CASE s = "keystore_fault"
  <2>1. v = Fault("keystore_fault")
    BY <1>5 DEF s, CandidateVerdict
  <2> QED
    BY <2>1
<1>6. CASE s \in Reasons
  <2>1. s \notin {"ok", "skip", "keystore_fault"}
    BY <1>6 DEF Reasons
  <2>2. v = Decline(s)
    BY <2>1 DEF s, CandidateVerdict
  <2>3. ~DeepBinding(i)
    BY <1>2, <2>1 DEF DeepBinding
  <2> QED
    BY <1>2, <2>1, <2>2, <2>3
<1> QED
  BY <1>1, <1>3, <1>4, <1>5, <1>6
-----------------------------------------------------------------------------
\* lastVerdict so far: what is behind the loop of score was rightly passed over,
\* and the verdict carried along, or given, has its reason among the candidates.
VerdictInv ==
  /\ verdict.decision \in {"none", "honor", "decline", "wait", "fault"}
  /\ verdict.decision = "none" => verdict = NoVerdict
  /\ stage \in {"idle", "tip", "fetch"} => verdict = NoVerdict /\ at = 1
  /\ stage = "score" => ~Ends(verdict)
  /\ verdict.decision \in {"none", "wait", "decline"} => \A i \in 1..(at - 1) : ~DeepBinding(i)
  /\ stage = "done" /\ verdict.decision \in {"wait", "decline"} => at > Len(raw)
  /\ \A r : verdict.decision = "decline" /\ verdict.reason = r =>
              \E i \in DOMAIN raw : Earns(raw[i].out, r)
  /\ \A o : verdict = Honor(o) => Binds(o) /\ o \in buried

LEMMA InitVerdict == Init => VerdictInv
  BY DEF Init, VerdictInv, NoVerdict, Ends, Honor

\* A call that ends in a fault, or begins anew, leaves nothing to justify.
LEMMA PlainVerdict ==
  ASSUME \/ stage' = "done" /\ verdict' = Fault("adapter_error")
         \/ stage' \in {"idle", "tip", "fetch", "score"} /\ verdict' = NoVerdict /\ at' = 1
  PROVE  VerdictInv'
  BY DEF VerdictInv, Fault, NoVerdict, Ends, Honor

\* Within a call, candidates, deep outputs and forgotten ones are only added.
LEMMA MeritsKept ==
  ASSUME UNCHANGED <<kind, holds, readTip, raw>>, lost \subseteq lost', unlisted \subseteq unlisted'
  PROVE  /\ \A o : Binds(o)' <=> Binds(o)
         /\ \A i : DeepBinding(i)' => DeepBinding(i)
         /\ \A o, r : Earns(o, r) => Earns(o, r)'
<1>1. \A o, j : Clauses(o)[j]' = Clauses(o)[j]
  BY DEF Clauses
<1>2. /\ \A o : Binds(o)' <=> Binds(o)
      /\ \A o, j : FailsFirst(o, j)' <=> FailsFirst(o, j)
  BY <1>1 DEF Binds, FailsFirst
<1>3. ASSUME NEW i PROVE DeepBinding(i)' => DeepBinding(i)
  <2>1. Binds(raw[i].out)' <=> Binds(raw[i].out)
    BY DEF Binds, Clauses
  <2> QED
    BY <2>1 DEF DeepBinding, Depth
<1>4. ASSUME NEW o, NEW r, Earns(o, r) PROVE Earns(o, r)'
  BY <1>1, <1>2, <1>4 DEF Earns
<1> QED
  BY <1>2, <1>3, <1>4

LEMMA KeptVerdict ==
  ASSUME VerdictInv, UNCHANGED <<kind, holds, readTip, raw, at, stage, verdict>>,
         buried \subseteq buried', lost \subseteq lost', unlisted \subseteq unlisted'
  PROVE  VerdictInv'
  BY MeritsKept DEF VerdictInv, NoVerdict, Ends, Honor

LEMMA NextVerdict ==
  ASSUME TypeOK, FetchReady, ReadsInv, VerdictInv, [Next]_vars
  PROVE  VerdictInv'
<1>1. CASE EnvStep
  <2>1. Note /\ UNCHANGED <<kind, holds, callVars>>
    BY <1>1, EnvEffect
  <2> QED
    BY <2>1, KeptVerdict DEF Note, history, callVars
<1>2. CASE Start
  BY <1>2, PlainVerdict DEF Start
<1>3. ASSUME NEW listed \in Listings, Discover(listed) PROVE VerdictInv'
  BY <1>3, PlainVerdict DEF Discover, Gathering, VerdictInv
<1>4. CASE Fetch
  BY <1>4, PlainVerdict DEF Fetch, Gathering, Finish, VerdictInv
<1>5. ASSUME NEW down \in BOOLEAN, ScoreNext(down) PROVE VerdictInv'
  <2> DEFINE v == CandidateVerdict(raw[at], down)
  <2>1. /\ stage = "score" /\ at' = at + 1
        /\ UNCHANGED <<kind, holds, readTip, raw, buried, lost, unlisted>>
    BY <1>5 DEF ScoreNext, chainVars, history
  <2>2. at \in DOMAIN raw /\ at \in Nat /\ Len(raw) \in Nat
    BY <1>5, RawTypes DEF ScoreNext, TypeOK
  <2>3. /\ v.decision \in {"none", "honor", "decline", "wait", "fault"}
        /\ v.decision = "none" => v = NoVerdict
        /\ \A o : v = Honor(o) => Binds(o) /\ o \in buried
        /\ v.decision = "decline" => Earns(raw[at].out, v.reason)
        /\ ~Ends(v) => ~DeepBinding(at)
    BY <2>1, <2>2, CandidateMeets
  <2>4. /\ Ends(v) => stage' = "done" /\ verdict' = v
        /\ ~Ends(v) => stage' = "score" /\ verdict' = IF v = NoVerdict THEN verdict ELSE v
    BY <1>5, <2>1 DEF ScoreNext, Finish
  <2> HIDE DEF v
  <2>5. /\ \A o : Binds(o)' <=> Binds(o)
        /\ \A i : DeepBinding(i)' => DeepBinding(i)
        /\ \A o, r : Earns(o, r) => Earns(o, r)'
    BY <2>1, MeritsKept
  <2>6. CASE Ends(v)
    <3>1. stage' = "done" /\ verdict' = v /\ v.decision \in {"honor", "fault"}
      BY <2>4, <2>6 DEF Ends
    <3> QED
      BY <2>1, <2>3, <2>5, <3>1 DEF VerdictInv
  <2>7. CASE ~Ends(v)
    <3>1. stage' = "score" /\ ~Ends(verdict)
      BY <2>1, <2>4, <2>7 DEF VerdictInv
    <3>2. verdict.decision \in {"none", "wait", "decline"}
      BY <3>1 DEF VerdictInv, Ends
    <3>3. \A i \in 1..at : ~DeepBinding(i)
      BY <2>2, <2>3, <2>7, <3>2 DEF VerdictInv
    <3>4. \A i \in 1..(at' - 1) : ~DeepBinding(i)'
      BY <2>1, <2>2, <2>5, <3>3
    <3>5. CASE v = NoVerdict
      <4>1. verdict' = verdict
        BY <2>4, <2>7, <3>5
      <4> QED
        BY <2>1, <2>5, <3>1, <3>4, <4>1 DEF VerdictInv, Ends
    <3>6. CASE v # NoVerdict
      <4>1. verdict' = v
        BY <2>4, <2>7, <3>6
      <4>2. ASSUME NEW r, v.decision = "decline", v.reason = r
            PROVE  \E i \in DOMAIN raw' : Earns(raw[i].out, r)'
        <5>1. Earns(raw[at].out, r)
          BY <2>3, <4>2
        <5>2. Earns(raw[at].out, r) => \E i \in DOMAIN raw : Earns(raw[i].out, r)
          BY <2>2
        <5> QED
          BY <2>1, <2>5, <5>1, <5>2
      <4>3. ~Ends(verdict)' /\ (verdict'.decision = "none" => verdict' = NoVerdict)
        BY <2>3, <2>7, <4>1 DEF Ends
      <4> QED
        BY <2>1, <2>3, <2>5, <3>1, <3>4, <4>1, <4>2, <4>3 DEF VerdictInv
    <3> QED
      BY <3>5, <3>6
  <2> QED
    BY <2>6, <2>7
<1>6. CASE ScoreEnds
  <2>1. /\ stage = "score" /\ at > Len(raw) /\ stage' = "done"
        /\ verdict' = IF verdict = NoVerdict THEN Wait("no_candidate") ELSE verdict
        /\ UNCHANGED <<kind, holds, readTip, raw, at, buried, lost, unlisted>>
    BY <1>6 DEF ScoreEnds, Finish, chainVars, history
  <2>2. /\ \A o : Binds(o)' <=> Binds(o)
        /\ \A i : DeepBinding(i)' => DeepBinding(i)
        /\ \A o, r : Earns(o, r) => Earns(o, r)'
    BY <2>1, MeritsKept
  <2>3. verdict.decision \in {"none", "wait", "decline"}
    BY <2>1 DEF VerdictInv, Ends
  <2>4. \A i \in 1..(at' - 1) : ~DeepBinding(i)'
    BY <2>1, <2>2, <2>3 DEF VerdictInv
  <2>5. CASE verdict = NoVerdict
    BY <2>1, <2>4, <2>5 DEF VerdictInv, Wait, Honor
  <2>6. CASE verdict # NoVerdict
    BY <2>1, <2>2, <2>3, <2>4, <2>6 DEF VerdictInv
  <2> QED
    BY <2>5, <2>6
<1>7. CASE ReadFails
  BY <1>7, PlainVerdict DEF ReadFails, Finish
<1>8. CASE UNCHANGED vars
  BY <1>8, KeptVerdict DEF vars
<1> QED
  BY <1>1, <1>2, <1>3, <1>4, <1>5, <1>6, <1>7, <1>8 DEF Next, EnvStep
-----------------------------------------------------------------------------
FormInv == TypeOK /\ FetchReady /\ ReadsInv /\ VerdictInv

LEMMA FormAlways == Spec => []FormInv
<1>1. Init => FormInv
  BY InitType, InitReads, InitVerdict DEF FormInv
<1>2. FormInv /\ [Next]_vars => FormInv'
  BY NextType, NextReads, NextVerdict DEF FormInv
<1> QED
  BY <1>1, <1>2, PTL DEF Spec

\* What scoreQuote holds between two awaits keeps its type.
THEOREM TypeCorrect == Spec => []TypeOK
  BY FormAlways, PTL DEF FormInv

\* For every chain, depth and listing: scoreQuote honors an output that binds in
\* every clause and that was confirmationDepth deep at an instant of the call,
\* though tip and heights are read apart.
THEOREM HonoredWasBuried == Spec => []HonorWasBuried
<1>1. FormInv => HonorWasBuried
  BY DEF FormInv, VerdictInv, HonorWasBuried
<1> QED
  BY <1>1, FormAlways, PTL

\* The loop of score goes on past mismatched and shallow siblings to the output
\* that settles the quote, wherever the index lists it, as long as the index goes
\* on listing it and the node goes on knowing it.
THEOREM DeepHonored == Spec => []DeepIsHonored
<1>1. FormInv => DeepIsHonored
  <2> SUFFICES ASSUME FormInv, stage = "done", verdict.decision \in {"wait", "decline"},
                      NEW i \in DOMAIN raw
               PROVE  ~DeepBinding(i)
    BY DEF DeepIsHonored, DeepBinding
  <2>1. i \in 1..Len(raw) /\ Len(raw) \in Nat /\ at \in Nat /\ at > Len(raw)
    BY RawTypes DEF FormInv, VerdictInv, TypeOK
  <2>2. i \in 1..(at - 1)
    BY <2>1
  <2> QED
    BY <2>2 DEF FormInv, VerdictInv
<1> QED
  BY <1>1, FormAlways, PTL

\* runBindingSpine follows the specification's order of clauses: a decline names
\* the first clause that some listed output of the quote fails, or what the index
\* or the node forgot of one while the call ran.
THEOREM DeclinesEarned == Spec => []DeclineIsEarned
<1>1. FormInv => DeclineIsEarned
  BY DEF FormInv, VerdictInv, DeclineIsEarned
<1> QED
  BY <1>1, FormAlways, PTL
=============================================================================
