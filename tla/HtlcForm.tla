------------------------------ MODULE HtlcForm ------------------------------
(***************************************************************************)
(* HtlcForm inside honor: the lock is scored, phase A submits our claim,   *)
(* reserves its outpoint and records it in process, phase B waits until    *)
(* the recorded claim is buried.  Each step is a step of HonorEngine       *)
(* together with what the form reads from, and does to, a chain with       *)
(* reorganisations, timeouts and reclaims.                                 *)
(***************************************************************************)
EXTENDS Integers, Sequences

CONSTANTS Keys, Outpoints, NoRow, NULL, Forever,
          Calls, Expiry, RecheckWindow, MaxTime, CallSpan,  \* as in HonorEngine
          Lock,               \* Lock[o]: the HTLC at o (a HtlcRecord)
          Timeout,            \* Timeout[o]: its timeoutHeight
          HasPayer,           \* the quotes name a payer
          ConfirmationDepth, MaxReorgDepth,
          Absent,             \* unknown to the node
          MaxTip              \* bound on the chain's height

VARIABLES
  seen, consumed, goods, clock, pc, call, result, claims,  \* the engine
  recorded,   \* the form's claims map: recorded[k] is the lock claimed for k
  phase,      \* where prepare is in each call
  view,       \* what prepare was given: the tip, and the claim on record
  height,     \* the node: height[t] is a block, NULL in the mempool, or Absent
  tip         \* the node: chain height

HtlcRecord == [receiver : {"payee", "other"},
               value    : {"exact", "other"},
               sender   : {"payer", "other"}]

\* validateOnChain, in its order: the first clause that fails.
ValidateOnChain(o) ==
  IF Lock[o].receiver # "payee" THEN "address_mismatch"
  ELSE IF Lock[o].value # "exact" THEN "amount_mismatch"
  ELSE IF HasPayer /\ Lock[o].sender # "payer" THEN "payer_binding_failed"
  ELSE "binds"

Binding == {o \in Outpoints : ValidateOnChain(o) = "binds"}

Engine == INSTANCE HonorEngine
            WITH Form <- [k \in Keys |-> "htlc"], Settles <- [k \in Keys |-> Binding]

engineVars == <<seen, consumed, goods, clock, pc, call, result, claims>>
formVars == <<recorded, phase, view>>
chainVars == <<height, tip>>
vars == <<engineVars, formVars, chainVars>>

\* The lock at o, the claim we sign for it, and the sender's reclaim.
Txs == {"lock", "claim", "reclaim"} \X Outpoints

ASSUME HtlcAssumption ==
  /\ Engine!StoreAssumption /\ Engine!EngineAssumption
  /\ Lock \in [Outpoints -> HtlcRecord]
  /\ Timeout \in [Outpoints -> Nat]
  /\ HasPayer \in BOOLEAN
  /\ ConfirmationDepth \in Nat \ {0}
  /\ MaxReorgDepth \in Nat
  /\ Absent \notin Nat \cup {NULL}
  /\ MaxTip \in Nat

\* createHonorEngine refuses any other value.
ClaimMargin == MaxReorgDepth + ConfirmationDepth + 1

Mined(t) == height[t] \in Nat

Depth(top, h) == top - h + 1

NoView == [tip |-> 0, prior |-> NULL]

TypeOK ==
  /\ Engine!TypeOK
  /\ recorded \in [Keys -> Binding \cup {NULL}]
  /\ claims = {k \in Keys : recorded[k] # NULL}
  /\ phase \in [Calls -> {"none", "lock", "submitted", "claim"}]
  /\ view \in [Calls -> [tip : 0..MaxTip, prior : Binding \cup {NULL}]]
  /\ height \in [Txs -> Nat \cup {NULL, Absent}]
  /\ tip \in 0..MaxTip

\* The quotes are registered, and the sender's reclaims ready for their timeout.
Init ==
  /\ seen = [k \in Keys |->
       [expiresAt |-> Expiry[k], retainUntil |-> Engine!Retain(k),
        observed |-> FALSE, honoredAt |-> NULL, honoredOut |-> NULL]]
  /\ consumed = [o \in Outpoints |-> NoRow]
  /\ goods = << >>
  /\ clock = 0
  /\ pc = [c \in Calls |-> "idle"]
  /\ call = [c \in Calls |-> Engine!NoLocal]
  /\ result = [c \in Calls |-> "none"]
  /\ claims = {}
  /\ recorded = [k \in Keys |-> NULL]
  /\ phase = [c \in Calls |-> "none"]
  /\ view = [c \in Calls |-> NoView]
  /\ height = [t \in Txs |-> IF t[1] = "reclaim" THEN NULL ELSE Absent]
  /\ tip = 0
-----------------------------------------------------------------------------
\* A set of heights a chain can have: a spend follows its lock, a lock is spent
\* once, and the sender's arm opens after the timeout.
Consistent(h) ==
  \A o \in Outpoints :
    LET lock == h[<<"lock", o>>]
        claim == h[<<"claim", o>>]
        reclaim == h[<<"reclaim", o>>]
    IN /\ claim \in Nat => lock \in Nat /\ lock <= claim
       /\ reclaim \in Nat => lock \in Nat /\ lock <= reclaim /\ Timeout[o] < reclaim
       /\ ~(claim \in Nat /\ reclaim \in Nat)

ChainMoves(h, t) ==
  /\ Consistent(h)
  /\ height' = h
  /\ tip' = t
  /\ UNCHANGED <<engineVars, formVars>>

\* Somebody locks funds under the quote_id.
LockBroadcast(o) ==
  /\ height[<<"lock", o>>] = Absent
  /\ ChainMoves([height EXCEPT ![<<"lock", o>>] = NULL], tip)

Block(mined) ==
  /\ tip < MaxTip
  /\ \A t \in mined : height[t] = NULL
  /\ ChainMoves([t \in Txs |-> IF t \in mined THEN tip + 1 ELSE height[t]], tip + 1)

Above(fork) == {t \in Txs : Mined(t) /\ height[t] > fork}

\* A branch one block longer replaces the blocks above fork, MaxReorgDepth of
\* them at most: their transactions are on it, in the mempool, or dropped.
Reorg(moved) ==
  /\ tip < MaxTip
  /\ \A o \in Outpoints : <<"reclaim", o>> \in DOMAIN moved => moved[<<"reclaim", o>>] # Absent
  /\ ChainMoves([t \in Txs |-> IF t \in DOMAIN moved THEN moved[t] ELSE height[t]], tip + 1)
-----------------------------------------------------------------------------
KeepForm == UNCHANGED <<recorded, phase, view>>

Enter(c, p) == phase' = [phase EXCEPT ![c] = p]

DropView(c) == view' = [view EXCEPT ![c] = NoView]

HonorStart(c, k) ==
  /\ Engine!HonorStart(c, k)
  /\ Enter(c, "none")
  /\ UNCHANGED <<recorded, view, chainVars>>

\* score looks at the first listed lock only, unconfirmed, claimed or reclaimed
\* as it may be.
ScoreOk(c, o) ==
  /\ height[<<"lock", o>>] # Absent
  /\ Engine!HonorScoreOk(c, o)
  /\ KeepForm /\ UNCHANGED chainVars

ScoreDeclines(c, o) ==
  /\ height[<<"lock", o>>] # Absent
  /\ o \notin Binding
  /\ Engine!HonorScoreFails(c, "unsettled")
  /\ KeepForm /\ UNCHANGED chainVars

\* No lock is listed, or htlc_status does not know it yet; or a read throws.
ScoreNot(c, r) ==
  /\ r \in {"wait", "adapter_error"}
  /\ Engine!HonorScoreFails(c, r)
  /\ KeepForm /\ UNCHANGED chainVars

\* The tip is read for prepare, and the claims map decides on the phase.
EnterPhase(c, p) ==
  /\ Enter(c, p)
  /\ view' = [view EXCEPT ![c] = [tip |-> tip, prior |-> recorded[call[c].key]]]

PhaseA(c) ==
  /\ Engine!HtlcPhaseA(c)
  /\ EnterPhase(c, "lock")
  /\ UNCHANGED <<recorded, chainVars>>

PhaseB(c) ==
  /\ pc[c] = "honor.prepare" /\ phase[c] = "none"
  /\ recorded[call[c].key] # NULL
  /\ EnterPhase(c, "claim")
  /\ UNCHANGED <<engineVars, recorded, chainVars>>

TipFails(c) ==
  /\ phase[c] = "none"
  /\ Engine!HtlcNotReady(c, "adapter_error")
  /\ KeepForm /\ UNCHANGED chainVars

\* tip + CLAIM_MARGIN <= timeoutHeight, at the tip prepare was given.
MarginLeft(c) == view[c].tip + ClaimMargin <= Timeout[call[c].cand]

\* getHtlc finds no lock, custody has no preimage, or nobody can submit claims.
PhaseAUnready(c) ==
  /\ phase[c] = "lock"
  /\ Engine!HtlcNotReady(c, "wait")
  /\ Enter(c, "none") /\ DropView(c)
  /\ UNCHANGED <<recorded, chainVars>>

\* The margin is gone; or a port throws, submitClaim perhaps after the node took
\* the claim; or the reservation does.
PhaseAStops(c, r) ==
  /\ phase[c] \in {"lock", "submitted"}
  /\ r = "wait" => phase[c] = "lock" /\ ~MarginLeft(c)
  /\ Engine!HtlcNotReady(c, r)
  /\ DropView(c)
  /\ UNCHANGED <<recorded, phase, chainVars>>

\* submitClaim; the node takes a claim of an unspent lock it knows, and is
\* content to be sent one it has already.
SubmitClaim(c) ==
  LET claim == <<"claim", call[c].cand>>
  IN /\ pc[c] = "htlc.reserve" /\ phase[c] = "lock"
     /\ MarginLeft(c)
     /\ height[<<"lock", call[c].cand>>] # Absent /\ ~Mined(<<"reclaim", call[c].cand>>)
     /\ height' = [height EXCEPT ![claim] = IF @ = Absent THEN NULL ELSE @]
     /\ Enter(c, "submitted") /\ DropView(c)
     /\ UNCHANGED <<engineVars, recorded, tip>>

\* Variant for the runs: the claim is recorded without its reservation.
ReserveSkipped(c) ==
  /\ phase[c] = "submitted"
  /\ pc[c] = "htlc.reserve"
  /\ Engine!Resume(c, "htlc.record")
  /\ UNCHANGED <<seen, consumed, goods, call, clock, claims>>
  /\ KeepForm /\ UNCHANGED chainVars

Reserve(c) ==
  /\ phase[c] = "submitted"
  /\ Engine!HtlcReserve(c)
  /\ KeepForm /\ UNCHANGED chainVars

\* claims.set, by the last of concurrent calls to get here.
Record(c) ==
  /\ recorded' = [recorded EXCEPT ![call[c].key] = call[c].cand]
  /\ Engine!HtlcRecord(c)
  /\ UNCHANGED <<phase, view, chainVars>>

\* Variant for the runs: a claim in any block is deep enough.
BuriedOnce(c) == Mined(<<"claim", view[c].prior>>)

\* Variant for the runs: one block more than CLAIM_MARGIN is asked for.
BuriedDeeper(c) ==
  LET claim == <<"claim", view[c].prior>>
  IN Mined(claim) /\ Depth(view[c].tip, height[claim]) > ClaimMargin

\* The claim on record, at the tip prepare was given.
Buried(c) ==
  LET claim == <<"claim", view[c].prior>>
  IN Mined(claim) /\ Depth(view[c].tip, height[claim]) >= ClaimMargin

ClaimBuried(c) ==
  /\ pc[c] = "honor.prepare" /\ phase[c] = "claim"
  /\ Buried(c)
  /\ Engine!HtlcClaimBuried(c)
  /\ DropView(c)
  /\ UNCHANGED <<recorded, phase, chainVars>>

\* reorg_withheld, or get_transaction throws.
PhaseBStops(c, r) ==
  /\ pc[c] = "honor.prepare" /\ phase[c] = "claim"
  /\ r = "wait" => ~Buried(c)
  /\ Engine!HtlcNotReady(c, r)
  /\ DropView(c)
  /\ UNCHANGED <<recorded, phase, chainVars>>

\* The gate promotes the outpoint scored in this call.
Gate(c, ret) ==
  /\ Engine!HonorGate(c, ret)
  /\ KeepForm /\ UNCHANGED chainVars

GateFails(c) ==
  /\ Engine!StoreFails(c)
  /\ KeepForm /\ UNCHANGED chainVars

\* Variant for the runs: the form is a singleton that outlives the engine.
RestartKeepsForm ==
  /\ Engine!Restart
  /\ phase' = [c \in Calls |-> "none"]
  /\ view' = [c \in Calls |-> NoView]
  /\ UNCHANGED <<recorded, chainVars>>

\* The process dies: the claims map goes with it.
Restart ==
  /\ Engine!Restart
  /\ recorded' = [k \in Keys |-> NULL]
  /\ phase' = [c \in Calls |-> "none"]
  /\ view' = [c \in Calls |-> NoView]
  /\ UNCHANGED chainVars

HonorStep(c) ==
  \/ \E k \in Keys : HonorStart(c, k)
  \/ \E o \in Outpoints : ScoreOk(c, o) \/ ScoreDeclines(c, o)
  \/ \E r \in {"wait", "adapter_error"} :
       ScoreNot(c, r) \/ PhaseAStops(c, r) \/ PhaseBStops(c, r)
  \/ PhaseA(c)
  \/ PhaseAUnready(c)
  \/ PhaseB(c)
  \/ TipFails(c)
  \/ SubmitClaim(c)
  \/ Reserve(c)
  \/ Record(c)
  \/ ClaimBuried(c)
  \/ GateFails(c)
  \/ \E ret \in Engine!DeliverReturns : Gate(c, ret)

ChainStep ==
  \/ \E o \in Outpoints : LockBroadcast(o)
  \/ \E mined \in SUBSET {t \in Txs : height[t] = NULL} : Block(mined)
  \/ \E depth \in 1..MaxReorgDepth :
       /\ depth <= tip
       /\ \E moved \in [Above(tip - depth) -> (tip - depth + 1)..(tip + 1) \cup {NULL, Absent}] :
            Reorg(moved)

Next ==
  \/ \E c \in Calls : HonorStep(c)
  \/ ChainStep
  \/ Restart

Spec == Init /\ [][Next]_vars

\* The loops call honor again and again, and every port answers in time.
FairSpec == Spec /\ \A c \in Calls : WF_vars(HonorStep(c))
-----------------------------------------------------------------------------
\* Goods for an HTLC quote rest on a claim of ours that binds and that no
\* tolerated reorganisation can reach, at the delivery and ever after, whatever
\* tips the reads were made at (htlc/reorg-withheld; R3).
DeliveredOnBuriedClaim ==
  \A k \in Keys : Engine!Honored(k) =>
    \E o \in Binding : /\ Mined(<<"claim", o>>)
                       /\ Depth(tip, height[<<"claim", o>>]) > MaxReorgDepth

\* A recorded claim has its outpoint reserved, or honored already: phase B's
\* promote has a row to promote (F13).
RecordedIsReserved ==
  \A k \in Keys : recorded[k] # NULL =>
    Engine!InState(recorded[k], "claim_pending") \/ Engine!InState(recorded[k], "honored")

\* A call ends with a port, or deliver, that failed, with no lock or a mismatched
\* one listed first, or with no preimage.
Excused(c) ==
  /\ pc[c] = "done"
  /\ \/ result[c] \in {"adapter_error", "store_error", "delivery_failed", "deliver_error", "async_deliver",
                       "unsettled"}
     \/ result[c] = "wait" /\ phase[c] = "none"

BuriedClaim(o) ==
  Mined(<<"claim", o>>) /\ Depth(tip, height[<<"claim", o>>]) >= ClaimMargin

\* A claim that stays recorded and buried delivers: honor is not withheld from
\* it forever, unless its lock stays unlisted or behind a mismatched one, a port
\* keeps throwing or deliver keeps failing.  The clock stands still here: in the
\* code a quote's window may also close first.
RecordedClaimDelivers ==
  \A k \in Keys :
    <>[](recorded[k] # NULL /\ BuriedClaim(recorded[k]))
      => <>Engine!Honored(k) \/ \E c \in Calls : []<>Excused(c)

\* docs/conformance/index.md, htlc/two-phase: reserve, promote, exactly one
\* delivery.  So a claim of ours that is buried for good delivers, also when
\* the process that submitted it has restarted, if it does not restart forever.
ClaimedIsDelivered ==
  \A k \in Keys, o \in Binding :
    <>[]BuriedClaim(o) =>
      \/ <>Engine!Honored(k)
      \/ \E c \in Calls : []<>Excused(c)
      \/ []<>(\A c \in Calls : pc[c] = "idle")
=============================================================================
