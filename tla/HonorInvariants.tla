--------------------------- MODULE HonorInvariants ---------------------------
(***************************************************************************)
(* The strengthenings that make the safety properties of HonorEngine       *)
(* inductive: HonorEngineProofs proves them for every instance.            *)
(***************************************************************************)
EXTENDS HonorEngine

\* The dates in quote_seen come from the signed quote, whoever wrote the row.
RowsInWindow ==
  \A k \in Keys : Present(k) =>
    seen[k].expiresAt = Expiry[k] /\ seen[k].retainUntil = Retain(k)

\* So do those in a call's locals, and no call is older than CallSpan.
CallsInWindow ==
  /\ clock <= MaxTime
  /\ \A c \in Calls : InFlight(c) =>
       call[c].now <= clock /\ clock <= call[c].now + CallSpan
  /\ \A c \in Calls : pc[c] \in {"honor.score"} \cup Carrying =>
       call[c].row = Retain(call[c].key)

\* The two rows of an honor are swept together, and a reservation never is.
RetentionInv ==
  /\ \A k \in Keys : Honored(k) => consumed[seen[k].honoredOut].retainUntil = Retain(k)
  /\ \A o \in Outpoints : InState(o, "claim_pending") => consumed[o].retainUntil = Forever

\* With TypeOK: what keeps the gate tables, the goods and the answers together.
GateInv ==
  /\ RowsInWindow
  /\ CallsInWindow
  /\ RetentionInv
  /\ GateMatchesGoods
  /\ AnswersAreTrue
-----------------------------------------------------------------------------
\* Past its retention and with no latch: a row that a call of the window can no
\* longer lock, also when it was swept and registered again.
Spent(k) ==
  /\ Retain(k) < clock
  /\ Present(k) => ~seen[k].observed /\ ~Honored(k)

\* What stops a second delivery of a quote: the honored latch, or that it is spent.
OnceInv ==
  /\ \A i \in DOMAIN goods : Honored(goods[i].key) \/ Spent(goods[i].key)
  /\ OneDeliveryPerQuote

\* What stops one payment from two: until the quote it paid is out of retention
\* its outpoint is consumed, by a row of that date.
PaymentInv ==
  /\ \A i \in DOMAIN goods :
       \/ Retain(goods[i].key) < clock
       \/ /\ InState(goods[i].out, "honored")
          /\ consumed[goods[i].out].retainUntil = Retain(goods[i].key)
  /\ OneDeliveryPerRetention
=============================================================================
