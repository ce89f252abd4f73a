------------------------- MODULE PostgresInvariants -------------------------
(***************************************************************************)
(* The strengthenings that make the safety properties of PostgresGate      *)
(* inductive: PostgresGateProofs proves them for every instance.           *)
(***************************************************************************)
EXTENDS PostgresGate

\* The sweep writes quote_seen first and the outpoints second.
SweepOrder ==
  /\ sweep.at = "idle" => sweep = IdleSweep
  /\ sweep.at = "first" => sweep.todo \cup sweep.doomed \subseteq Keys
  /\ sweep.at = "second" => sweep.todo \subseteq Outpoints
-----------------------------------------------------------------------------
\* The dates in quote_seen come from the signed quote, whoever wrote the row.
RowsInWindow ==
  \A k \in Keys : Present(k) =>
    seen[k].expiresAt = Expiry[k] /\ seen[k].retainUntil = Retain(k)

\* So do those in a call's snapshot, and no call is older than CallSpan.
CallsInWindow ==
  /\ clock <= MaxTime
  /\ \A c \in Calls : InFlight(c) =>
       /\ txn[c].row = Retain(txn[c].key)
       /\ txn[c].now <= clock /\ clock <= txn[c].now + CallSpan

\* The two rows of an honor fall due together, and a reservation never does.
RetentionInv ==
  /\ \A k \in Keys : Honored(k) => consumed[seen[k].honoredOut].retainUntil = Retain(k)
  /\ \A o \in Outpoints : InState(o, "claim_pending") => consumed[o].retainUntil = Forever

\* Rows the sweep has selected or deleted.
Chosen == sweep.todo \cup sweep.doomed

\* A quote the sweep must have selected: due, and once observed or honored, so
\* that it was there when the sweep began.
Touched(k) == Present(k) /\ (seen[k].observed \/ Honored(k))
DueKey(k) == Retain(k) < sweep.now

DueOutpoint(o) == InState(o, "honored") /\ consumed[o].retainUntil < sweep.now

\* What the sweep has chosen is due and stays due, although its two DELETEs
\* select at different times; and it misses nothing that is honored.
SweepInv ==
  sweep.at # "idle" =>
    /\ sweep.now <= clock
    /\ \A k \in Keys \cap Chosen : DueKey(k)
    /\ \A o \in Outpoints \cap Chosen : DueOutpoint(o)
    /\ \A k \in Keys : Touched(k) /\ DueKey(k) => k \in Chosen
    /\ sweep.at = "second" => \A o \in Outpoints : DueOutpoint(o) => o \in Chosen

\* With TypeOK and LockInv: what keeps the shared tables and the goods together.
SharedInv ==
  /\ SweepOrder
  /\ RowsInWindow
  /\ CallsInWindow
  /\ RetentionInv
  /\ SweepInv
  /\ GateMatchesGoods
-----------------------------------------------------------------------------
\* Past its retention and with no latch: a row that a call of the window can no
\* longer lock, also when it was swept and registered again.
Spent(k) == Retain(k) < clock /\ ~Touched(k)

\* What stops a second delivery of a quote: the honored latch, or that it is
\* spent; and of a payment, until the quote it paid is out of retention, a
\* consumed outpoint of that date.
OnceInv ==
  /\ \A i \in DOMAIN goods : Honored(goods[i].key) \/ Spent(goods[i].key)
  /\ \A i \in DOMAIN goods :
       \/ Retain(goods[i].key) < clock
       \/ /\ InState(goods[i].out, "honored")
          /\ consumed[goods[i].out].retainUntil = Retain(goods[i].key)
=============================================================================
