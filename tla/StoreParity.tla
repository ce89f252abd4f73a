---------------------------- MODULE StoreParity ----------------------------
(***************************************************************************)
(* What the engine's tests rely on: over SqliteStore and over FakeSyncStore *)
(* the engine meets the same store.                                        *)
(***************************************************************************)
EXTENDS HonorEngine

Ledger == {goods[i].key : i \in DOMAIN goods}

Fake == INSTANCE FakeStore WITH outpoints <- consumed, ledger <- Ledger

\* The slot's call went on with the store's answer, not with a throw of the
\* driver nor with the end of its process.
Answered(c, from) ==
  /\ pc[c] = from
  /\ pc'[c] \notin {from, "idle"}
  /\ result'[c] \notin Throws \ {"deliver_error", "async_deliver"}

\* The step's calls of the store, made on the fake.
SameOnFake ==
  /\ \A c \in Calls :
       LET k == call[c].key
           o == call[c].cand
       IN /\ Answered(c, "register.write") => Fake!UpsertAccepted(k, Expiry[k], Retain(k))
          /\ Answered(c, "observe.write") => Fake!MarkObservedBeforeExpiry(k, call[c].now)
          /\ pc[c] = "htlc.reserve" /\ pc'[c] = "htlc.record" =>
               Fake!ReserveClaimOutpoint(k, o)
          /\ Answered(c, "honor.gate") =>
               \E ret \in DeliverReturns :
                 /\ Fake!RunHonorTxn(k, o, call[c].now, call[c].row, GateMode(k), ret)
                 /\ result'[c] \in
                      Outcomes(Fake!Ends(k, o, call[c].now, call[c].row, GateMode(k), ret))
  /\ UNCHANGED <<clock, callVars>> =>
       \A now \in 0..clock : SweepTables(now) => Fake!Sweep(now)

\* Every call of the store that the engine makes does in the fake what it does
\* in SQLite, to the tables and to the answer, at any age of the call and after
\* any sweep (fakes.test-helpers.ts:2 "faithful ... model of the gate semantics").
TestStoreAgrees == [][SameOnFake]_vars
=============================================================================
