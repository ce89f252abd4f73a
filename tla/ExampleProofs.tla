---------------------------- MODULE ExampleProofs ----------------------------
(***************************************************************************)
(* The two programs that run on a testnet: the daemon's ledger, for any    *)
(* number of rounds, and the faucet's limits, for any number of requests.  *)
(***************************************************************************)
EXTENDS TestnetLoop, Faucet, FiniteSetTheorems, WellFoundedInduction, TLAPS

-----------------------------------------------------------------------------
(* The daemon.                                                             *)

LoopRow == [quoted : BOOLEAN, settled : BOOLEAN,
        status : {NULL, "honored", "declined", "failed"}]

LoopStates == {"none", "polling", "honored", "declined", "rejected"}

LoopTypeOK ==
  /\ pc \in InRound \cup {"down", "boot", "top"}
  /\ rows \in Seq(LoopRow) /\ Len(rows) <= MaxRounds
  /\ deliveries \subseteq Rounds
  /\ cut \subseteq DOMAIN rows
  /\ loops \in [Rounds -> LoopStates]
  /\ pay \in [Rounds -> {"none", "pending", "buried", "dropped"}]

\* A round that has not settled has no payment.
Unpaid(r) == r > Len(rows) \/ (r = Len(rows) /\ pc \in InRound \ {"await"})

\* A running round has an open row; no earlier row is open but by a cut; and an
\* onPaid loop says honored for delivered goods.
LoopInv ==
  /\ LoopTypeOK
  /\ pc \in InRound => rows # <<>> /\ rows[Len(rows)].status = NULL
  /\ \A r \in Rounds : loops[r] = "honored" => r \in deliveries
  /\ \A r \in Rounds : Unpaid(r) => pay[r] = "none"
  /\ LedgerIsTrue

\* The catch of main closes the newest row and touches no other, nor a closed one
\* (loop.ts:461-465).
LEMMA LabelCloses ==
  ASSUME NEW rs \in Seq(LoopRow)
  PROVE  /\ LabelFailed(rs) \in Seq(LoopRow)
         /\ Len(LabelFailed(rs)) = Len(rs) /\ DOMAIN LabelFailed(rs) = DOMAIN rs
         /\ rs # <<>> => LabelFailed(rs)[Len(rs)].status # NULL
         /\ \A i \in DOMAIN rs :
              /\ rs[i].status # NULL => LabelFailed(rs)[i].status = rs[i].status
              /\ i # Len(rs) => LabelFailed(rs)[i] = rs[i]
              /\ LabelFailed(rs)[i].status = "honored" => rs[i].status = "honored"
<1> DEFINE n == Len(rs)
           closed == [rs[n] EXCEPT !.status = "failed"]
<1>1. CASE rs # <<>> /\ rs[n].status = NULL
  <2>1. n \in DOMAIN rs /\ rs[n] \in LoopRow
    BY <1>1
  <2>2. closed \in LoopRow /\ closed.status = "failed"
    BY <2>1 DEF LoopRow
  <2>3. LabelFailed(rs) = [rs EXCEPT ![n] = closed]
    BY <1>1 DEF LabelFailed
  <2> HIDE DEF closed
  <2>4. LabelFailed(rs) \in Seq(LoopRow) /\ Len(LabelFailed(rs)) = n /\ DOMAIN LabelFailed(rs) = DOMAIN rs
    BY <2>1, <2>2, <2>3
  <2>5. \A i \in DOMAIN rs : LabelFailed(rs)[i] = IF i = n THEN closed ELSE rs[i]
    BY <2>1, <2>3
  <2> QED
    BY <1>1, <2>1, <2>2, <2>4, <2>5, LoopConstants
<1>2. CASE ~(rs # <<>> /\ rs[n].status = NULL)
  BY <1>2 DEF LabelFailed
<1> QED
  BY <1>1, <1>2

\* Initially there is no row.
LEMMA LoopInitially == Init => LoopInv
BY LoopConstants DEF Init, LoopInv, LoopTypeOK, LedgerIsTrue, Rounds, LoopStates, InRound, Unpaid

\* The end of the process keeps the ledger true: what was open counts as cut.
LEMMA ExitKeepsInv == LoopInv /\ Exit => LoopInv'
BY LoopConstants DEF LoopInv, LoopTypeOK, LedgerIsTrue, Exit, store, world, Rounds,
   LoopStates, InRound, LoopRow, Unpaid

\* Rounds that fail, before their row or after it, keep the ledger true.
LEMMA FailingKeepsInv == LoopInv /\ RoundFails => LoopInv'
<1> SUFFICES ASSUME LoopInv, RoundFails PROVE LoopInv'
  OBVIOUS
<1>1. /\ rows \in Seq(LoopRow) /\ rows' = LabelFailed(rows) /\ pc' = "top"
      /\ UNCHANGED <<deliveries, loops, pay, cut>>
  BY DEF LoopInv, LoopTypeOK, RoundFails, store, world
<1>2. /\ rows' \in Seq(LoopRow) /\ Len(rows') = Len(rows) /\ DOMAIN rows' = DOMAIN rows
      /\ rows # <<>> => rows'[Len(rows)].status # NULL
      /\ \A i \in DOMAIN rows :
           /\ i # Len(rows) => rows'[i] = rows[i]
           /\ rows'[i].status = "honored" => rows[i].status = "honored"
  BY <1>1, LabelCloses
<1>3. LoopTypeOK'
  BY <1>1, <1>2 DEF LoopInv, LoopTypeOK
<1>4. LedgerIsTrue'
  BY <1>1, <1>2 DEF LoopInv, LoopTypeOK, LedgerIsTrue, Current
<1>5. \A r \in Rounds : Unpaid(r)' => pay'[r] = "none"
  BY <1>1, <1>2 DEF LoopInv, Unpaid, InRound
<1> QED
  BY <1>1, <1>3, <1>4, <1>5 DEF LoopInv, InRound

\* The settlement's row is marked, and the round awaits or has failed.
LEMMA SettlingKeepsInv == LoopInv /\ Settle => LoopInv'
<1> SUFFICES ASSUME LoopInv, Settle PROVE LoopInv'
  OBVIOUS
<1>0. /\ Current \in Rounds /\ Current \in DOMAIN rows /\ rows \in Seq(LoopRow)
      /\ pay' \in [Rounds -> {"none", "pending", "buried", "dropped"}]
      /\ UNCHANGED <<deliveries, loops, cut>>
  BY LoopConstants DEF LoopInv, LoopTypeOK, Settle, Rounds, Current, InRound, store
<1>1. \A r \in Rounds : r # Current => pay'[r] = pay[r]
  BY <1>0 DEF Settle, LoopInv, LoopTypeOK
<1>2. Current \notin deliveries
  BY <1>0 DEF LoopInv, LedgerIsTrue, Unpaid, Settle, InRound, Current
<1>3. \A r \in deliveries : pay'[r] = "buried"
  BY <1>1, <1>2 DEF LoopInv, LoopTypeOK, LedgerIsTrue
<1>4. \A r \in Rounds : r > Len(rows) => pay'[r] = "none"
  <2> SUFFICES ASSUME NEW r \in Rounds, r > Len(rows) PROVE pay'[r] = "none"
    OBVIOUS
  <2>1. r # Current /\ Unpaid(r)
    BY <1>0 DEF Current, Unpaid, Rounds
  <2> QED
    BY <1>1, <2>1 DEF LoopInv
<1>5. /\ rows' \in Seq(LoopRow) /\ Len(rows') = Len(rows) /\ DOMAIN rows' = DOMAIN rows
      /\ \A i \in DOMAIN rows :
           /\ i # Len(rows) => rows'[i] = rows[i]
           /\ rows'[i].status = "honored" => rows[i].status = "honored"
      /\ pc' = "await" => rows'[Len(rows)].status = rows[Len(rows)].status
      /\ pc' = "top" => rows'[Len(rows)].status # NULL
  <2>1. CASE pc' = "await" /\ rows' = [rows EXCEPT ![Current].settled = TRUE]
    <3> DEFINE marked == [rows[Current] EXCEPT !.settled = TRUE]
    <3>0. rows[Current] \in LoopRow
      BY <1>0
    <3>1. marked \in LoopRow /\ marked.status = rows[Current].status
      BY <3>0 DEF LoopRow
    <3>2. rows' = [rows EXCEPT ![Current] = marked]
      BY <2>1
    <3> HIDE DEF marked
    <3>3. Current = Len(rows)
      BY DEF Current
    <3>4. rows' \in Seq(LoopRow) /\ Len(rows') = Len(rows) /\ DOMAIN rows' = DOMAIN rows
      BY <1>0, <3>1, <3>2
    <3>5. \A i \in DOMAIN rows : rows'[i] = IF i = Current THEN marked ELSE rows[i]
      BY <1>0, <3>2
    <3> QED
      BY <1>0, <2>1, <3>1, <3>3, <3>4, <3>5
  <2>2. CASE pc' = "top" /\ rows' = LabelFailed(rows)
    BY <1>0, <2>2, LabelCloses DEF Current
  <2> QED
    BY <2>1, <2>2 DEF Settle
<1>6. pc' \in {"await", "top"} /\ pc = "settle" /\ pc \in InRound
  BY DEF Settle, InRound
<1>7. LoopTypeOK'
  BY <1>0, <1>5, <1>6 DEF LoopInv, LoopTypeOK, InRound
<1>8. LedgerIsTrue'
  <2>1. \A r \in DOMAIN rows' : rows'[r].status = "honored" => r \in deliveries'
    BY <1>0, <1>5 DEF LoopInv, LedgerIsTrue
  <2>2. ASSUME NEW r \in DOMAIN rows', rows'[r].status = NULL
        PROVE  r \in cut' \/ (r = Len(rows') /\ pc' \in InRound)
    <3>1. CASE r = Len(rows)
      BY <1>5, <1>6, <2>2, <3>1 DEF InRound
    <3>2. CASE r # Len(rows)
      BY <1>0, <1>5, <2>2, <3>2 DEF LoopInv, LedgerIsTrue, Current
    <3> QED
      BY <3>1, <3>2
  <2> QED
    BY <1>0, <1>3, <2>1, <2>2 DEF LedgerIsTrue, Current
<1>9. \A r \in Rounds : Unpaid(r)' => pay'[r] = "none"
  BY <1>4, <1>5, <1>6 DEF Unpaid, InRound
<1> QED
  BY <1>0, <1>5, <1>6, <1>7, <1>8, <1>9 DEF LoopInv, InRound

\* A tick on which everything answers delivers only for a buried payment.
LEMMA TickKeepsInv ==
  ASSUME LoopInv, NEW r \in Rounds, Tick(r) PROVE LoopInv'
<1>1. /\ deliveries' \in {deliveries, deliveries \cup {r}}
      /\ deliveries' # deliveries => pay[r] = "buried"
      /\ loops' \in [Rounds -> LoopStates]
      /\ \A q \in Rounds : loops'[q] = "honored" => q \in deliveries'
  BY DEF LoopInv, LoopTypeOK, Tick, LoopStates
<1>2. UNCHANGED <<pc, rows, pay, cut>>
  BY DEF Tick, world
<1> QED
  BY <1>1, <1>2 DEF LoopInv, LoopTypeOK, LedgerIsTrue, Unpaid, Current

\* A tick that is to be tried again delivers nothing.
LEMMA RetryKeepsInv ==
  ASSUME LoopInv, NEW r \in Rounds, TickRetries(r) PROVE LoopInv'
<1>1. UNCHANGED <<pc, rows, deliveries, loops, pay, cut>>
  BY DEF TickRetries, world
<1> QED
  BY <1>1 DEF LoopInv, LoopTypeOK, LedgerIsTrue, Unpaid, Current

\* A rejected loop ends the round that awaits it, or the process.
LEMMA FaultKeepsInv ==
  ASSUME LoopInv, NEW r \in Rounds, ChainFault(r) PROVE LoopInv'
BY ExitKeepsInv, LoopConstants
   DEF LoopInv, LoopTypeOK, LedgerIsTrue, ChainFault, store, world, Rounds,
       LoopStates, InRound, Unpaid, Current

\* The chain and the clock touch no row.
LEMMA WorldKeepsInv ==
  ASSUME LoopInv, NEW r \in Rounds, TimePasses(r) \/ PaymentMoves(r) PROVE LoopInv'
BY LoopConstants DEF LoopInv, LoopTypeOK, LedgerIsTrue, TimePasses, PaymentMoves, store,
   Rounds, InRound, Unpaid, Current

\* The new row is open, and its round runs.
LEMMA StartKeepsInv == LoopInv /\ StartRound => LoopInv'
BY LoopConstants DEF LoopInv, LoopTypeOK, LedgerIsTrue, StartRound, store, world,
   Rounds, InRound, Unpaid, Current, LoopRow

\* The row gets its quote, and keeps its status.
LEMMA IssuedRow ==
  ASSUME LoopInv, IssueQuote
  PROVE  /\ rows' \in Seq(LoopRow) /\ Len(rows') = Len(rows) /\ DOMAIN rows' = DOMAIN rows
         /\ \A i \in DOMAIN rows : rows'[i].status = rows[i].status
<1> DEFINE marked == [rows[Current] EXCEPT !.quoted = TRUE]
<1>0. /\ rows \in Seq(LoopRow) /\ Current \in DOMAIN rows
      /\ rows' = [rows EXCEPT ![Current] = marked]
  BY DEF LoopInv, LoopTypeOK, IssueQuote, Goes, InRound, Current
<1>1. rows[Current] \in LoopRow
  BY <1>0
<1>2. marked \in LoopRow /\ marked.status = rows[Current].status
  BY <1>1 DEF LoopRow
<1> HIDE DEF marked
<1>3. rows' \in Seq(LoopRow) /\ Len(rows') = Len(rows) /\ DOMAIN rows' = DOMAIN rows
  BY <1>0, <1>2
<1>4. \A i \in DOMAIN rows : rows'[i] = IF i = Current THEN marked ELSE rows[i]
  BY <1>0
<1> QED
  BY <1>2, <1>3, <1>4

\* So the ledger stays true.
LEMMA IssueKeepsInv == LoopInv /\ IssueQuote => LoopInv'
<1> SUFFICES ASSUME LoopInv, IssueQuote PROVE LoopInv'
  OBVIOUS
<1> QED
  BY IssuedRow DEF LoopInv, LoopTypeOK, LedgerIsTrue, IssueQuote, Goes, store, world,
     InRound, Unpaid, Current

\* The end of the await closes the newest row with what the loop answered.
LEMMA AwaitedRow ==
  ASSUME LoopInv, AwaitDone
  PROVE  /\ rows' \in Seq(LoopRow) /\ Len(rows') = Len(rows) /\ DOMAIN rows' = DOMAIN rows
         /\ \A i \in DOMAIN rows : i # Len(rows) => rows'[i] = rows[i]
         /\ rows'[Len(rows)].status # NULL
         /\ rows'[Len(rows)].status = "honored" => loops[Len(rows)] = "honored"
<1>0. /\ rows \in Seq(LoopRow) /\ Current = Len(rows) /\ Current \in DOMAIN rows
      /\ Current \in Rounds /\ rows[Current].status = NULL
      /\ loops[Current] \in {"honored", "declined", "rejected"}
  BY LoopConstants DEF LoopInv, LoopTypeOK, AwaitDone, InRound, Current, Rounds, LoopStates
<1>1. CASE loops[Current] = "rejected"
  <2>1. rows' = LabelFailed(rows)
    BY <1>1 DEF AwaitDone
  <2> QED
    BY <1>0, <1>1, <2>1, LabelCloses, LoopConstants
<1>2. CASE loops[Current] \in {"honored", "declined"}
  <2> DEFINE closed == [rows[Current] EXCEPT !.status = loops[Current]]
             stored == [rows EXCEPT ![Current] = closed]
  <2>1. rows[Current] \in LoopRow
    BY <1>0
  <2>2. closed \in LoopRow /\ closed.status = loops[Current]
    BY <1>2, <2>1 DEF LoopRow
  <2>3. rows' = stored \/ rows' = LabelFailed(stored)
    BY <1>2 DEF AwaitDone
  <2> HIDE DEF closed
  <2>4. stored \in Seq(LoopRow) /\ Len(stored) = Len(rows) /\ DOMAIN stored = DOMAIN rows
    BY <1>0, <2>2
  <2>5. \A i \in DOMAIN rows : stored[i] = IF i = Current THEN closed ELSE rows[i]
    BY <1>0
  <2>6. stored[Len(stored)].status # NULL
    BY <1>0, <1>2, <2>2, <2>4, <2>5, LoopConstants
  <2> HIDE DEF stored
  <2>7. LabelFailed(stored) = stored
    BY <2>6 DEF LabelFailed
  <2> QED
    BY <1>0, <2>2, <2>3, <2>4, <2>5, <2>6, <2>7
<1> QED
  BY <1>0, <1>1, <1>2

\* So the ledger stays true, and the round is over.
LEMMA AwaitKeepsInv == LoopInv /\ AwaitDone => LoopInv'
<1> SUFFICES ASSUME LoopInv, AwaitDone PROVE LoopInv'
  OBVIOUS
<1>1. Len(rows) \in DOMAIN rows /\ Len(rows) \in Rounds
  BY LoopConstants DEF LoopInv, LoopTypeOK, AwaitDone, InRound, Rounds
<1>2. /\ pc' = "top" /\ pc = "await" /\ loops' = loops /\ pay' = pay /\ deliveries' = deliveries
      /\ cut' = cut
  BY DEF AwaitDone, store, world
<1>3. LoopTypeOK'
  BY <1>2, AwaitedRow DEF LoopInv, LoopTypeOK, InRound
<1>4. \A r \in Rounds : Unpaid(r)' => Unpaid(r)
  BY <1>2, AwaitedRow DEF Unpaid, InRound
<1>5. \A r \in DOMAIN rows' : rows'[r].status = "honored" => r \in deliveries'
  <2>1. Len(rows) \in Rounds /\ (loops[Len(rows)] = "honored" => Len(rows) \in deliveries)
    BY <1>1 DEF LoopInv
  <2> QED
    BY <1>2, <2>1, AwaitedRow DEF LoopInv, LedgerIsTrue
<1>6. \A r \in DOMAIN rows' : rows'[r].status = NULL => r \in cut'
  <2>1. \A r \in DOMAIN rows : rows'[r].status = NULL => r # Len(rows) /\ rows[r].status = NULL
    BY AwaitedRow
  <2> QED
    BY <1>2, <2>1, AwaitedRow DEF LoopInv, LedgerIsTrue, Current
<1>7. LedgerIsTrue'
  BY <1>2, <1>5, <1>6 DEF LoopInv, LedgerIsTrue
<1> QED
  BY <1>2, <1>3, <1>4, <1>7 DEF LoopInv, InRound

\* The steps that touch no row.
LEMMA QuietKeepsInv ==
  /\ LoopInv
  /\ \/ Boot \/ (\E role \in {"payee", "payer"} : EnsureIdentity(role)) \/ Start
     \/ EnsureBuyerFunded \/ AcceptQuote \/ BuyerVerifies \/ AnsweringTurns
     \/ UNCHANGED vars
  => LoopInv'
BY LoopConstants DEF LoopInv, LoopTypeOK, LedgerIsTrue, Boot, EnsureIdentity, Start,
   EnsureBuyerFunded, AcceptQuote, BuyerVerifies, AnsweringTurns, Goes, vars, store, world, LoopStates,
   Rounds, InRound, Unpaid, Current

\* Every step keeps the ledger true.
LEMMA LoopStep == LoopInv /\ [Next]_vars => LoopInv'
BY ExitKeepsInv, FailingKeepsInv, SettlingKeepsInv, TickKeepsInv, RetryKeepsInv,
   FaultKeepsInv, WorldKeepsInv, StartKeepsInv, IssueKeepsInv, AwaitKeepsInv, QuietKeepsInv
   DEF Next, Shutdown

\* The ledger says what happened, for any number of rounds, restarts and faults
\* (loop.ts:325-330, 358-369, 456-466).
THEOREM LedgerHolds == Spec => []LedgerIsTrue
<1>1. LoopInv => LedgerIsTrue
  BY DEF LoopInv
<1> QED
  BY LoopInitially, LoopStep, <1>1, PTL DEF Spec

\* Only the newest row is ever written, and a closed one keeps its status.
LEMMA StatusStep ==
  ASSUME LoopInv, [Next]_vars
  PROVE  \A r \in DOMAIN rows : rows[r].status # NULL => rows'[r].status = rows[r].status
<1>0. rows \in Seq(LoopRow)
  BY DEF LoopInv, LoopTypeOK
<1>1. CASE RoundFails
  BY <1>0, <1>1, LabelCloses DEF RoundFails
<1>2. CASE Settle
  <2>1. Current \in DOMAIN rows /\ rows[Current].status = NULL
    BY <1>2 DEF LoopInv, LoopTypeOK, Settle, InRound, Current
  <2>2. CASE rows' = [rows EXCEPT ![Current].settled = TRUE]
    BY <1>0, <2>1, <2>2
  <2>3. CASE rows' = LabelFailed(rows)
    BY <1>0, <2>3, LabelCloses
  <2> QED
    BY <1>2, <2>2, <2>3 DEF Settle
<1>3. CASE AwaitDone
  <2>1. rows[Len(rows)].status = NULL
    BY <1>3 DEF LoopInv, AwaitDone, InRound
  <2> QED
    BY <1>3, <2>1, AwaitedRow
<1>4. CASE IssueQuote
  BY <1>4, IssuedRow
<1>5. CASE StartRound
  BY <1>0, <1>5 DEF StartRound
<1>6. CASE rows' = rows
  BY <1>6
<1>7. RoundFails \/ Settle \/ AwaitDone \/ IssueQuote \/ StartRound \/ rows' = rows
  BY DEF Next, vars, Boot, EnsureIdentity, Start, EnsureBuyerFunded, AcceptQuote,
     BuyerVerifies, Tick, TickRetries, AnsweringTurns, ChainFault, TimePasses, PaymentMoves, Shutdown, Exit
<1> QED
  BY <1>1, <1>2, <1>3, <1>4, <1>5, <1>6, <1>7

\* A closed round is never relabelled, for any number of rounds, restarts and
\* faults (loop.ts:461-465).
THEOREM StatusHolds == Spec => StatusIsFinal
BY LoopInitially, LoopStep, StatusStep, PTL DEF Spec, StatusIsFinal
-----------------------------------------------------------------------------
(* The faucet, for any number of requests at once, clients and limits.     *)

AllDrips == [address : Addresses, ip : Ips, at : Nat, during : SUBSET (Addresses \X Nat)]

\* The requests that are being served, and the rows that the budget counts.
Busy == {s \in Slots : serving[s] # "idle"}
Window == {r \in drips : r.at >= clock - Day}

\* Nothing of the faucet is later than its clock, and a slot that serves has a drip.
DripsTyped ==
  /\ clock \in Nat
  /\ serving \in [Slots -> {"idle", "paying", "paid"}]
  /\ drip \in [Slots -> AllDrips \cup {NoDrip}]
  /\ \A s \in Slots : serving[s] = "idle" <=> drip[s] = NoDrip
  /\ \A s \in Slots : drip[s] # NoDrip => drip[s].at <= clock
  /\ transfers \subseteq AllDrips
  /\ \A d \in transfers : d.at <= clock
  /\ IsFiniteSet(drips)
  /\ \A r \in drips : r.at \in Nat /\ r.at <= clock

\* A token is executed once; and what is executed is recorded, or will be when its
\* answer comes, or is lost.
PaidInv ==
  /\ \A d, e \in transfers : Token(d) = Token(e) => d = e
  /\ \A s \in Slots : serving[s] = "paid" =>
       \E t \in transfers : Token(t) = Token(drip[s])
  /\ \A r \in drips : \E t \in transfers : Token(t) = Token(r)
  /\ \A d \in transfers :
       \/ Token(d) \in lost
       \/ \E r \in drips : Token(r) = Token(d)
       \/ \E s \in Slots : serving[s] = "paid" /\ Token(drip[s]) = Token(d)

\* What the budget admitted: the rows it counts and all that is served now are within
\* the budget but for the requests that were let in beside one another.
BudgetInv ==
  DailyBudget > 0 =>
    Amount * (Cardinality(Window) + Cardinality(Busy))
      <= DailyBudget + Amount * (Cardinality(Slots) - 1)

\* CooldownHolds of the drips being served too, executed already or not.
Known == transfers \cup {drip[s] : s \in Busy}
CoolInv ==
  \A d, e \in Known :
    (d.address = e.address /\ d.at < e.at /\ e.at - d.at < AddrCooldown)
      => Token(d) \in e.during \cup lost

LEMMA FaucetTypes ==
  /\ Amount \in Nat /\ DailyBudget \in Nat /\ Day \in Nat
  /\ AddrCooldown \in Nat /\ IpCooldown \in Nat
  /\ IsFiniteSet(Slots) /\ Slots # {} /\ NoDrip \notin AllDrips
  BY FaucetConstants DEF AllDrips

\* A finite or a bounded set of times has its latest.
LEMMA Latest ==
  ASSUME NEW T \in SUBSET Nat, T # {}, NEW n \in Nat, \A t \in T : t <= n
  PROVE  \E t \in T : \A u \in T : u <= t
<1> DEFINE D == {n - t : t \in T}
<1>0. \A u \in T : u \in Nat /\ u <= n /\ n - u \in Nat
  OBVIOUS
<1>1. D \subseteq Nat /\ D # {}
  <2>1. PICK u \in T : TRUE
    OBVIOUS
  <2>2. n - u \in D
    BY <2>1
  <2> QED
    BY <1>0, <2>2
<1>2. PICK x \in D : \A y \in D : ~(<<y, x>> \in OpToRel(<, Nat))
  BY <1>1, NatLessThanWellFounded, WFMin
<1>3. \A y \in D : ~(y < x)
  BY <1>1, <1>2 DEF OpToRel
<1>4. PICK t \in T : x = n - t
  OBVIOUS
<1>5. \A u \in T : n - u \in D /\ ~(n - u < n - t)
  BY <1>3, <1>4
<1>6. \A u \in T : u <= t
  BY <1>0, <1>5
<1> QED
  BY <1>6

LEMMA Times ==
  ASSUME NEW a \in Nat, NEW x \in Int, NEW y \in Int, x <= y
  PROVE  a * x <= a * y
  OBVIOUS

FaucetInv == DripsTyped /\ PaidInv /\ BudgetInv /\ CoolInv

\* The sets that are counted are finite, and what is known is typed.
LEMMA CountsTyped ==
  ASSUME DripsTyped
  PROVE  /\ IsFiniteSet(Window) /\ Cardinality(Window) \in Nat
         /\ IsFiniteSet(Busy) /\ Cardinality(Busy) \in Nat
         /\ Cardinality(Slots) \in Nat /\ Cardinality(Busy) <= Cardinality(Slots)
         /\ Cardinality(Slots) >= 1
         /\ Known \subseteq AllDrips /\ \A d \in Known : d.at <= clock
<1>1. IsFiniteSet(Slots) /\ IsFiniteSet(drips) /\ Slots # {}
  BY FaucetTypes DEF DripsTyped
<1>2. Window \subseteq drips /\ Busy \subseteq Slots
  BY DEF Window, Busy
<1>3. /\ IsFiniteSet(Window) /\ IsFiniteSet(Busy)
      /\ Cardinality(Busy) <= Cardinality(Slots)
  BY <1>1, <1>2, FS_Subset
<1>4. /\ Cardinality(Window) \in Nat /\ Cardinality(Busy) \in Nat
      /\ Cardinality(Slots) \in Nat
  BY <1>1, <1>3, FS_CardinalityType
<1>5. Cardinality(Slots) # 0
  BY <1>1, FS_EmptySet
<1>6. \A s \in Busy : drip[s] \in AllDrips /\ drip[s].at <= clock
  BY DEF DripsTyped, Busy
<1>7. Known \subseteq AllDrips /\ \A d \in Known : d.at <= clock
  BY <1>6 DEF DripsTyped, Known
<1> QED
  BY <1>3, <1>4, <1>5, <1>7

\* A row of the address inside the cooldown closes the address: the latest one is
\* inside it too (faucet.ts:107-111).
LEMMA RecordedCools ==
  ASSUME DripsTyped, NEW a, NEW r \in drips, r.address = a, clock - r.at < AddrCooldown
  PROVE  Cooling({d \in drips : d.address = a}, AddrCooldown, clock)
<1> DEFINE D == {d \in drips : d.address = a}
           T == {d.at : d \in D}
<1>1. \A d \in D : d.at \in Nat /\ d.at <= clock
  BY DEF DripsTyped
<1>2. r \in D /\ r.at \in T
  OBVIOUS
<1>3. T \in SUBSET Nat /\ T # {} /\ clock \in Nat /\ \A t \in T : t <= clock
  BY <1>1, <1>2 DEF DripsTyped
<1> HIDE DEF T
<1>4. PICK t \in T : \A u \in T : u <= t
  BY <1>3, Latest
<1>5. PICK d \in D : d.at = t
  BY DEF T
<1>6. \A e \in D : e.at <= d.at
  BY <1>4, <1>5 DEF T
<1>7. clock - d.at < AddrCooldown
  <2>1. r.at <= d.at /\ r.at \in Nat /\ d.at \in Nat /\ clock \in Nat /\ AddrCooldown \in Nat
    BY <1>1, <1>2, <1>6, FaucetTypes DEF DripsTyped
  <2> QED
    BY <2>1
<1> QED
  BY <1>5, <1>6, <1>7 DEF Cooling

LEMMA AdmitKeeps ==
  ASSUME FaucetInv, NEW s \in Slots, NEW a \in Addresses, NEW i \in Ips,
         Admit(s, a, i)
  PROVE  FaucetInv'
<1> DEFINE n == Drip(a, i, clock, InFlight)
<1>1. /\ serving[s] = "idle" /\ ~RateLimited(a, i, clock)
      /\ serving' = [serving EXCEPT ![s] = "paying"]
      /\ drip' = [drip EXCEPT ![s] = n]
      /\ UNCHANGED <<clock, drips, transfers, lost>>
  BY DEF Admit
<1>2. InFlight = {Token(drip[t]) : t \in Busy}
  BY DEF InFlight, Busy
<1>3. n \in AllDrips /\ n.at = clock /\ n.address = a /\ n.during = InFlight
  <2>1. \A t \in Busy : Token(drip[t]) \in Addresses \X Nat
    BY DEF FaucetInv, DripsTyped, Busy, AllDrips, Token
  <2>2. InFlight \in SUBSET (Addresses \X Nat) /\ clock \in Nat
    BY <1>2, <2>1 DEF FaucetInv, DripsTyped
  <2> QED
    BY <2>2 DEF Drip, AllDrips
<1>4. n # NoDrip
  BY <1>3, FaucetTypes DEF FaucetInv, DripsTyped
<1> HIDE DEF n
<1>5. \A t \in Slots : /\ serving'[t] = IF t = s THEN "paying" ELSE serving[t]
                       /\ drip'[t] = IF t = s THEN n ELSE drip[t]
  BY <1>1 DEF FaucetInv, DripsTyped
<1>6. DripsTyped'
  <2>1. /\ serving' \in [Slots -> {"idle", "paying", "paid"}]
        /\ drip' \in [Slots -> AllDrips \cup {NoDrip}]
    BY <1>1, <1>3 DEF FaucetInv, DripsTyped
  <2>2. /\ \A t \in Slots : serving'[t] = "idle" <=> drip'[t] = NoDrip
        /\ \A t \in Slots : drip'[t] # NoDrip => drip'[t].at <= clock
    BY <1>3, <1>4, <1>5 DEF FaucetInv, DripsTyped
  <2> QED
    BY <1>1, <2>1, <2>2 DEF FaucetInv, DripsTyped
<1>7. PaidInv'
  <2>1. \A t \in Slots : serving'[t] = "paid" <=> serving[t] = "paid"
    BY <1>1, <1>5
  <2>2. \A t \in Slots : serving[t] = "paid" => drip'[t] = drip[t]
    BY <1>1, <1>5
  <2> QED
    BY <1>1, <2>1, <2>2 DEF FaucetInv, PaidInv, Token
<1>8. BudgetInv'
  <2>1. SUFFICES ASSUME DailyBudget > 0
                 PROVE  Amount * (Cardinality(Window') + Cardinality(Busy'))
                          <= DailyBudget + Amount * (Cardinality(Slots) - 1)
    BY DEF BudgetInv
  <2>2. Window' = Window
    BY <1>1 DEF Window
  <2>3. Amount * Cardinality(Window) + Amount <= DailyBudget
    <3>1. ~(Amount * Cardinality(Window) + Amount > DailyBudget)
      BY <1>1, <2>1 DEF RateLimited, Window
    <3> QED
      BY <3>1, CountsTyped, FaucetTypes DEF FaucetInv, DripsTyped
  <2>4. /\ Cardinality(Busy') \in Nat /\ Cardinality(Slots) \in Nat
        /\ Cardinality(Busy') <= Cardinality(Slots)
    <3>1. IsFiniteSet(Slots) /\ Busy' \subseteq Slots
      BY FaucetTypes DEF FaucetInv, DripsTyped, Busy
    <3> QED
      BY <3>1, FS_Subset, FS_CardinalityType
  <2>5. Cardinality(Window) \in Nat /\ Amount \in Nat /\ DailyBudget \in Nat
    BY CountsTyped, FaucetTypes DEF FaucetInv, DripsTyped
  <2>6. Amount * Cardinality(Busy') <= Amount * Cardinality(Slots)
    BY <2>4, <2>5, Times
  <2> QED
    BY <2>2, <2>3, <2>4, <2>5, <2>6
<1>9. CoolInv'
  <2>1. Known' \subseteq Known \cup {n}
    BY <1>1, <1>5 DEF Known, Busy
  <2>2. ASSUME NEW d \in Known, d.address = a, d.at < clock, clock - d.at < AddrCooldown
        PROVE  Token(d) \in n.during \cup lost
    <3>1. ASSUME NEW t \in Busy, Token(drip[t]) = Token(d)
          PROVE  Token(d) \in n.during
      BY <1>2, <1>3, <3>1
    <3>2. CASE d \in transfers
      <4>1. ASSUME NEW r \in drips, Token(r) = Token(d)
            PROVE  FALSE
        <5>1. r.address = a /\ r.at = d.at
          BY <2>2, <4>1 DEF Token
        <5>2. Cooling({x \in drips : x.address = a}, AddrCooldown, clock)
          BY <2>2, <5>1, RecordedCools DEF FaucetInv
        <5> QED
          BY <1>1, <5>2 DEF RateLimited
      <4>2. \A t \in Slots : serving[t] = "paid" => t \in Busy
        BY DEF Busy
      <4> QED
        BY <3>1, <3>2, <4>1, <4>2 DEF FaucetInv, PaidInv
    <3>3. CASE d \in {drip[t] : t \in Busy}
      BY <3>1, <3>3
    <3> QED
      BY <3>2, <3>3 DEF Known
  <2>3. \A d \in Known : d.at \in Nat /\ d.at <= clock
    BY CountsTyped DEF FaucetInv, AllDrips
  <2>4. SUFFICES ASSUME NEW d \in Known \cup {n}, NEW e \in Known \cup {n},
                        d.address = e.address, d.at < e.at, e.at - d.at < AddrCooldown
                 PROVE  Token(d) \in e.during \cup lost
    BY <1>1, <2>1 DEF CoolInv, Token
  <2>5. d # n
    BY <1>3, <2>3, <2>4 DEF FaucetInv, DripsTyped
  <2>6. CASE e = n
    BY <1>3, <2>2, <2>4, <2>5, <2>6
  <2>7. CASE e \in Known
    BY <2>4, <2>5, <2>7 DEF FaucetInv, CoolInv
  <2> QED
    BY <2>4, <2>6, <2>7
<1> QED
  BY <1>6, <1>7, <1>8, <1>9 DEF FaucetInv

\* A drip that goes from the slots takes nothing with it that the cooldown rests on.
LEMMA CoolKept ==
  ASSUME CoolInv, Known' \subseteq Known, lost \subseteq lost'
  PROVE  CoolInv'
  BY DEF CoolInv, Token

\* Fewer rows and requests to count keep the budget.
LEMMA BudgetKept ==
  ASSUME DripsTyped, BudgetInv, DripsTyped',
         Cardinality(Window') + Cardinality(Busy') <= Cardinality(Window) + Cardinality(Busy)
  PROVE  BudgetInv'
<1>1. /\ Cardinality(Window) \in Nat /\ Cardinality(Busy) \in Nat
      /\ Amount \in Nat /\ DailyBudget \in Nat /\ Cardinality(Slots) \in Nat
  BY CountsTyped, FaucetTypes DEF DripsTyped
<1>2. Cardinality(Window') \in Nat /\ Cardinality(Busy') \in Nat
  <2>1. IsFiniteSet(drips') /\ IsFiniteSet(Slots)
    BY FaucetTypes DEF DripsTyped
  <2>2. Window' \subseteq drips' /\ Busy' \subseteq Slots
    BY DEF Window, Busy
  <2> QED
    BY <2>1, <2>2, FS_Subset, FS_CardinalityType
<1>3. Amount * (Cardinality(Window') + Cardinality(Busy'))
        <= Amount * (Cardinality(Window) + Cardinality(Busy))
  BY <1>1, <1>2, Times
<1> QED
  BY <1>1, <1>2, <1>3 DEF BudgetInv

LEMMA TransferKeeps ==
  ASSUME FaucetInv, NEW s \in Slots, Transfer(s)
  PROVE  FaucetInv'
<1>1. /\ serving[s] = "paying" /\ serving' = [serving EXCEPT ![s] = "paid"]
      /\ UNCHANGED <<clock, drip, drips, lost>>
      /\ \/ /\ transfers' = transfers
            /\ \E d \in transfers : Token(d) = Token(drip[s])
         \/ /\ transfers' = transfers \cup {drip[s]}
            /\ \A d \in transfers : Token(d) # Token(drip[s])
  BY DEF Transfer
<1>2. \A t \in Slots : serving'[t] = IF t = s THEN "paid" ELSE serving[t]
  BY <1>1 DEF FaucetInv, DripsTyped
<1>3. s \in Busy /\ drip[s] \in AllDrips /\ drip[s].at <= clock /\ Busy' = Busy
  BY <1>1, <1>2 DEF FaucetInv, DripsTyped, Busy
<1>4. DripsTyped'
  <2>1. serving' \in [Slots -> {"idle", "paying", "paid"}]
    BY <1>1 DEF FaucetInv, DripsTyped
  <2>2. \A t \in Slots : serving'[t] = "idle" <=> drip'[t] = NoDrip
    BY <1>1, <1>2 DEF FaucetInv, DripsTyped
  <2>3. transfers' \subseteq AllDrips /\ \A d \in transfers' : d.at <= clock
    BY <1>1, <1>3 DEF FaucetInv, DripsTyped
  <2> QED
    BY <1>1, <2>1, <2>2, <2>3 DEF FaucetInv, DripsTyped
<1>5. PaidInv'
  <2>1. \A d, e \in transfers' : Token(d) = Token(e) => d = e
    BY <1>1 DEF FaucetInv, PaidInv
  <2>2. \E t \in transfers' : Token(t) = Token(drip[s])
    BY <1>1
  <2>3. transfers \subseteq transfers'
    BY <1>1
  <2>4. \A t \in Slots : serving'[t] = "paid" =>
          \E u \in transfers' : Token(u) = Token(drip[t])
    BY <1>2, <2>2, <2>3 DEF FaucetInv, PaidInv
  <2>5. \A r \in drips : \E t \in transfers' : Token(t) = Token(r)
    BY <2>3 DEF FaucetInv, PaidInv
  <2>6. ASSUME NEW d \in transfers'
        PROVE  \/ Token(d) \in lost
               \/ \E r \in drips : Token(r) = Token(d)
               \/ \E t \in Slots : serving'[t] = "paid" /\ Token(drip[t]) = Token(d)
    <3>1. CASE d \in transfers
      BY <1>2, <3>1 DEF FaucetInv, PaidInv
    <3>2. CASE d = drip[s]
      BY <1>2, <3>2
    <3> QED
      BY <1>1, <3>1, <3>2
  <2> QED
    BY <1>1, <2>1, <2>4, <2>5, <2>6 DEF PaidInv, Token
<1>6. BudgetInv'
  <2>1. Window' = Window
    BY <1>1 DEF Window
  <2> QED
    BY <1>3, <1>4, <2>1, BudgetKept, CountsTyped DEF FaucetInv
<1>7. Known' \subseteq Known
  BY <1>1, <1>3 DEF Known
<1> QED
  BY <1>1, <1>4, <1>5, <1>6, <1>7, CoolKept DEF FaucetInv

\* What a freed slot leaves of the invariants that are about slots.
LEMMA Freed ==
  ASSUME FaucetInv, NEW s \in Slots, serving[s] # "idle", Free(s), clock' = clock
  PROVE  /\ serving' \in [Slots -> {"idle", "paying", "paid"}]
         /\ drip' \in [Slots -> AllDrips \cup {NoDrip}]
         /\ \A t \in Slots : serving'[t] = "idle" <=> drip'[t] = NoDrip
         /\ \A t \in Slots : drip'[t] # NoDrip => drip'[t].at <= clock'
         /\ \A t \in Slots : serving'[t] = "paid" =>
              t # s /\ serving[t] = "paid" /\ drip'[t] = drip[t]
         /\ \A t \in Slots \ {s} : serving[t] = "paid" =>
              serving'[t] = "paid" /\ drip'[t] = drip[t]
         /\ Busy' = Busy \ {s}
         /\ Cardinality(Busy') = Cardinality(Busy) - 1
         /\ \A t \in Busy' : drip'[t] = drip[t]
<1>1. /\ serving' = [serving EXCEPT ![s] = "idle"]
      /\ drip' = [drip EXCEPT ![s] = NoDrip]
  BY DEF Free
<1>2. \A t \in Slots : /\ serving'[t] = IF t = s THEN "idle" ELSE serving[t]
                       /\ drip'[t] = IF t = s THEN NoDrip ELSE drip[t]
  BY <1>1 DEF FaucetInv, DripsTyped
<1>3. Busy' = Busy \ {s} /\ s \in Busy
  BY <1>2 DEF Busy
<1>4. Cardinality(Busy') = Cardinality(Busy) - 1
  BY <1>3, CountsTyped, FS_RemoveElement DEF FaucetInv
<1>5. /\ serving' \in [Slots -> {"idle", "paying", "paid"}]
      /\ drip' \in [Slots -> AllDrips \cup {NoDrip}]
  BY <1>1 DEF FaucetInv, DripsTyped
<1>6. /\ \A t \in Slots : serving'[t] = "idle" <=> drip'[t] = NoDrip
      /\ \A t \in Slots : drip'[t] # NoDrip => drip'[t].at <= clock
  BY <1>2 DEF FaucetInv, DripsTyped
<1>7. /\ \A t \in Slots : serving'[t] = "paid" =>
           t # s /\ serving[t] = "paid" /\ drip'[t] = drip[t]
      /\ \A t \in Slots \ {s} : serving[t] = "paid" =>
           serving'[t] = "paid" /\ drip'[t] = drip[t]
  BY <1>2
<1>8. \A t \in Busy' : drip'[t] = drip[t]
  BY <1>2, <1>3 DEF Busy
<1> QED
  BY <1>3, <1>4, <1>5, <1>6, <1>7, <1>8

LEMMA RecordKeeps ==
  ASSUME FaucetInv, NEW s \in Slots, Record(s)
  PROVE  FaucetInv'
<1> DEFINE r == Row(drip[s])
<1>1. /\ serving[s] = "paid" /\ Free(s) /\ drips' = drips \cup {r}
      /\ UNCHANGED <<clock, transfers, lost>>
  BY DEF Record
<1>2. r.address = drip[s].address /\ r.at = drip[s].at
  BY DEF Row
<1>3. /\ r.at \in Nat /\ r.at <= clock
      /\ Token(r) = Token(drip[s])
  BY <1>1, <1>2 DEF FaucetInv, DripsTyped, AllDrips, Token
<1> HIDE DEF r
<1>4. DripsTyped'
  <2>1. IsFiniteSet(drips') /\ \A x \in drips' : x.at \in Nat /\ x.at <= clock
    BY <1>1, <1>3, FS_AddElement DEF FaucetInv, DripsTyped
  <2> QED
    BY <1>1, <2>1, Freed DEF FaucetInv, DripsTyped
<1>5. PaidInv'
  <2>1. \A t \in Slots : serving'[t] = "paid" =>
          \E u \in transfers : Token(u) = Token(drip'[t])
    BY <1>1, Freed DEF FaucetInv, PaidInv
  <2>2. \A x \in drips' : \E t \in transfers : Token(t) = Token(x)
    BY <1>1, <1>3 DEF FaucetInv, PaidInv
  <2>3. ASSUME NEW d \in transfers
        PROVE  \/ Token(d) \in lost
               \/ \E x \in drips' : Token(x) = Token(d)
               \/ \E t \in Slots : serving'[t] = "paid" /\ Token(drip'[t]) = Token(d)
    <3>1. ASSUME NEW t \in Slots, serving[t] = "paid", Token(drip[t]) = Token(d)
          PROVE  \/ \E x \in drips' : Token(x) = Token(d)
                 \/ \E u \in Slots : serving'[u] = "paid" /\ Token(drip'[u]) = Token(d)
      <4>1. CASE t = s
        BY <1>1, <1>3, <3>1, <4>1
      <4>2. CASE t # s
        <5>1. serving'[t] = "paid" /\ drip'[t] = drip[t]
          BY <1>1, <3>1, <4>2, Freed
        <5> QED
          BY <3>1, <5>1
      <4> QED
        BY <4>1, <4>2
    <3> QED
      BY <1>1, <3>1 DEF FaucetInv, PaidInv
  <2> QED
    BY <1>1, <2>1, <2>2, <2>3 DEF FaucetInv, PaidInv, Token
<1>6. BudgetInv'
  <2>1. Window' = Window \/ Window' = Window \cup {r}
    BY <1>1 DEF Window
  <2>2. /\ Cardinality(Window \cup {r}) \in {Cardinality(Window), Cardinality(Window) + 1}
        /\ Cardinality(Window) \in Nat
    <3>1. IsFiniteSet(Window) /\ Cardinality(Window) \in Nat
      BY CountsTyped DEF FaucetInv
    <3> QED
      BY <3>1, FS_AddElement
  <2>3. Cardinality(Busy') = Cardinality(Busy) - 1
    BY <1>1, Freed
  <2>4. Cardinality(Window') \in Nat /\ Cardinality(Window') <= Cardinality(Window) + 1
    BY <2>1, <2>2
  <2> QED
    BY <1>4, <2>3, <2>4, BudgetKept, CountsTyped DEF FaucetInv
<1>7. Known' \subseteq Known
  BY <1>1, Freed DEF Known
<1> QED
  BY <1>1, <1>4, <1>5, <1>6, <1>7, CoolKept DEF FaucetInv

LEMMA FailKeeps ==
  ASSUME FaucetInv, NEW s \in Slots, TransferFails(s)
  PROVE  FaucetInv'
<1>1. /\ serving[s] # "idle" /\ Free(s)
      /\ UNCHANGED <<clock, drips, transfers>>
      /\ lost' = IF serving[s] = "paid" THEN lost \cup {Token(drip[s])} ELSE lost
  BY DEF TransferFails
<1>2. lost \subseteq lost' /\ (serving[s] = "paid" => Token(drip[s]) \in lost')
  BY <1>1
<1>3. DripsTyped'
  BY <1>1, Freed DEF FaucetInv, DripsTyped
<1>4. PaidInv'
  <2>1. \A t \in Slots : serving'[t] = "paid" =>
          \E u \in transfers : Token(u) = Token(drip'[t])
    BY <1>1, Freed DEF FaucetInv, PaidInv
  <2>2. ASSUME NEW d \in transfers
        PROVE  \/ Token(d) \in lost'
               \/ \E r \in drips : Token(r) = Token(d)
               \/ \E t \in Slots : serving'[t] = "paid" /\ Token(drip'[t]) = Token(d)
    <3>1. ASSUME NEW t \in Slots, serving[t] = "paid", Token(drip[t]) = Token(d)
          PROVE  \/ Token(d) \in lost'
                 \/ \E u \in Slots : serving'[u] = "paid" /\ Token(drip'[u]) = Token(d)
      <4>1. CASE t = s
        <5>1. Token(drip[s]) \in lost'
          BY <1>2, <3>1, <4>1
        <5> QED
          BY <3>1, <4>1, <5>1
      <4>2. CASE t # s
        <5>1. serving'[t] = "paid" /\ drip'[t] = drip[t]
          BY <1>1, <3>1, <4>2, Freed
        <5> QED
          BY <3>1, <5>1
      <4> QED
        BY <4>1, <4>2
    <3> QED
      BY <1>2, <3>1 DEF FaucetInv, PaidInv
  <2> QED
    BY <1>1, <2>1, <2>2 DEF FaucetInv, PaidInv, Token
<1>5. BudgetInv'
  <2>1. Window' = Window
    BY <1>1 DEF Window
  <2>2. Cardinality(Busy') = Cardinality(Busy) - 1
    BY <1>1, Freed
  <2> QED
    BY <1>3, <2>1, <2>2, BudgetKept, CountsTyped DEF FaucetInv
<1>6. Known' \subseteq Known
  BY <1>1, Freed DEF Known
<1> QED
  BY <1>2, <1>3, <1>4, <1>5, <1>6, CoolKept DEF FaucetInv

LEMMA RestartKeeps ==
  ASSUME FaucetInv, Restart
  PROVE  FaucetInv'
<1>1. /\ serving' = [s \in Slots |-> "idle"] /\ drip' = [s \in Slots |-> NoDrip]
      /\ UNCHANGED <<clock, drips, transfers>>
      /\ lost' = lost \cup {Token(drip[s]) : s \in {s \in Slots : serving[s] = "paid"}}
  BY DEF Restart
<1>2. /\ lost \subseteq lost'
      /\ \A s \in Slots : serving[s] = "paid" => Token(drip[s]) \in lost'
      /\ \A s \in Slots : serving'[s] = "idle" /\ drip'[s] = NoDrip
  BY <1>1
<1>3. DripsTyped'
  <2>1. /\ serving' \in [Slots -> {"idle", "paying", "paid"}]
        /\ drip' \in [Slots -> AllDrips \cup {NoDrip}]
    BY <1>1
  <2> QED
    BY <1>1, <1>2, <2>1 DEF FaucetInv, DripsTyped
<1>4. PaidInv'
  <2>1. ASSUME NEW d \in transfers
        PROVE  Token(d) \in lost' \/ \E r \in drips : Token(r) = Token(d)
    <3>1. ASSUME NEW s \in Slots, serving[s] = "paid", Token(drip[s]) = Token(d)
          PROVE  Token(d) \in lost'
      <4>1. Token(drip[s]) \in lost'
        BY <1>2, <3>1
      <4> QED
        BY <3>1, <4>1
    <3> QED
      BY <1>2, <3>1 DEF FaucetInv, PaidInv
  <2> QED
    BY <1>1, <1>2, <2>1 DEF FaucetInv, PaidInv, Token
<1>5. BudgetInv'
  <2>1. Window' = Window
    BY <1>1 DEF Window
  <2>2. Busy' = {}
    BY <1>2 DEF Busy
  <2> QED
    BY <1>3, <2>1, <2>2, BudgetKept, CountsTyped, FS_EmptySet DEF FaucetInv
<1>6. Known' \subseteq Known
  BY <1>1, <1>2 DEF Known, Busy
<1> QED
  BY <1>2, <1>3, <1>4, <1>5, <1>6, CoolKept DEF FaucetInv

LEMMA ClockKeeps ==
  ASSUME FaucetInv, ClockMoves
  PROVE  FaucetInv'
<1>1. clock' = clock + 1 /\ UNCHANGED <<serving, drip, drips, transfers, lost>>
  BY DEF ClockMoves
<1>2. clock \in Nat /\ clock' \in Nat /\ Day \in Nat
  BY <1>1, FaucetTypes DEF FaucetInv, DripsTyped
<1>3. DripsTyped'
  <2>1. \A s \in Slots : drip[s] # NoDrip => drip[s].at <= clock'
    <3>1. \A s \in Slots : drip[s] # NoDrip => drip[s].at \in Nat /\ drip[s].at <= clock
      BY DEF FaucetInv, DripsTyped, AllDrips
    <3> QED
      BY <1>1, <1>2, <3>1
  <2>2. \A d \in transfers : d.at <= clock'
    <3>1. \A d \in transfers : d.at \in Nat /\ d.at <= clock
      BY DEF FaucetInv, DripsTyped, AllDrips
    <3> QED
      BY <1>1, <1>2, <3>1
  <2>3. \A r \in drips : r.at \in Nat /\ r.at <= clock'
    BY <1>1, <1>2 DEF FaucetInv, DripsTyped
  <2> QED
    BY <1>1, <1>2, <2>1, <2>2, <2>3 DEF FaucetInv, DripsTyped
<1>4. PaidInv'
  BY <1>1 DEF FaucetInv, PaidInv, Token
<1>5. BudgetInv'
  <2>1. Window' \in SUBSET Window
    BY <1>1, <1>2 DEF Window, FaucetInv, DripsTyped
  <2>2. Busy' = Busy
    BY <1>1 DEF Busy
  <2>3. Cardinality(Window') <= Cardinality(Window) /\ Cardinality(Window') \in Nat
    BY <2>1, CountsTyped, FS_Subset, FS_CardinalityType DEF FaucetInv
  <2> QED
    BY <1>3, <2>2, <2>3, BudgetKept, CountsTyped DEF FaucetInv
<1>6. Known' \subseteq Known
  BY <1>1 DEF Known, Busy
<1> QED
  BY <1>1, <1>3, <1>4, <1>5, <1>6, CoolKept DEF FaucetInv

LEMMA FaucetInitially ==
  ASSUME FaucetInit
  PROVE  FaucetInv
<1>1. /\ clock = 1 /\ serving = [s \in Slots |-> "idle"] /\ drip = [s \in Slots |-> NoDrip]
      /\ drips = {} /\ transfers = {} /\ lost = {}
  BY DEF FaucetInit
<1>2. DripsTyped
  BY <1>1, FS_EmptySet DEF DripsTyped
<1>3. PaidInv
  BY <1>1 DEF PaidInv
<1>4. Window = {} /\ Busy = {} /\ Known = {}
  BY <1>1 DEF Window, Busy, Known
<1>5. BudgetInv
  <2>1. /\ Cardinality(Window) + Cardinality(Busy) = 0
        /\ Cardinality(Slots) - 1 \in Nat
    BY <1>2, <1>4, CountsTyped, FS_EmptySet
  <2>2. Amount \in Nat /\ DailyBudget \in Nat
    BY FaucetTypes
  <2>3. Amount * 0 <= Amount * (Cardinality(Slots) - 1)
    BY <2>1, <2>2, Times
  <2> HIDE DEF Window, Busy
  <2> QED
    BY <2>1, <2>2, <2>3 DEF BudgetInv
<1>6. CoolInv
  BY <1>4 DEF CoolInv
<1> QED
  BY <1>2, <1>3, <1>5, <1>6 DEF FaucetInv

LEMMA FaucetKept ==
  ASSUME FaucetInv, [FaucetNext]_faucetVars
  PROVE  FaucetInv'
<1>1. CASE FaucetNext
  BY <1>1, AdmitKeeps, TransferKeeps, RecordKeeps, FailKeeps, RestartKeeps, ClockKeeps
     DEF FaucetNext
<1>2. CASE UNCHANGED faucetVars
  <2>1. UNCHANGED <<clock, serving, drip, drips, transfers, lost>>
    BY <1>2 DEF faucetVars
  <2>2. Window' = Window /\ Busy' = Busy /\ Known' = Known
    BY <2>1 DEF Window, Busy, Known
  <2>3. DripsTyped' /\ PaidInv'
    BY <2>1 DEF FaucetInv, DripsTyped, PaidInv, Token
  <2>4. BudgetInv'
    BY <2>2, <2>3, BudgetKept, CountsTyped DEF FaucetInv
  <2> QED
    BY <2>1, <2>2, <2>3, <2>4, CoolKept DEF FaucetInv
<1> QED
  BY <1>1, <1>2

LEMMA FaucetAlways ==
  FaucetSpec => []FaucetInv
  BY FaucetInitially, FaucetKept, PTL DEF FaucetSpec

\* Drips counted by the budget's window, executed and not lost: each has its row in the
\* window, or its request is still served.
LEMMA ExecutedAreCounted ==
  ASSUME FaucetInv, DailyBudget > 0,
         NEW W, W = {d \in transfers : d.at >= clock - Day /\ Token(d) \notin lost}
  PROVE  /\ IsFiniteSet(W) /\ Cardinality(W) \in Nat
         /\ Cardinality(W) <= Cardinality(Window) + Cardinality(Busy)
<1> DEFINE Recorded == {d \in W : \E r \in Window : Token(r) = Token(d)}
           Served == {d \in W : \E s \in Busy : Token(drip[s]) = Token(d)}
           row == [d \in Recorded |-> CHOOSE r \in Window : Token(r) = Token(d)]
           slot == [d \in Served |-> CHOOSE s \in Busy : Token(drip[s]) = Token(d)]
<1>1. \A d, e \in W : Token(d) = Token(e) => d = e
  BY DEF FaucetInv, PaidInv
<1>2. W = Recorded \cup Served
  <2>1. ASSUME NEW d \in W, NEW r \in drips, Token(r) = Token(d)
        PROVE  r \in Window
    BY <2>1 DEF Window, Token
  <2>2. \A s \in Slots : serving[s] = "paid" => s \in Busy
    BY DEF Busy
  <2>3. \A d \in W : d \in Recorded \/ d \in Served
    BY <2>1, <2>2 DEF FaucetInv, PaidInv
  <2> QED
    BY <2>3
<1>3. row \in Injection(Recorded, Window)
  <2>1. \A d \in Recorded : row[d] \in Window /\ Token(row[d]) = Token(d)
    OBVIOUS
  <2>2. \A d, e \in Recorded : row[d] = row[e] => d = e
    BY <1>1, <2>1
  <2>3. row \in [Recorded -> Window]
    BY <2>1
  <2> QED
    BY <2>2, <2>3 DEF Injection, IsInjective
<1>4. slot \in Injection(Served, Busy)
  <2>1. \A d \in Served : slot[d] \in Busy /\ Token(drip[slot[d]]) = Token(d)
    OBVIOUS
  <2>2. \A d, e \in Served : slot[d] = slot[e] => d = e
    BY <1>1, <2>1
  <2>3. slot \in [Served -> Busy]
    BY <2>1
  <2> QED
    BY <2>2, <2>3 DEF Injection, IsInjective
<1> HIDE DEF Recorded, Served, row, slot
<1>5. /\ IsFiniteSet(Recorded) /\ Cardinality(Recorded) <= Cardinality(Window)
      /\ IsFiniteSet(Served) /\ Cardinality(Served) <= Cardinality(Busy)
  BY <1>3, <1>4, CountsTyped, FS_Injection DEF FaucetInv
<1>6. /\ Cardinality(Recorded) \in Nat /\ Cardinality(Served) \in Nat
      /\ Cardinality(Recorded \cap Served) \in Nat
  <2>1. IsFiniteSet(Recorded \cap Served)
    BY <1>5, FS_Subset
  <2> QED
    BY <1>5, <2>1, FS_CardinalityType
<1>7. /\ IsFiniteSet(W)
      /\ Cardinality(W) = Cardinality(Recorded) + Cardinality(Served)
                            - Cardinality(Recorded \cap Served)
  BY <1>2, <1>5, FS_Union
<1>8. Cardinality(W) \in Nat
  BY <1>7, FS_CardinalityType
<1> QED
  BY <1>5, <1>6, <1>7, <1>8, CountsTyped DEF FaucetInv

\* No client is put on a cooldown for a payment it never got, whatever requests
\* interleave, fail or are cut off (faucet.ts:199-205).
THEOREM RecordedPaid ==
  FaucetSpec => []RecordedWasPaid
<1>1. FaucetInv => RecordedWasPaid
  BY DEF FaucetInv, DripsTyped, PaidInv, RecordedWasPaid
<1> QED
  BY <1>1, FaucetAlways, PTL

\* Whatever is recorded late, the budget's window overruns DailyBudget by one drip for
\* each request that was let in beside another (faucet.ts:116-119, 205): for any number
\* of requests at once, amounts and windows.
THEOREM OverrunBounded ==
  FaucetSpec => []OverrunIsBounded
<1>1. ASSUME FaucetInv, DailyBudget > 0,
             NEW W, W = {d \in transfers : d.at >= clock - Day /\ Token(d) \notin lost}
      PROVE  Amount * Cardinality(W)
               <= DailyBudget + Amount * (Cardinality(Slots) - 1)
  <2>1. /\ Amount \in Nat /\ Cardinality(Window) \in Nat /\ Cardinality(Busy) \in Nat
        /\ Cardinality(Slots) \in Nat /\ DailyBudget \in Nat
    BY <1>1, CountsTyped, FaucetTypes DEF FaucetInv, DripsTyped
  <2>2. Cardinality(W) \in Nat /\ Cardinality(W) <= Cardinality(Window) + Cardinality(Busy)
    BY <1>1, ExecutedAreCounted
  <2>3. Amount * Cardinality(W) <= Amount * (Cardinality(Window) + Cardinality(Busy))
    BY <2>1, <2>2, Times
  <2>4. Amount * (Cardinality(Window) + Cardinality(Busy))
          <= DailyBudget + Amount * (Cardinality(Slots) - 1)
    BY <1>1 DEF FaucetInv, BudgetInv
  <2>5. Amount * Cardinality(W) <= DailyBudget + Amount * (Cardinality(Slots) - 1)
    BY <2>1, <2>2, <2>3, <2>4
  <2> QED
    BY <2>5
<1>2. FaucetInv => OverrunIsBounded
  BY <1>1 DEF OverrunIsBounded
<1> QED
  BY <1>2, FaucetAlways, PTL

\* Two payments to one address inside its cooldown: the second request was let in while
\* the first was served, or the first was never recorded (faucet.ts:107-111, 205).
THEOREM CooldownHeld ==
  FaucetSpec => []CooldownHolds
<1>1. FaucetInv => CooldownHolds
  BY DEF FaucetInv, CoolInv, Known, CooldownHolds
<1> QED
  BY <1>1, FaucetAlways, PTL
=============================================================================
