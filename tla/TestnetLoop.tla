----------------------------- MODULE TestnetLoop -----------------------------
(***************************************************************************)
(* The testnet daemon: rounds of quote, honor, settle and deliver, with a  *)
(* ledger of rounds in SQLite.  Each round starts an onPaid loop in the     *)
(* background and awaits it only at its end; the loops of rounds that      *)
(* failed before that poll on.  A quote is the number of its round, and a  *)
(* tick of an onPaid loop is one step (HonorService has its own).           *)
(***************************************************************************)
EXTENDS Integers, Sequences

CONSTANTS MaxRounds, NULL       \* MaxRounds bounds the model

ASSUME LoopConstants ==
  MaxRounds \in Nat /\ NULL \notin {"honored", "declined", "failed"}

VARIABLES
  pc,          \* where main and runIteration stand
  identities,  \* roles with a stored address
  rows,        \* loop_iterations
  deliveries,  \* the merchant's goods, on the gate's connection
  latched,     \* quotes whose gate row is observed before expiry
  loops,       \* the onPaid loops of this process
  window,      \* a quote's time: "open", "late" past expiry, "past" retention
  pay,         \* its settlement: "none", "pending", "buried", "dropped"
  answering,   \* the ports, the gate and deliver do what a tick asks of them
  cut          \* history: rounds that were open when a process ended

vars == <<pc, identities, rows, deliveries, latched, loops, window, pay,
          answering, cut>>
world == <<window, pay, answering>>
store == <<identities, deliveries, latched>>

Rounds == 1..MaxRounds
Current == Len(rows)
InRound == {"fund", "refilled", "quote", "accept", "grace", "verify", "settle", "await"}

\* Variants for the runs: only a round with a quote is labelled; any round is.
LabelQuoted(rs) ==
  IF rs # <<>> /\ rs[Len(rs)].status = NULL /\ rs[Len(rs)].quoted
  THEN [rs EXCEPT ![Len(rs)].status = "failed"] ELSE rs

LabelNewest(rs) ==
  IF rs # <<>> THEN [rs EXCEPT ![Len(rs)].status = "failed"] ELSE rs

\* The catch of main: the newest row is failed, if it is open.
LabelFailed(rs) ==
  IF rs # <<>> /\ rs[Len(rs)].status = NULL
  THEN [rs EXCEPT ![Len(rs)].status = "failed"] ELSE rs

\* The process ends: its loops go with it, and the rows stay as they are.
Exit ==
  /\ pc' = "down"
  /\ loops' = [r \in Rounds |-> "none"]
  /\ cut' = cut \cup {r \in DOMAIN rows : rows[r].status = NULL}
  /\ UNCHANGED <<rows, store, world>>
-----------------------------------------------------------------------------
\* main, up to its loop.
Boot ==
  /\ pc = "down" /\ pc' = "boot"
  /\ UNCHANGED <<rows, store, loops, world, cut>>

EnsureIdentity(role) ==
  /\ pc = "boot"
  /\ role = "payer" => "payee" \in identities
  /\ identities' = identities \cup {role}
  /\ UNCHANGED <<pc, rows, deliveries, latched, loops, world, cut>>

Start ==
  /\ pc = "boot" /\ identities = {"payee", "payer"}
  /\ pc' = "top"
  /\ UNCHANGED <<rows, store, loops, world, cut>>

\* getHeight, and the round's row.
StartRound ==
  /\ pc = "top" /\ Current < MaxRounds
  /\ pc' = "fund"
  /\ rows' = Append(rows, [quoted |-> FALSE, settled |-> FALSE, status |-> NULL])
  /\ UNCHANGED <<store, loops, world, cut>>

\* A call of the round throws, or getHeight before it.
RoundFails ==
  /\ pc \in (InRound \cup {"top"}) \ {"grace", "await"}
  /\ pc' = "top"
  /\ rows' = LabelFailed(rows)
  /\ UNCHANGED <<store, loops, world, cut>>

Goes(from, to) == pc = from /\ pc' = to

\* ensureBuyerFunded: enough already, or a refill from the seller or the faucet
\* that waitForBalance sees arrive.
EnsureBuyerFunded ==
  /\ Goes("fund", "quote") \/ Goes("fund", "refilled") \/ Goes("refilled", "quote")
  /\ UNCHANGED <<rows, store, loops, world, cut>>

IssueQuote ==
  /\ Goes("quote", "accept")
  /\ rows' = [rows EXCEPT ![Current].quoted = TRUE]
  /\ UNCHANGED <<store, loops, world, cut>>

\* accept, and onPaid: its loop runs in the background from here on.
AcceptQuote ==
  /\ Goes("accept", "grace")
  /\ loops' = [loops EXCEPT ![Current] = "polling"]
  /\ UNCHANGED <<rows, store, world, cut>>

\* The grace period ends, and the buyer verifies the quote.
BuyerVerifies ==
  /\ Goes("grace", "verify") \/ Goes("verify", "settle")
  /\ UNCHANGED <<rows, store, loops, world, cut>>

\* The transfer is executed; its answer arrives, or the call throws.
Settle ==
  /\ pc = "settle"
  /\ pay' = [pay EXCEPT ![Current] = "pending"]
  /\ \/ pc' = "await" /\ rows' = [rows EXCEPT ![Current].settled = TRUE]
     \/ pc' = "top" /\ rows' = LabelFailed(rows)
  /\ UNCHANGED <<store, loops, window, answering, cut>>

\* Variant for the runs: the round ends on a result, and not on a rejection.
AwaitResult ==
  /\ pc = "await" /\ loops[Current] \in {"honored", "declined"}
  /\ pc' = "top"
  /\ rows' = [rows EXCEPT ![Current].status = loops[Current]]
  /\ UNCHANGED <<store, loops, world, cut>>

\* await done: a result is stored; after a decline the round throws, and the
\* catch finds its row closed; after a rejection it finds it open.
AwaitDone ==
  /\ pc = "await" /\ loops[Current] \notin {"none", "polling"}
  /\ pc' = "top"
  /\ LET stored == [rows EXCEPT ![Current].status = loops[Current]]
     IN rows' = CASE loops[Current] = "honored"  -> stored
                  [] loops[Current] = "declined" -> LabelFailed(stored)
                  [] loops[Current] = "rejected" -> LabelFailed(rows)
  /\ UNCHANGED <<store, loops, world, cut>>
-----------------------------------------------------------------------------
(* The onPaid loops.                                                        *)
\* The tick latches an open quote before it looks at the chain.
Latch(r) == latched' = IF window[r] = "open" THEN latched \cup {r} ELSE latched

Honorable(r) == window[r] = "open" \/ (window[r] = "late" /\ r \in latched)

\* A tick on which everything answers: it waits, delivers or declines.
Tick(r) ==
  /\ loops[r] = "polling" /\ answering
  /\ Latch(r)
  /\ IF pay[r] = "buried" /\ Honorable(r)
     THEN deliveries' = deliveries \cup {r} ELSE UNCHANGED deliveries
  /\ loops' = [loops EXCEPT ![r] =
       CASE pay[r] # "buried" -> "polling"
         [] pay[r] = "buried" /\ Honorable(r) -> "honored"
         [] OTHER -> "declined"]
  /\ UNCHANGED <<pc, identities, rows, world, cut>>

\* A retryable fault, a wait or a failed delivery, whatever became of the payment:
\* the gate is as it was, and the loop polls on.  The latch may be set by then.
TickRetries(r) ==
  /\ loops[r] = "polling" /\ ~answering
  /\ Latch(r) \/ UNCHANGED latched
  /\ UNCHANGED <<pc, identities, rows, deliveries, loops, world, cut>>

\* A read throws: done rejects.  Only the await handles it; the runtime ends the
\* process on a rejection that nothing handles.
ChainFault(r) ==
  /\ loops[r] = "polling"
  /\ IF pc = "await" /\ r = Current
     THEN /\ loops' = [loops EXCEPT ![r] = "rejected"]
          /\ UNCHANGED <<pc, rows, store, world, cut>>
     ELSE Exit

\* A crash, SIGTERM, or a fault of main before its loop.
Shutdown == pc # "down" /\ Exit

(* The world: time and the chain.  A buried payment stays.                  *)
TimePasses(r) ==
  /\ loops[r] # "none" \/ pay[r] # "none"
  /\ window[r] # "past"
  /\ window' = [window EXCEPT ![r] = IF @ = "open" THEN "late" ELSE "past"]
  /\ UNCHANGED <<pc, rows, store, loops, pay, answering, cut>>

PaymentMoves(r) ==
  /\ pay[r] = "pending"
  /\ pay' = [pay EXCEPT ![r] = "buried"] \/ pay' = [pay EXCEPT ![r] = "dropped"]
  /\ UNCHANGED <<pc, rows, store, loops, window, answering, cut>>

\* What a tick asks for fails from here on, or works again.
AnsweringTurns ==
  /\ answering' = ~answering
  /\ UNCHANGED <<pc, rows, store, loops, window, pay, cut>>

Init ==
  /\ pc = "down"
  /\ identities = {} /\ rows = <<>> /\ deliveries = {} /\ latched = {} /\ cut = {}
  /\ loops = [r \in Rounds |-> "none"]
  /\ window = [r \in Rounds |-> "open"]
  /\ pay = [r \in Rounds |-> "none"] /\ answering = TRUE

Next ==
  \/ Boot \/ (\E role \in {"payee", "payer"} : EnsureIdentity(role)) \/ Start
  \/ StartRound \/ RoundFails \/ EnsureBuyerFunded \/ IssueQuote \/ AcceptQuote
  \/ BuyerVerifies \/ Settle \/ AwaitDone
  \/ (\E r \in Rounds : Tick(r) \/ TickRetries(r) \/ ChainFault(r)
                      \/ TimePasses(r) \/ PaymentMoves(r))
  \/ AnsweringTurns \/ Shutdown

\* The interval timer of each loop fires, whatever its tick meets, and a settled
\* promise is taken up.
Spec ==
  /\ Init /\ [][Next]_vars
  /\ \A r \in Rounds : WF_vars(Tick(r) \/ TickRetries(r))
  /\ WF_vars(AwaitDone)
-----------------------------------------------------------------------------
\* What the ledger says happened: a round that is recorded honored has delivered,
\* goods only moved for a buried payment, and a row stays open only while its
\* round runs or because a process ended in it (loop.ts:325-330, 358-369, 456-466).
LedgerIsTrue ==
  /\ \A r \in DOMAIN rows : rows[r].status = "honored" => r \in deliveries
  /\ \A r \in deliveries : pay[r] = "buried"
  /\ \A r \in DOMAIN rows :
       rows[r].status = NULL => r \in cut \/ (r = Current /\ pc \in InRound)

\* A later failure never relabels a round that has ended, whether it failed before
\* it inserted a row of its own or behind a restart (loop.ts:461-465).
StatusIsFinal ==
  [][\A r \in DOMAIN rows : rows[r].status # NULL => rows'[r].status = rows[r].status]_vars

\* A round does not hang on a payment that stays buried, once retryable faults and
\* failed deliveries are over: the gate fires, declines or throws, and the daemon
\* goes on (loop.ts:354-369).  While they last the loop polls, and the round waits.
AwaitEnds ==
  <>[]answering =>
    \A r \in Rounds : []<>~(pc = "await" /\ r = Current /\ pay[r] = "buried")
=============================================================================
