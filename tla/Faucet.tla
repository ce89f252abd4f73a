------------------------------- MODULE Faucet -------------------------------
(***************************************************************************)
(* The testnet faucet: requests are admitted against the drips table, paid *)
(* by walletd, and recorded when the payment is answered.  Requests        *)
(* interleave at that await, and the process may stop at any time.         *)
(***************************************************************************)
EXTENDS Integers, FiniteSets

CONSTANTS
  Slots,         \* requests that are served at once
  Addresses, Ips,
  Amount,        \* FAUCET_AMOUNT
  DailyBudget,   \* FAUCET_DAILY_BUDGET, 0 for none
  AddrCooldown, IpCooldown,
  Day,           \* the budget's window
  MaxClock,      \* bounds of the model: the clock, and payments and records
  MaxPayments,
  NoDrip

ASSUME FaucetConstants ==
  /\ Amount \in Nat /\ DailyBudget \in Nat /\ Day \in Nat
  /\ AddrCooldown \in Nat /\ IpCooldown \in Nat
  /\ IsFiniteSet(Slots) /\ Slots # {}
  /\ NoDrip \notin [address : Addresses, ip : Ips, at : Nat, during : SUBSET (Addresses \X Nat)]

VARIABLES
  clock,
  serving,   \* "idle", "paying" or "paid", for each slot
  drip,      \* what a slot was admitted for
  drips,     \* the table
  transfers, \* drips that walletd has executed
  lost       \* history: executed, and never to be recorded

faucetVars == <<clock, serving, drip, drips, transfers, lost>>

\* A drip carries, as history, the drips that were in flight when it was admitted.
Drip(address, ip, at, during) ==
  [address |-> address, ip |-> ip, at |-> at, during |-> during]

\* The client_token; walletd executes a token once.
Token(d) == <<d.address, d.at>>

InFlight == {Token(drip[s]) : s \in {s \in Slots : serving[s] # "idle"}}

\* A row of the table; one drip may be recorded twice, and id tells such rows apart.
Row(d) ==
  [address |-> d.address, ip |-> d.ip, at |-> d.at,
   id |-> Cardinality({r \in drips : r.address = d.address /\ r.ip = d.ip /\ r.at = d.at})]

\* lastByAddr and lastByIp against the cooldown.
Cooling(since, cooldown, now) ==
  \E d \in since : now - d.at < cooldown /\ \A e \in since : e.at <= d.at

\* Variants for the runs: the budget of one address; no address cooldown.
SpentOn(address, now) == Amount * Cardinality({r \in drips : r.address = address /\ r.at >= now - Day})

BudgetByAddress(address, ip, now) ==
  \/ Cooling({d \in drips : d.address = address}, AddrCooldown, now)
  \/ Cooling({d \in drips : d.ip = ip}, IpCooldown, now)
  \/ DailyBudget > 0 /\ SpentOn(address, now) + Amount > DailyBudget

IpOnly(address, ip, now) ==
  \/ Cooling({d \in drips : d.ip = ip}, IpCooldown, now)
  \/ DailyBudget > 0
     /\ Amount * Cardinality({r \in drips : r.at >= now - Day}) + Amount > DailyBudget

RateLimited(address, ip, now) ==
  \/ Cooling({d \in drips : d.address = address}, AddrCooldown, now)
  \/ Cooling({d \in drips : d.ip = ip}, IpCooldown, now)
  \/ DailyBudget > 0
     /\ Amount * Cardinality({r \in drips : r.at >= now - Day}) + Amount > DailyBudget
-----------------------------------------------------------------------------
Free(s) == serving' = [serving EXCEPT ![s] = "idle"] /\ drip' = [drip EXCEPT ![s] = NoDrip]

\* POST /faucet up to the transfer: checked and sent in one turn.
Admit(s, address, ip) ==
  /\ serving[s] = "idle"
  /\ Cardinality(transfers) < MaxPayments /\ Cardinality(drips) < MaxPayments
  /\ ~RateLimited(address, ip, clock)
  /\ serving' = [serving EXCEPT ![s] = "paying"]
  /\ drip' = [drip EXCEPT ![s] = Drip(address, ip, clock, InFlight)]
  /\ UNCHANGED <<clock, drips, transfers, lost>>

\* walletd executes the transfer, or has executed its token before.
Transfer(s) ==
  /\ serving[s] = "paying"
  /\ serving' = [serving EXCEPT ![s] = "paid"]
  /\ transfers' = IF \E d \in transfers : Token(d) = Token(drip[s])
                  THEN transfers ELSE transfers \cup {drip[s]}
  /\ UNCHANGED <<clock, drip, drips, lost>>

\* Variant for the runs: the record is written before the payment is answered.
RecordEarly(s) ==
  /\ serving[s] \in {"paying", "paid"}
  /\ drips' = drips \cup {Row(drip[s])}
  /\ Free(s)
  /\ UNCHANGED <<clock, transfers, lost>>

\* The answer: the drip is recorded under the time it was admitted.
Record(s) ==
  /\ serving[s] = "paid"
  /\ drips' = drips \cup {Row(drip[s])}
  /\ Free(s)
  /\ UNCHANGED <<clock, transfers, lost>>

\* rpc throws, before walletd has executed the transfer or after: nothing is
\* recorded, and the client is told 500.
TransferFails(s) ==
  /\ serving[s] # "idle"
  /\ lost' = IF serving[s] = "paid" THEN lost \cup {Token(drip[s])} ELSE lost
  /\ Free(s)
  /\ UNCHANGED <<clock, drips, transfers>>

\* shutdown, or a crash: the table stays, the requests are gone.
Restart ==
  /\ lost' = lost \cup {Token(drip[s]) : s \in {s \in Slots : serving[s] = "paid"}}
  /\ serving' = [s \in Slots |-> "idle"]
  /\ drip' = [s \in Slots |-> NoDrip]
  /\ UNCHANGED <<clock, drips, transfers>>

ClockMoves ==
  /\ clock < MaxClock
  /\ clock' = clock + 1
  /\ UNCHANGED <<serving, drip, drips, transfers, lost>>

\* The clock has long left 0, which the code takes for no drip.
FaucetInit ==
  /\ clock = 1
  /\ serving = [s \in Slots |-> "idle"]
  /\ drip = [s \in Slots |-> NoDrip]
  /\ drips = {} /\ transfers = {} /\ lost = {}

FaucetNext ==
  \/ \E s \in Slots :
       \/ \E a \in Addresses, i \in Ips : Admit(s, a, i)
       \/ Transfer(s) \/ Record(s) \/ TransferFails(s)
  \/ Restart
  \/ ClockMoves

FaucetSpec == FaucetInit /\ [][FaucetNext]_faucetVars
-----------------------------------------------------------------------------
\* A slot holds a drip while it serves one, and what is in the table was paid:
\* no client is put on a cooldown for a payment it never got (faucet.ts:199-205).
RecordedWasPaid ==
  /\ \A s \in Slots : serving[s] = "idle" <=> drip[s] = NoDrip
  /\ \A d \in drips : \E t \in transfers : Token(t) = Token(d)

\* The window of the budget overruns DailyBudget by what was in flight together
\* and what was executed without a record, and by no more (faucet.ts:116-119, 205).
OverrunIsBounded ==
  DailyBudget > 0 =>
    LET counted == {d \in transfers : d.at >= clock - Day /\ Token(d) \notin lost}
    IN Amount * Cardinality(counted) <= DailyBudget + Amount * (Cardinality(Slots) - 1)

\* Two payments to one address inside its cooldown: the second was admitted while
\* the first was in flight, or the first was never recorded (faucet.ts:107-111, 205).
CooldownHolds ==
  \A d, e \in transfers :
    d.address = e.address /\ d.at < e.at /\ e.at - d.at < AddrCooldown
      => Token(d) \in e.during \cup lost
=============================================================================
