---------------------------- MODULE ExactlyOnce ----------------------------
(***************************************************************************)
(* What exfer-honor promises a merchant, with no tables or calls: goods    *)
(* move at most once per quote (README.md, "a quote/payment can never      *)
(* deliver twice"), and a payment that moved goods moves no others before  *)
(* the quote it paid is out of retention.                                  *)
(***************************************************************************)
EXTENDS Naturals, Sequences

CONSTANTS
  Keys,        \* accepted quotes, (signerPubkey, quoteId)
  Outpoints,   \* outputs on the chain, (txId, outputIndex)
  Settles,     \* Settles[k]: the outputs that pay quote k
  Retention    \* Retention[k]: how long quote k is remembered

VARIABLES
  goods,       \* the deliveries, in the order they became durable
  clock

vars == <<goods, clock>>

Delivery == [key : Keys, out : Outpoints]

Fresh(k, o) ==
  \A i \in DOMAIN goods :
    /\ goods[i].key # k
    /\ goods[i].out = o => Retention[goods[i].key] < clock

Init == goods = << >> /\ clock = 0

Deliver(k, o) ==
  /\ o \in Settles[k]
  /\ Fresh(k, o)
  /\ goods' = Append(goods, [key |-> k, out |-> o])
  /\ UNCHANGED clock

TimePasses ==
  /\ clock' > clock
  /\ UNCHANGED goods

Next ==
  \/ \E k \in Keys, o \in Outpoints : Deliver(k, o)
  \/ TimePasses

Spec == Init /\ [][Next]_vars
=============================================================================
