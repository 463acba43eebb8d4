----------------------------- MODULE TicketLedger -----------------------------
(***************************************************************************)
(* What the sale promises its buyers, told without Redis, counters, retries *)
(* or processes: an order holds tickets or it does not, the tickets held   *)
(* and sold never exceed the quota or the account's limit, an idempotency  *)
(* key names one order, tickets are held once, only a charged order is     *)
(* sold or refunded, and a sold order stays sold.                          *)
(***************************************************************************)
EXTENDS Integers, FiniteSets

CONSTANTS Categories, Quota, MaxPerUser, Orders, Asks

VARIABLES
  state,   \* per order: "none", "held", "sold", "expired", "cancelled" or "refunded"
  entry,   \* per order: what it asks for, once it exists
  charged  \* the orders whose buyer has been charged

vars == <<state, entry, charged>>

None    == [user |-> "none"]
Holders == {o \in Orders : state[o] \in {"held", "sold"}}

Tickets(orders) == UNION {{o} \X (1 .. entry[o].qty) : o \in orders}
Count(orders)   == Cardinality(Tickets(orders))

Init ==
  /\ state = [o \in Orders |-> "none"]
  /\ entry = [o \in Orders |-> None]
  /\ charged = {}

Hold(o) ==
  /\ state[o] = "none"
  /\ \E a \in Asks :
       /\ \A p \in Orders : state[p] # "none" =>
            ~(entry[p].user = a.user /\ entry[p].key = a.key)
       /\ Count({p \in Holders : entry[p].user = a.user}) + a.qty <= MaxPerUser
       /\ a.cat \in Categories
       /\ Count({p \in Holders : entry[p].cat = a.cat}) + a.qty <= Quota[a.cat]
       /\ entry' = [entry EXCEPT ![o] = a]
  /\ state' = [state EXCEPT ![o] = "held"]
  /\ UNCHANGED charged

\* Buyers are charged for what they hold.
Charge(o) ==
  /\ state[o] = "held"
  /\ charged' = charged \cup {o}
  /\ UNCHANGED <<state, entry>>

Moves(o, from, to) ==
  /\ state[o] = from
  /\ state' = [state EXCEPT ![o] = to]
  /\ UNCHANGED <<entry, charged>>

Sell(o)   == o \in charged /\ Moves(o, "held", "sold")
Expire(o) == Moves(o, "held", "expired")
Cancel(o) == Moves(o, "held", "cancelled")
Refund(o) == o \in charged /\ Moves(o, "expired", "refunded")

\* ORDER_TRANSITIONS ends the life of an order with its cancellation; what is taken
\* for it nevertheless handlePaymentNotification gives back.
RefundCancelled(o) == o \in charged /\ Moves(o, "cancelled", "refunded")

Next ==
  \E o \in Orders : \/ Hold(o) \/ Charge(o) \/ Sell(o) \/ Expire(o) \/ Cancel(o)
                    \/ Refund(o) \/ RefundCancelled(o)

Spec == Init /\ [][Next]_vars
=============================================================================
