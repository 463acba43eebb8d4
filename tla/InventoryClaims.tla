--------------------------- MODULE InventoryClaims ---------------------------
(***************************************************************************)
(* Statements of the repository's documents, comments and tests that the   *)
(* code, as Inventory models it, does not keep.                            *)
(***************************************************************************)
EXTENDS MCInventory

\* README: stock is returned exactly once.  Returned once, it never exceeds the
\* quota; createOrder's catch block and the expiry job can both return it.
StockWithinQuota == \A c \in Categories : stock[c] <= Quota[c]

\* ORDER_TRANSITIONS, and the insert, which makes an order PENDING.
OrderTransitions ==
  {"NONE"} \X {"PENDING"}
    \cup {"PENDING"} \X {"PAID", "EXPIRED", "CANCELLED"}
    \cup {"PAID", "EXPIRED"} \X {"REFUNDED"}

\* policy.ts: an order changes its status along ORDER_TRANSITIONS only, which has no
\* way out of CANCELLED; handlePaymentNotification refunds a cancelled order that
\* was settled meanwhile.
FollowsOrderTransitions ==
  [][\A o \in Requests : status'[o] # status[o] =>
       <<status[o], status'[o]>> \in OrderTransitions]_vars
=============================================================================
