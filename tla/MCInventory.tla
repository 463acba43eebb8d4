----------------------------- MODULE MCInventory -----------------------------
(* Instances of Inventory for TLC. *)
EXTENDS Inventory, TLC

CONSTANTS u1, u2, c1, c2, cx, k1, k2

Ask(u, c, q, k) == [user |-> u, cat |-> c, qty |-> q, key |-> k]

\* Two accounts competing for the two tickets of a category, one of them also
\* for its last ticket in the other category.
CompetingAsks == {Ask(u1, c1, 2, k1), Ask(u1, c2, 1, k2), Ask(u2, c1, 1, k1)}

PaymentAsks == {Ask(u1, c1, 2, k1)}

\* Requests that together exceed a quota or, over two categories, the limit of an
\* account, and may repeat a key; one for an unknown category, and one above the
\* limit by itself.
GuardAsks ==
  {Ask(u1, c1, 1, k1), Ask(u1, c2, 2, k2), Ask(u2, c2, 2, k1), Ask(u2, cx, 1, k2),
   Ask(u2, c1, 3, k2)}

GuardQuota == [c \in Categories |-> 2]
MCQuota == [c \in Categories |-> IF c = c1 THEN 2 ELSE 1]

Symmetry == Permutations(Requests) \cup Permutations(Handlers) \cup Permutations(Workers)
=============================================================================
