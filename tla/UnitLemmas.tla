------------------------------ MODULE UnitLemmas ------------------------------
(***************************************************************************)
(* Counting the tickets behind a set of orders: what Cardinality(Units(S)) *)
(* becomes when one order changes its status.  Cited by InventoryProofs.   *)
(***************************************************************************)
EXTENDS Inventory, FiniteSetTheorems, TLAPS

\* The tickets of the orders of X whose status, by st, is in S.
Load(st, body, S, X) == Cardinality(UnitsOf({o \in X : st[o] \in S}, body))

\* The units of a set of orders are finitely many.
LEMMA UnitsFinite ==
  ASSUME NEW body \in [Requests -> Asks], NEW X \in SUBSET Requests
  PROVE  IsFiniteSet(UnitsOf(X, body)) /\ Cardinality(UnitsOf(X, body)) \in Nat
<1> DEFINE Box == Requests \X (1 .. MaxQty)
<1>1. IsFiniteSet(1 .. MaxQty)
  BY LimitsAssumption, FS_Interval
<1>2. IsFiniteSet(Box)
  BY <1>1, UniverseAssumption, FS_Product
<1>3. \A o \in X : body[o].qty \in 1 .. MaxQty
  BY AsksAssumption
<1>4. UnitsOf(X, body) \subseteq Box
  BY <1>3, LimitsAssumption, SMT DEF UnitsOf
<1> QED
  BY <1>2, <1>4, FS_Subset, FS_CardinalityType

\* One order stands for as many units as it asks for.
LEMMA UnitsOfOne ==
  ASSUME NEW body \in [Requests -> Asks], NEW o \in Requests
  PROVE  Cardinality(UnitsOf({o}, body)) = body[o].qty
<1>1. body[o].qty \in 1 .. MaxQty
  BY AsksAssumption
<1>2. UnitsOf({o}, body) = {o} \X (1 .. body[o].qty)
  BY DEF UnitsOf
<1>3. IsFiniteSet(1 .. body[o].qty) /\ Cardinality(1 .. body[o].qty) = body[o].qty
  BY <1>1, LimitsAssumption, FS_Interval
<1>4. Cardinality({o} \X (1 .. body[o].qty)) = 1 * body[o].qty
  <2>1. IsFiniteSet({o}) /\ Cardinality({o}) = 1
    BY FS_Singleton
  <2>2. Cardinality({o} \X (1 .. body[o].qty))
          = Cardinality({o}) * Cardinality(1 .. body[o].qty)
    BY <1>3, <2>1, FS_Product
  <2> QED
    BY <1>3, <2>1, <2>2
<1>5. body[o].qty \in Nat
  BY <1>1, LimitsAssumption
<1>6. \A n \in Nat : 1 * n = n
  OBVIOUS
<1> QED
  BY <1>2, <1>4, <1>5, <1>6

\* Disjoint sets of orders have units that add up.
LEMMA UnitsAddUp ==
  ASSUME NEW body \in [Requests -> Asks],
         NEW X \in SUBSET Requests, NEW Y \in SUBSET Requests, X \cap Y = {}
  PROVE  Cardinality(UnitsOf(X \cup Y, body))
           = Cardinality(UnitsOf(X, body)) + Cardinality(UnitsOf(Y, body))
<1>1. UnitsOf(X \cup Y, body) = UnitsOf(X, body) \cup UnitsOf(Y, body)
  BY DEF UnitsOf
<1>2. UnitsOf(X, body) \cap UnitsOf(Y, body) = {}
  BY DEF UnitsOf
<1>3. /\ IsFiniteSet(UnitsOf(X, body)) /\ Cardinality(UnitsOf(X, body)) \in Nat
      /\ IsFiniteSet(UnitsOf(Y, body)) /\ Cardinality(UnitsOf(Y, body)) \in Nat
  BY UnitsFinite
<1>4. Cardinality({}) = 0
  BY FS_EmptySet
<1>5. Cardinality(UnitsOf(X, body) \cup UnitsOf(Y, body))
        = Cardinality(UnitsOf(X, body)) + Cardinality(UnitsOf(Y, body)) - Cardinality({})
  BY <1>2, <1>3, FS_Union
<1>6. \A m, n \in Nat : m + n - 0 = m + n
  OBVIOUS
<1> QED
  BY <1>1, <1>3, <1>4, <1>5, <1>6, Zenon

\* The units depend only on the bodies of the orders counted.
LEMMA UnitsCongruence ==
  ASSUME NEW X, NEW f, NEW g, \A o \in X : f[o] = g[o]
  PROVE  UnitsOf(X, f) = UnitsOf(X, g)
BY DEF UnitsOf

\* An order that enters the counted statuses adds its quantity.
LEMMA LoadEnters ==
  ASSUME NEW body \in [Requests -> Asks], NEW X \in SUBSET Requests, NEW S,
         NEW st, NEW st2, NEW o \in X,
         \A p \in X \ {o} : st2[p] = st[p],
         st[o] \notin S, st2[o] \in S
  PROVE  Load(st2, body, S, X) = Load(st, body, S, X) + body[o].qty
<1> DEFINE A == {p \in X : st[p] \in S}
<1>1. {p \in X : st2[p] \in S} = A \cup {o}
  OBVIOUS
<1>2. A \cap {o} = {} /\ A \in SUBSET Requests /\ {o} \in SUBSET Requests
  OBVIOUS
<1>3. Cardinality(UnitsOf(A \cup {o}, body))
        = Cardinality(UnitsOf(A, body)) + Cardinality(UnitsOf({o}, body))
  BY <1>2, UnitsAddUp
<1>4. Cardinality(UnitsOf({o}, body)) = body[o].qty
  BY UnitsOfOne
<1> QED
  BY <1>1, <1>3, <1>4 DEF Load

\* An order that leaves them takes its quantity away.
LEMMA LoadLeaves ==
  ASSUME NEW body \in [Requests -> Asks], NEW X \in SUBSET Requests, NEW S,
         NEW st, NEW st2, NEW o \in X,
         \A p \in X \ {o} : st2[p] = st[p],
         st[o] \in S, st2[o] \notin S
  PROVE  Load(st2, body, S, X) = Load(st, body, S, X) - body[o].qty
<1>1. Load(st, body, S, X) = Load(st2, body, S, X) + body[o].qty
  <2>1. \A p \in X \ {o} : st[p] = st2[p]
    OBVIOUS
  <2> QED
    BY <2>1, LoadEnters
<1>2. Load(st2, body, S, X) \in Nat
  BY UnitsFinite DEF Load
<1>3. body[o].qty \in 1 .. MaxQty
  BY AsksAssumption
<1> QED
  BY <1>1, <1>2, <1>3, LimitsAssumption

\* Nothing changes when no order of X enters or leaves the counted statuses.
LEMMA LoadStays ==
  ASSUME NEW body, NEW X, NEW S, NEW st, NEW st2,
         \A p \in X : st2[p] \in S <=> st[p] \in S
  PROVE  Load(st2, body, S, X) = Load(st, body, S, X)
<1>1. {p \in X : st2[p] \in S} = {p \in X : st[p] \in S}
  OBVIOUS
<1> QED
  BY <1>1 DEF Load

\* The loads of disjoint sets of statuses add up.
LEMMA LoadSplits ==
  ASSUME NEW body \in [Requests -> Asks], NEW X \in SUBSET Requests,
         NEW st, NEW S, NEW T, S \cap T = {}
  PROVE  Load(st, body, S \cup T, X) = Load(st, body, S, X) + Load(st, body, T, X)
<1> DEFINE A == {p \in X : st[p] \in S}
           B == {p \in X : st[p] \in T}
<1>1. {p \in X : st[p] \in S \cup T} = A \cup B
  OBVIOUS
<1>2. A \cap B = {} /\ A \in SUBSET Requests /\ B \in SUBSET Requests
  OBVIOUS
<1> QED
  BY <1>1, <1>2, UnitsAddUp DEF Load
=============================================================================
