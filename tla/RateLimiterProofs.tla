-------------------------- MODULE RateLimiterProofs --------------------------
(***************************************************************************)
(* For any requests, limits, window and lag: no rule lets too many through *)
(* in the window less the lag, nothing is charged for a refusal, and a     *)
(* wait that was told is enough.                                           *)
(*                                                                         *)
(* The invariant: what is too recent to be trimmed is still logged (the    *)
(* trimming goes by stamps, the expiry by arrivals), and at the end of a   *)
(* wait every rule of that request has an entry less than its limit.       *)
(***************************************************************************)
EXTENDS RateLimiter, FiniteSetTheorems, WellFoundedInduction, TLAPS

Stamped == \A e \in accepted : e.real <= now /\ e.stamp >= e.real - MaxLag

Lives == \A k \in Keys : \A e \in accepted : k \in e.rules => expires[k] >= e.real + Window

Covers == \A k \in Keys : Recent(k) \subseteq log[k]

Left(S, time) == {e \in S : e.stamp > time - Window}

Promised ==
  \A r \in Requests : told[r] # Never => \A k \in Rules(r) : Cardinality(Left(log[k], told[r])) < LimitOf(k)

IInv == TypeOK /\ RefusedIsFree /\ Stamped /\ Lives /\ Covers /\ Promised

LEMMA Constants ==
  /\ Window \in Nat \ {0} /\ Second \in Nat \ {0} /\ MaxLag \in Nat
  /\ Never \notin Nat
BY LimiterAssumption DEF Never

LEMMA RulesFacts == \A r \in Requests : Rules(r) \subseteq Keys
BY DEF Keys

LEMMA LimitFacts == \A k \in Keys : LimitOf(k) \in Nat \ {0}
<1> SUFFICES ASSUME NEW r \in Requests, NEW k \in Rules(r) PROVE LimitOf(k) \in Nat \ {0}
  BY DEF Keys
<1>1. k[1] \in Scopes
  BY LimiterAssumption DEF Rules, Scopes, PerUser, Routes
<1> QED
  BY <1>1, LimiterAssumption DEF LimitOf

\* A finite set of entries has an oldest one.
LEMMA OldestExists ==
  ASSUME NEW S, IsFiniteSet(S), S # {}, \A e \in S : e.stamp \in Nat
  PROVE  \E e \in S : \A f \in S : e.stamp <= f.stamp
<1> DEFINE Older(e) == {f \in S : f.stamp < e.stamp}
           T == {Older(e) : e \in S}
<1>1. IsWellFoundedOn(StrictSubsetOrdering(S), SUBSET S)
  BY FS_StrictSubsetOrderingWellFounded, FS_FiniteSubsetsOfFinite
<1>2. T \subseteq SUBSET S /\ T # {}
  OBVIOUS
<1>3. \E x \in T : \A y \in T : <<y, x>> \notin StrictSubsetOrdering(S)
  <2> HIDE DEF T
  <2> QED
    BY <1>1, <1>2, WFMin
<1>4. PICK e \in S : \A f \in S : <<Older(f), Older(e)>> \notin StrictSubsetOrdering(S)
  BY <1>3
<1>5. ASSUME NEW f \in S, f.stamp < e.stamp PROVE FALSE
  <2>1. Older(f) \subseteq Older(e) /\ f \in Older(e) /\ f \notin Older(f)
    BY <1>5
  <2>2. <<Older(f), Older(e)>> \in StrictSubsetOrdering(S)
    BY <2>1 DEF StrictSubsetOrdering
  <2> QED
    BY <1>4, <2>2
<1> QED
  BY <1>5

LEMMA Smaller ==
  ASSUME NEW S, IsFiniteSet(S), NEW T \in SUBSET S
  PROVE  /\ IsFiniteSet(T) /\ Cardinality(T) \in Nat /\ Cardinality(S) \in Nat
         /\ Cardinality(T) <= Cardinality(S)
         /\ \A x \in S : x \notin T => Cardinality(T) < Cardinality(S)
BY FS_Subset, FS_CardinalityType

LEMMA InitIInv == Init => IInv
<1> SUFFICES ASSUME Init PROVE IInv
  OBVIOUS
<1>1. TypeOK
  BY Constants, FS_EmptySet, LimitFacts DEF Init, TypeOK
<1> QED
  BY <1>1 DEF Init, IInv, RefusedIsFree, Stamped, Lives, Covers, Recent, Promised

-----------------------------------------------------------------------------
\* What a request finds: its stamp, and logs of which only old entries are trimmed.
LEMMA Arrival ==
  ASSUME IInv, NEW r \in Requests, NEW stamp \in Stamps
  PROVE  /\ stamp \in Nat /\ stamp <= now /\ stamp >= now - MaxLag
         /\ \A k \in Keys :
              /\ Kept(k, stamp) \subseteq log[k] /\ IsFiniteSet(Kept(k, stamp))
              /\ Cardinality(Kept(k, stamp)) \in Nat /\ Cardinality(Kept(k, stamp)) <= LimitOf(k)
              /\ Recent(k) \subseteq Kept(k, stamp)
<1>1. stamp \in Nat /\ stamp <= now /\ stamp >= now - MaxLag
  BY Constants DEF Stamps, IInv, TypeOK
<1>2. ASSUME NEW k \in Keys PROVE
        /\ Kept(k, stamp) \subseteq log[k] /\ IsFiniteSet(Kept(k, stamp))
        /\ Cardinality(Kept(k, stamp)) \in Nat /\ Cardinality(Kept(k, stamp)) <= LimitOf(k)
  <2>1. Kept(k, stamp) \in SUBSET log[k]
    BY DEF Kept
  <2>2. IsFiniteSet(log[k]) /\ Cardinality(log[k]) <= LimitOf(k)
    BY DEF IInv, TypeOK
  <2> QED
    BY <2>1, <2>2, Smaller, LimitFacts
<1>3. ASSUME NEW k \in Keys, NEW e \in Recent(k) PROVE e \in Kept(k, stamp)
  <2>1. e \in log[k] /\ e \in accepted /\ e.real > now - (Window - MaxLag) /\ e.stamp >= e.real - MaxLag
    BY DEF IInv, Covers, Recent, Stamped
  <2>2. e.real \in Nat /\ e.stamp \in Nat /\ now \in Nat
    BY <2>1 DEF IInv, TypeOK
  <2> QED
    BY <1>1, <2>1, <2>2, Constants DEF Kept
<1> QED
  BY <1>1, <1>2, <1>3

LEMMA AcceptKeeps ==
  ASSUME IInv, NEW r \in Requests, NEW stamp \in Stamps, Accept(r, stamp)
  PROVE  IInv'
<1> USE Constants, RulesFacts
<1> DEFINE new == Entry(r, stamp)
<1>1. /\ Charged(r, stamp) = Rules(r) /\ Rules(r) \subseteq Keys /\ now' = now
      /\ \A k \in Rules(r) : Cardinality(Kept(k, stamp)) < LimitOf(k)
  <2>1. \A k \in Rules(r) : ~Full(k, stamp)
    BY DEF Accept, Blocking
  <2> QED
    BY <2>1, Arrival, LimitFacts DEF Accept, Charged, Full
<1>2. /\ new.stamp = stamp /\ new.real = now /\ new.rules = Rules(r)
      /\ accepted' = accepted \cup {new}
  BY DEF Accept, Entry
<1>3. \A k \in Keys : log'[k] = IF k \in Rules(r) THEN Kept(k, stamp) \cup {new} ELSE log[k]
  BY <1>1 DEF Accept, Record, Trimmed
<1>4. expires' = [k \in Keys |-> IF k \in Rules(r) THEN now + Window ELSE expires[k]]
  BY <1>1 DEF Accept, Record, Lifetime
<1>5. told' = [q \in Requests |-> IF Rules(q) \cap Rules(r) # {} THEN Never ELSE told[q]]
  BY DEF Accept
<1> HIDE DEF new
<1>6. now \in Nat /\ now >= MaxLag /\ stamp \in Nat /\ stamp <= now /\ stamp >= now - MaxLag
  BY Arrival DEF IInv, TypeOK
<1>7. TypeOK'
  <2>1. ASSUME NEW k \in Keys PROVE IsFiniteSet(log'[k]) /\ Cardinality(log'[k]) <= LimitOf(k)
    <3>1. CASE k \in Rules(r)
      <4>1. IsFiniteSet(Kept(k, stamp)) /\ Cardinality(Kept(k, stamp)) \in Nat /\ LimitOf(k) \in Nat
        BY Arrival, LimitFacts
      <4>2. /\ IsFiniteSet(Kept(k, stamp) \cup {new})
            /\ Cardinality(Kept(k, stamp) \cup {new}) \in {Cardinality(Kept(k, stamp)), Cardinality(Kept(k, stamp)) + 1}
        BY <4>1, FS_AddElement
      <4> QED
        BY <1>1, <1>3, <3>1, <4>1, <4>2
    <3>2. CASE k \notin Rules(r)
      BY <1>3, <3>2 DEF IInv, TypeOK
    <3> QED
      BY <3>1, <3>2
  <2>2. \A e \in accepted' : e.stamp \in Nat /\ e.real \in Nat /\ e.rules \subseteq Keys
    BY <1>1, <1>2, <1>6 DEF IInv, TypeOK
  <2>3. expires' \in [Keys -> Nat] /\ told' \in [Requests -> Nat \cup {Never}]
    BY <1>4, <1>5, <1>6 DEF IInv, TypeOK
  <2> QED
    BY <1>1, <1>6, <2>1, <2>2, <2>3 DEF TypeOK
<1>8. RefusedIsFree'
  <2> SUFFICES ASSUME NEW k \in Keys, NEW e \in log'[k] PROVE e \in accepted' /\ k \in e.rules
    BY DEF RefusedIsFree
  <2>1. CASE e = new /\ k \in Rules(r)
    BY <1>2, <2>1
  <2>2. CASE e \in log[k]
    BY <1>2, <2>2 DEF IInv, RefusedIsFree
  <2> QED
    BY <1>3, <2>1, <2>2, Arrival
<1>9. Stamped' /\ Lives'
  BY <1>1, <1>2, <1>4, <1>6 DEF IInv, TypeOK, Stamped, Lives
<1>10. Covers'
  <2>1. \A k \in Keys : Recent(k)' \subseteq Recent(k) \cup (IF k \in Rules(r) THEN {new} ELSE {})
    BY <1>1, <1>2 DEF Recent
  <2> QED
    BY <1>3, <2>1, Arrival DEF IInv, Covers
<1>11. Promised'
  <2> SUFFICES ASSUME NEW q \in Requests, told'[q] # Never, NEW k \in Rules(q)
               PROVE  Cardinality(Left(log'[k], told'[q])) < LimitOf(k)
    BY DEF Promised
  <2>1. told'[q] = told[q] /\ k \notin Rules(r) /\ k \in Keys
    BY <1>5
  <2>2. Left(log'[k], told'[q]) = Left(log[k], told[q])
    BY <1>3, <2>1 DEF Left
  <2> QED
    BY <2>1, <2>2 DEF IInv, Promised
<1> QED
  BY <1>7, <1>8, <1>9, <1>10, <1>11 DEF IInv

LEMMA RejectKeeps ==
  ASSUME IInv, NEW r \in Requests, NEW stamp \in Stamps, Reject(r, stamp)
  PROVE  IInv'
<1> USE Constants, RulesFacts
<1>1. Charged(r, stamp) = {} /\ now' = now /\ accepted' = accepted
  BY DEF Reject, Charged
<1>2. \A k \in Keys : log'[k] = IF k \in Rules(r) THEN Kept(k, stamp) ELSE log[k]
  BY <1>1 DEF Reject, Record, Trimmed
<1>3. expires' = expires
  <2>1. expires' = [k \in Keys |-> expires[k]]
    BY <1>1 DEF Reject, Record
  <2> QED
    BY <2>1 DEF IInv, TypeOK
<1>4. PICK wait \in Longest(r, stamp) : \E h \in RetryAfter(wait) : told' = [told EXCEPT ![r] = stamp + h]
  BY DEF Reject
<1>5. PICK h \in RetryAfter(wait) : told' = [told EXCEPT ![r] = stamp + h]
  BY <1>4
<1>6. stamp \in Nat /\ now \in Nat
  BY Arrival DEF IInv, TypeOK
<1>7. \A k \in Keys : \A e \in Kept(k, stamp) : e.stamp \in Nat /\ e.stamp > stamp - Window
  BY DEF Kept, IInv, TypeOK, RefusedIsFree
<1>8. wait \in Nat
  <2>1. PICK k \in Blocking(r, stamp) : \E e \in Kept(k, stamp) :
          wait = IF e.stamp + Window - stamp < 1 THEN 1 ELSE e.stamp + Window - stamp
    BY DEF Longest, Waits, Oldest
  <2> QED
    BY <1>6, <1>7, <2>1 DEF Blocking
<1>9. h \in Nat /\ h >= wait
  BY <1>5, <1>8 DEF RetryAfter
<1>10. \A k \in Keys : log'[k] \in SUBSET log[k]
  BY <1>2 DEF Kept
<1>11. TypeOK'
  <2>1. ASSUME NEW k \in Keys PROVE IsFiniteSet(log'[k]) /\ Cardinality(log'[k]) <= LimitOf(k)
    BY <1>2, Arrival DEF IInv, TypeOK
  <2>2. told' \in [Requests -> Nat \cup {Never}]
    BY <1>5, <1>6, <1>9 DEF IInv, TypeOK
  <2> QED
    BY <1>1, <1>3, <2>1, <2>2 DEF IInv, TypeOK
<1>12. RefusedIsFree' /\ Stamped' /\ Lives'
  BY <1>1, <1>3, <1>10 DEF IInv, RefusedIsFree, Stamped, Lives
<1>13. Covers'
  BY <1>1, <1>2, Arrival DEF IInv, Covers, Recent
<1>14. Promised'
  <2> SUFFICES ASSUME NEW q \in Requests, told'[q] # Never, NEW k \in Rules(q)
               PROVE  Cardinality(Left(log'[k], told'[q])) < LimitOf(k)
    BY DEF Promised
  <2>0. k \in Keys /\ LimitOf(k) \in Nat
    BY LimitFacts
  <2>1. CASE q # r
    <3>1. told'[q] = told[q]
      BY <1>5, <2>1 DEF IInv, TypeOK
    <3>2. Left(log'[k], told'[q]) \in SUBSET Left(log[k], told[q])
      BY <1>10, <2>0, <3>1 DEF Left
    <3>3. IsFiniteSet(Left(log[k], told[q]))
      BY <2>0, Smaller DEF Left, IInv, TypeOK
    <3>4. Cardinality(Left(log[k], told[q])) < LimitOf(k)
      BY <3>1 DEF IInv, Promised
    <3> QED
      BY <2>0, <3>2, <3>3, <3>4, Smaller
  <2>2. CASE q = r
    <3>1. told'[q] = stamp + h
      BY <1>5, <2>2 DEF IInv, TypeOK
    <3>2. Left(log'[k], told'[q]) = Left(Kept(k, stamp), stamp + h)
      BY <1>2, <2>0, <2>2, <3>1
    <3> DEFINE L == Left(Kept(k, stamp), stamp + h)
    <3>3. IsFiniteSet(Kept(k, stamp)) /\ Cardinality(Kept(k, stamp)) \in Nat /\ Cardinality(Kept(k, stamp)) <= LimitOf(k)
      BY <2>0, Arrival
    <3>4. Cardinality(L) \in Nat /\ Cardinality(L) <= Cardinality(Kept(k, stamp))
          /\ \A x \in Kept(k, stamp) : x \notin L => Cardinality(L) < Cardinality(Kept(k, stamp))
      <4>1. L \in SUBSET Kept(k, stamp)
        BY DEF Left
      <4> QED
        BY <3>3, <4>1, Smaller
    <3>5. CASE ~Full(k, stamp)
      <4>1. Cardinality(Kept(k, stamp)) < LimitOf(k)
        BY <2>0, <3>3, <3>5 DEF Full
      <4> QED
        BY <2>0, <3>2, <3>3, <3>4, <4>1
    <3>6. CASE Full(k, stamp)
      <4>1. Kept(k, stamp) # {}
        <5>1. Cardinality(Kept(k, stamp)) >= LimitOf(k) /\ LimitOf(k) \in Nat \ {0}
          BY <2>0, <3>6, LimitFacts DEF Full
        <5>2. Kept(k, stamp) = {} => Cardinality(Kept(k, stamp)) = 0
          BY FS_EmptySet
        <5> QED
          BY <5>1, <5>2
      <4>2. PICK o \in Kept(k, stamp) : \A f \in Kept(k, stamp) : o.stamp <= f.stamp
        BY <1>7, <2>0, <3>3, <4>1, OldestExists
      <4>3. k \in Blocking(r, stamp) /\ o \in Oldest(k, stamp)
        BY <2>2, <3>6, <4>2 DEF Blocking, Oldest
      <4>4. (IF o.stamp + Window - stamp < 1 THEN 1 ELSE o.stamp + Window - stamp) <= wait
        BY <1>4, <4>3 DEF Longest, Waits
      <4>5. o \notin L
        BY <1>6, <1>7, <1>8, <1>9, <2>0, <4>4 DEF Left
      <4> QED
        BY <2>0, <3>2, <3>3, <3>4, <4>5
    <3> QED
      BY <3>5, <3>6
  <2> QED
    BY <2>1, <2>2
<1> QED
  BY <1>11, <1>12, <1>13, <1>14 DEF IInv

LEMMA TickKeeps ==
  ASSUME IInv, Tick
  PROVE  IInv'
<1> USE Constants, RulesFacts
<1>1. now' = now + 1 /\ UNCHANGED <<expires, accepted, told>> /\ now \in Nat /\ now >= MaxLag
  BY DEF Tick, IInv, TypeOK
<1>2. \A k \in Keys : log'[k] = IF expires[k] <= now + 1 THEN {} ELSE log[k]
  BY <1>1 DEF Tick
<1>3. TypeOK'
  <2>1. ASSUME NEW k \in Keys PROVE IsFiniteSet(log'[k]) /\ Cardinality(log'[k]) <= LimitOf(k)
    BY <1>2, FS_EmptySet, LimitFacts DEF IInv, TypeOK
  <2>2. now' \in Nat /\ now' >= MaxLag
    BY <1>1
  <2> QED
    BY <1>1, <2>1, <2>2 DEF IInv, TypeOK
<1>4. RefusedIsFree' /\ Lives'
  BY <1>1, <1>2 DEF IInv, RefusedIsFree, Lives
<1>5. Stamped'
  <2> SUFFICES ASSUME NEW e \in accepted PROVE e.real <= now + 1 /\ e.stamp >= e.real - MaxLag
    BY <1>1 DEF Stamped
  <2> QED
    BY <1>1 DEF IInv, Stamped, TypeOK
<1>6. Covers'
  <2> SUFFICES ASSUME NEW k \in Keys, NEW e \in accepted, k \in e.rules, e.real > now + 1 - (Window - MaxLag)
               PROVE  e \in log'[k]
    BY <1>1 DEF Covers, Recent
  <2>1. e.real \in Nat /\ expires[k] \in Nat /\ expires[k] >= e.real + Window
    BY DEF IInv, TypeOK, Lives
  <2>2. e \in log[k]
    BY <1>1, <2>1 DEF IInv, Covers, Recent
  <2>3. ~(expires[k] <= now + 1)
    BY <1>1, <2>1
  <2> QED
    BY <1>2, <2>2, <2>3
<1>7. Promised'
  <2> SUFFICES ASSUME NEW q \in Requests, told[q] # Never, NEW k \in Rules(q)
               PROVE  Cardinality(Left(log'[k], told'[q])) < LimitOf(k)
    BY <1>1 DEF Promised
  <2>1. k \in Keys /\ LimitOf(k) \in Nat
    BY LimitFacts
  <2>2. Left(log'[k], told'[q]) \in SUBSET Left(log[k], told[q])
    BY <1>1, <1>2, <2>1 DEF Left
  <2>3. IsFiniteSet(Left(log[k], told[q]))
    BY <2>1, Smaller DEF Left, IInv, TypeOK
  <2> QED
    BY <2>1, <2>2, <2>3, Smaller DEF IInv, Promised
<1> QED
  BY <1>3, <1>4, <1>5, <1>6, <1>7 DEF IInv

LEMMA Inductive == IInv /\ [Next]_vars => IInv'
<1> SUFFICES ASSUME IInv, [Next]_vars PROVE IInv'
  OBVIOUS
<1>1. CASE UNCHANGED vars
  BY <1>1 DEF vars, IInv, TypeOK, RefusedIsFree, Stamped, Lives, Covers, Recent, Promised, Left
<1> QED
  BY <1>1, AcceptKeeps, RejectKeeps, TickKeeps DEF Next

-----------------------------------------------------------------------------
\* The invariant is inductive.
THEOREM LimiterInvariant == Spec => []IInv
BY InitIInv, Inductive, PTL DEF Spec

\* No log ever holds more entries than its limit (TypeOK).
THEOREM LimiterTypeCorrect == Spec => []TypeOK
BY LimiterInvariant, PTL DEF IInv

\* No rule lets more than its limit through in the window less the lag
\* (NeverTooMany).
THEOREM LimitHolds == Spec => []NeverTooMany
<1>1. IInv => NeverTooMany
  <2> SUFFICES ASSUME IInv, NEW k \in Keys PROVE Cardinality(Recent(k)) <= LimitOf(k)
    BY DEF NeverTooMany
  <2>1. Recent(k) \in SUBSET log[k] /\ IsFiniteSet(log[k]) /\ Cardinality(log[k]) <= LimitOf(k)
    BY DEF IInv, Covers, TypeOK
  <2> QED
    BY <2>1, Smaller, LimitFacts
<1> QED
  BY <1>1, LimiterInvariant, PTL

\* A refused request is charged to no rule (RefusedIsFree).
THEOREM RefusalsFree == Spec => []RefusedIsFree
BY LimiterInvariant, PTL DEF IInv

\* Who waits as long as told, and is not overtaken, is let in (RetryHonoured).
THEOREM WaitSuffices == Spec => RetryHonoured
<1>1. IInv => \A r \in Requests, stamp \in Stamps : InTime(r, stamp) => ~Reject(r, stamp)
  <2> SUFFICES ASSUME IInv, NEW r \in Requests, NEW stamp \in Stamps, InTime(r, stamp), NEW k \in Rules(r)
               PROVE  ~Full(k, stamp)
    BY DEF Reject, Blocking
  <2>1. told[r] \in Nat /\ stamp >= told[r] /\ stamp \in Nat /\ k \in Keys /\ LimitOf(k) \in Nat
    BY Arrival, RulesFacts, LimitFacts DEF InTime, IInv, TypeOK
  <2>2. \A e \in log[k] : e.stamp \in Nat
    BY <2>1 DEF IInv, RefusedIsFree, TypeOK
  <2>3. Kept(k, stamp) \in SUBSET Left(log[k], told[r])
    BY <2>1, <2>2, Constants DEF Kept, Left
  <2>4. IsFiniteSet(Left(log[k], told[r]))
    BY <2>1, Smaller DEF Left, IInv, TypeOK
  <2>5. Cardinality(Left(log[k], told[r])) < LimitOf(k)
    BY DEF InTime, IInv, Promised
  <2> QED
    BY <2>1, <2>3, <2>4, <2>5, Smaller DEF Full
<1> QED
  BY <1>1, LimiterInvariant, PTL DEF Spec, RetryHonoured
=============================================================================
