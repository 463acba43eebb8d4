--------------------------- MODULE StockSyncProofs ---------------------------
(***************************************************************************)
(* For any number of workers and callers and any quotas: without a fault,  *)
(* and until a correction hits what was no drift, the counter in Redis is  *)
(* exactly what PostgreSQL and the calls under way make it, and a          *)
(* correction is made only of a difference seen three times in a row.      *)
(*                                                                         *)
(* The inductive invariant adds to the first what holds while there is no  *)
(* counter or a reset runs (nothing is taken, nobody is under way, so what *)
(* a synchronisation has loaded is the quota), and to the second what the  *)
(* tracker and the one worker at the job know of the past rounds.          *)
(***************************************************************************)
EXTENDS StockSync, FiniteSetTheorems, TLAPS

Absent == stock = NoStock

Quiet ==
  /\ (~disturbed /\ (Absent \/ Resetting)) => taken = 0 /\ Underway = {}
  /\ (~disturbed /\ Absent) => edit.at # "delta"

Loaded ==
  /\ (~disturbed /\ Absent /\ ~Resetting) =>
       \A p \in Synchronising : sync[p].at = "set" => sync[p].available = quota
  /\ edit.at = "set" => edit.quota = quota

Exact == OnlyFaultsDrift /\ Quiet /\ Loaded

Alone == ~disturbed => \A w \in Working : lock = w

Seen(diff, runs) == \A i \in 1 .. runs : read[i] = diff

Rewriting == {w \in Workers : recon[w].at \in {"same", "note", "clear"}}

Remembered ==
  ~disturbed =>
    /\ Rewriting = {} => Seen(tracker.diff, tracker.runs)
    /\ \A w \in Workers :
         /\ recon[w].at = "note" => Seen(recon[w].diff, recon[w].runs)
         /\ recon[w].at = "heal" => Seen(recon[w].diff, HealAfterRuns)

Judged == Alone /\ Remembered

IInv == TypeOK /\ Exact /\ Judged

LEMMA Constants ==
  /\ None \notin Int /\ None \notin Workers /\ Api \notin Syncers /\ IsFiniteSet(Callers)
  /\ Quotas \subseteq Nat /\ MaxCalls \in Nat /\ Budget \in Nat
BY StockAssumption

\* What the parts of the invariant do not mention may change, and the history
\* is only ever disturbed more.
LEMMA ExactKept ==
  ASSUME Exact, UNCHANGED <<quota, taken, stock, call, sync, edit>>, disturbed => disturbed'
  PROVE  Exact'
BY DEF Exact, OnlyFaultsDrift, Quiet, Loaded, Absent, Resetting, Drift, Available, Underway, Pending

LEMMA JudgedKept ==
  ASSUME Judged, UNCHANGED <<tracker, recon, lock, read>>, disturbed => disturbed'
  PROVE  Judged'
BY DEF Judged, Alone, Remembered, Seen, Rewriting, Working

LEMMA UnderwayFinite == IsFiniteSet(Underway) /\ Cardinality(Underway) \in Nat
<1>1. Underway \in SUBSET Callers
  BY DEF Underway
<1> QED
  BY <1>1, Constants, FS_Subset, FS_CardinalityType

\* A call that begins, goes on or ends changes the number under way by one, by
\* nothing, by one.
LEMMA CallCounted ==
  ASSUME call \in [Callers -> {"idle", "reserved", "returning"}],
         NEW c \in Callers, NEW at \in {"idle", "reserved", "returning"},
         call' = [call EXCEPT ![c] = at]
  PROVE  /\ (call[c] = "idle" /\ at # "idle") => Cardinality(Underway') = Cardinality(Underway) + 1
         /\ (call[c] # "idle" /\ at # "idle") => Underway' = Underway
         /\ (call[c] # "idle" /\ at = "idle") => Cardinality(Underway') = Cardinality(Underway) - 1
<1>1. at # "idle" => Underway' = Underway \cup {c}
  BY DEF Underway
<1>2. at = "idle" => Underway' = Underway \ {c}
  BY DEF Underway
<1>3. c \in Underway <=> call[c] # "idle"
  BY DEF Underway
<1>4. Cardinality(Underway \cup {c}) = IF c \in Underway THEN Cardinality(Underway) ELSE Cardinality(Underway) + 1
  BY UnderwayFinite, FS_AddElement
<1>5. Cardinality(Underway \ {c}) = IF c \in Underway THEN Cardinality(Underway) - 1 ELSE Cardinality(Underway)
  BY UnderwayFinite, FS_RemoveElement
<1>6. c \in Underway => Underway \cup {c} = Underway
  OBVIOUS
<1> QED
  BY <1>1, <1>2, <1>3, <1>4, <1>5, <1>6

\* The numbers the difference is made of.
LEMMA Numbers ==
  ASSUME TypeOK
  PROVE  quota \in Nat /\ taken \in Nat /\ Available \in Nat /\ Pending \in Int
BY Constants DEF TypeOK, Available, Pending, EditJob, Idle

LEMMA InitIInv == Init => IInv
<1> SUFFICES ASSUME Init PROVE IInv
  OBVIOUS
<1> USE Constants DEF Init
<1>1. TypeOK
  <2>1. read \in [1 .. HealAfterRuns -> Int \cup {None}] /\ tracker \in [diff : Int, runs : 0 .. HealAfterRuns - 1]
    BY DEF Unseen, Fresh, HealAfterRuns
  <2>2. recon \in [Workers -> ReconJob] /\ edit \in EditJob
    BY DEF ReconJob, EditJob
  <2>3. quota \in Quotas /\ taken \in 0 .. quota
    OBVIOUS
  <2>4. stock \in Int \cup {NoStock} /\ lock \in Workers \cup {Nobody} /\ disturbed \in BOOLEAN
    OBVIOUS
  <2>5. calls \in 0 .. MaxCalls /\ spent \in 0 .. Budget
    OBVIOUS
  <2>6. /\ call \in [Callers -> {"idle", "reserved", "returning"}]
        /\ sync \in [Synchronising -> {Idle} \cup [at : {"load"}] \cup [at : {"set"}, available : Nat]]
    OBVIOUS
  <2> QED
    BY <2>1, <2>2, <2>3, <2>4, <2>5, <2>6 DEF TypeOK
<1>2. Exact
  BY DEF Exact, OnlyFaultsDrift, Quiet, Loaded, Absent, Resetting, Underway, Idle
<1>3. Judged
  BY DEF Judged, Alone, Remembered, Seen, Rewriting, Working, Fresh, Idle
<1> QED
  BY <1>1, <1>2, <1>3 DEF IInv

-----------------------------------------------------------------------------
LEMMA TypeNext ==
  ASSUME TypeOK, Exact, [Next]_vars
  PROVE  TypeOK'
<1> USE Constants
<1> USE DEF TypeOK, NoStock, Nobody
<1>1. ASSUME NEW c \in Callers, Reserve(c) PROVE TypeOK'
  BY <1>1 DEF Reserve, Begins
<1>2. ASSUME NEW c \in Callers, Release(c) PROVE TypeOK'
  BY <1>2 DEF Release, Begins
<1>3. ASSUME NEW c \in Callers, CallEnds(c) PROVE TypeOK'
  BY <1>3 DEF CallEnds, Commit, Refused, Return, Moves, Incremented
<1>4. ASSUME NEW c \in Callers, CallDies(c) PROVE TypeOK'
  BY <1>4 DEF CallDies, Spend, numbers
<1>5. ASSUME NEW w \in Workers, ReconLoads(w) PROVE TypeOK'
  BY <1>5 DEF ReconLoads, ReconTo, ReconJob, numbers, Available
<1>6. ASSUME NEW w \in Workers, ReconStep(w) PROVE TypeOK'
  <2>1. CASE ReconReads(w)
    BY <2>1 DEF ReconReads, ReconTo, ReconJob, numbers, Idle, Unseen
  <2>2. CASE ReconForgets(w)
    BY <2>2 DEF ReconForgets, ReconTo, ReconJob, numbers, Idle, Fresh, HealAfterRuns
  <2>3. CASE ReconJudges(w)
    <3>1. recon[w].diff \in Int
      BY <2>3 DEF ReconJudges, ReconJob, Idle
    <3>2. Runs(recon[w].diff) \in 1 .. HealAfterRuns
      BY <3>1 DEF Runs, HealAfterRuns
    <3>3. recon' \in [Workers -> ReconJob]
      BY <2>3, <3>1, <3>2 DEF ReconJudges, ReconTo, ReconJob, Heals, HealAfterRuns
    <3>4. read' \in [1 .. HealAfterRuns -> Int \cup {None}]
      BY <2>3, <3>1 DEF ReconJudges, HealAfterRuns
    <3> QED
      BY <2>3, <3>3, <3>4 DEF ReconJudges, numbers
  <2>4. CASE ReconNotes(w)
    BY <2>4 DEF ReconNotes, ReconTo, ReconJob, numbers, Idle, HealAfterRuns
  <2>5. CASE ReconHeals(w)
    <3>1. recon[w].diff \in Int
      BY <2>5 DEF ReconHeals, ReconJob, Idle
    <3> QED
      BY <2>5, <3>1 DEF ReconHeals, ReconTo, ReconJob, Incremented, Unseen
  <2>6. CASE ReconClears(w)
    BY <2>6 DEF ReconClears, ReconTo, ReconJob, numbers, Idle, Fresh, HealAfterRuns
  <2> QED
    BY <1>6, <2>1, <2>2, <2>3, <2>4, <2>5, <2>6 DEF ReconStep
<1>7. ASSUME NEW w \in Workers, ReconFails(w) PROVE TypeOK'
  BY <1>7 DEF ReconFails, ReconTo, ReconJob, Spend, numbers, Idle
<1>8. ASSUME NEW p \in Synchronising, SyncLoads(p) PROVE TypeOK'
  <2>1. Available \in Nat
    BY DEF Available
  <2> QED
    BY <1>8, <2>1 DEF SyncLoads, numbers
<1>9. ASSUME NEW p \in Synchronising, SyncSets(p) PROVE TypeOK'
  <2>1. sync[p].available \in Nat
    BY <1>9 DEF SyncSets, Idle
  <2> QED
    BY <1>9, <2>1 DEF SyncSets, Initialized, Idle
<1>10. ASSUME NEW p \in Synchronising, SyncFails(p) PROVE TypeOK'
  BY <1>10 DEF SyncFails, Spend, numbers, Idle
<1>11. CASE EditCommits
  BY <1>11 DEF EditCommits, Spend, EditJob
<1>12. CASE ResetCommits
  BY <1>12 DEF ResetCommits, Spend, EditJob
<1>13. CASE EditStep
  <2>1. CASE EditPassesOn
    <3>1. edit.delta \in Int
      BY <2>1 DEF EditPassesOn, EditJob, Idle
    <3> QED
      BY <2>1, <3>1 DEF EditPassesOn, Incremented, EditJob, Synchronising, Idle
  <2>2. CASE ResetDeletes
    BY <2>2 DEF ResetDeletes, EditJob, Fresh, HealAfterRuns
  <2>3. CASE ResetLoads
    BY <2>3 DEF ResetLoads, EditJob, numbers
  <2>4. CASE ResetSets
    <3>1. edit.quota \in Nat
      BY <2>4 DEF ResetSets, EditJob, Idle
    <3> QED
      BY <2>4, <3>1 DEF ResetSets, ResetTo, EditJob, Synchronising, Idle
  <2> QED
    BY <1>13, <2>1, <2>2, <2>3, <2>4 DEF EditStep
<1>14. CASE Faults
  <2>1. CASE EditFails
    BY <2>1 DEF EditFails, Spend, numbers, EditJob
  <2>2. CASE LeaseEnds
    BY <2>2 DEF LeaseEnds, Spend, numbers
  <2>3. CASE TrackerExpires
    BY <2>3 DEF TrackerExpires, Spend, numbers, Fresh, HealAfterRuns
  <2>4. CASE KeysLost
    BY <2>4 DEF KeysLost, Spend, Fresh, HealAfterRuns
  <2> QED
    BY <1>14, <2>1, <2>2, <2>3, <2>4 DEF Faults
<1>15. CASE UNCHANGED vars
  BY <1>15 DEF vars
<1> QED
  BY <1>1, <1>2, <1>3, <1>4, <1>5, <1>6, <1>7, <1>8, <1>9, <1>10, <1>11, <1>12, <1>13, <1>14, <1>15
  DEF Next, SyncStep

-----------------------------------------------------------------------------
LEMMA ExactNext ==
  ASSUME TypeOK, Exact, [Next]_vars
  PROVE  Exact'
<1> USE Constants
<1>a. TypeOK'
  BY TypeNext
<1>b. /\ quota \in Nat /\ taken \in Nat /\ Available \in Nat /\ Pending \in Int
      /\ Cardinality(Underway) \in Nat /\ IsFiniteSet(Underway)
  BY Numbers, UnderwayFinite
<1> USE <1>b
<1>1. ASSUME NEW c \in Callers, Reserve(c) PROVE Exact'
  <2>1. Cardinality(Underway') = Cardinality(Underway) + 1
    BY <1>1, CallCounted DEF TypeOK, Reserve, Begins
  <2>2. stock \in Int /\ stock' = stock - 1 /\ stock' \in Int /\ stock # NoStock /\ stock' # NoStock
    BY <1>1 DEF Reserve, TypeOK, NoStock
  <2>3. UNCHANGED <<quota, taken, sync, edit>> /\ Available' = Available /\ Pending' = Pending
    BY <1>1 DEF Reserve, Available, Pending
  <2>4. ~disturbed' => ~disturbed /\ ~Resetting /\ ~Resetting'
    BY <1>1, <2>3 DEF Reserve, Resetting
  <2>5. Drift' = Drift
    <3>1. Drift = stock - (Available - Cardinality(Underway) - Pending)
          /\ Drift' = (stock - 1) - (Available - (Cardinality(Underway) + 1) - Pending)
      BY <2>1, <2>2, <2>3 DEF Drift
    <3> QED
      BY <2>2, <3>1
  <2> QED
    BY <2>2, <2>3, <2>4, <2>5 DEF Exact, OnlyFaultsDrift, Quiet, Loaded, Absent
<1>2. ASSUME NEW c \in Callers, Release(c) PROVE Exact'
  <2>1. Cardinality(Underway') = Cardinality(Underway) + 1
    BY <1>2, CallCounted DEF TypeOK, Release, Begins
  <2> QED
    BY <1>2, <2>1
    DEF Exact, OnlyFaultsDrift, Quiet, Loaded, Absent, Resetting, Drift, Available, Pending, TypeOK, Release, NoStock, EditJob, Idle
<1>3. ASSUME NEW c \in Callers, Commit(c) PROVE Exact'
  <2>1. Cardinality(Underway') = Cardinality(Underway) - 1 /\ c \in Underway
    BY <1>3, CallCounted DEF TypeOK, Commit, Moves, Underway
  <2>2. UNCHANGED <<quota, stock, sync, edit, disturbed>> /\ Available' = Available - 1 /\ Pending' = Pending
    BY <1>3 DEF Commit, Available, Pending, TypeOK
  <2>3. ~disturbed => ~Absent /\ ~Resetting /\ ~Resetting' /\ ~Absent'
    BY <2>1, <2>2 DEF Exact, Quiet, Resetting, Absent
  <2>4. ~disturbed => stock \in Int /\ Drift' = Drift
    <3>1. ~disturbed => stock \in Int
      BY <2>3 DEF Absent, TypeOK
    <3>2. Drift = stock - (Available - Cardinality(Underway) - Pending)
          /\ Drift' = stock - ((Available - 1) - (Cardinality(Underway) - 1) - Pending)
      BY <2>1, <2>2 DEF Drift
    <3> QED
      BY <3>1, <3>2
  <2> QED
    BY <2>2, <2>3, <2>4 DEF Exact, OnlyFaultsDrift, Quiet, Loaded, Absent
<1>4. ASSUME NEW c \in Callers, Refused(c) PROVE Exact'
  <2>1. Underway' = Underway
    BY <1>4, CallCounted DEF TypeOK, Refused, Moves
  <2> QED
    BY <1>4, <2>1
    DEF Exact, OnlyFaultsDrift, Quiet, Loaded, Absent, Resetting, Drift, Available, Pending, Refused
<1>5. ASSUME NEW c \in Callers, Return(c) PROVE Exact'
  <2>1. Cardinality(Underway') = Cardinality(Underway) - 1 /\ c \in Underway
    BY <1>5, CallCounted DEF TypeOK, Return, Moves, Underway
  <2>2. UNCHANGED <<quota, taken, sync, edit, disturbed>> /\ Available' = Available /\ Pending' = Pending
    BY <1>5 DEF Return, Available, Pending
  <2>3. ~disturbed => ~Absent /\ ~Resetting /\ ~Resetting'
    BY <2>1, <2>2 DEF Exact, Quiet, Resetting
  <2>4. ~disturbed => stock \in Int /\ stock' = stock + 1 /\ stock' # NoStock
    BY <1>5, <2>3 DEF Return, Incremented, Absent, TypeOK, NoStock
  <2>5. ~disturbed => Drift' = Drift
    <3>1. Drift = stock - (Available - Cardinality(Underway) - Pending)
          /\ (~disturbed => Drift' = (stock + 1) - (Available - (Cardinality(Underway) - 1) - Pending))
      BY <2>1, <2>2, <2>4 DEF Drift
    <3> QED
      BY <2>4, <3>1
  <2> QED
    BY <2>2, <2>3, <2>4, <2>5 DEF Exact, OnlyFaultsDrift, Quiet, Loaded, Absent
<1>6. ASSUME NEW p \in Synchronising, SyncLoads(p) PROVE Exact'
  BY <1>6
  DEF Exact, OnlyFaultsDrift, Quiet, Loaded, Absent, Resetting, Drift, Available, Underway, Pending, TypeOK, SyncLoads, numbers
<1>7. ASSUME NEW p \in Synchronising, SyncSets(p) PROVE Exact'
  <2>1. sync[p].available \in Nat
    BY <1>7 DEF SyncSets, Idle, TypeOK
  <2>2. CASE Absent
    <3>1. stock' = sync[p].available /\ stock' # NoStock
      BY <1>7, <2>1, <2>2 DEF SyncSets, Initialized, Absent, NoStock
    <3>2. (~disturbed /\ ~Resetting) => stock' = quota /\ taken = 0 /\ Cardinality(Underway) = 0 /\ edit.at # "delta"
      BY <1>7, <2>2, <3>1, FS_EmptySet DEF Exact, Quiet, Loaded, SyncSets
    <3> QED
      BY <1>7, <2>2, <3>1, <3>2
      DEF Exact, OnlyFaultsDrift, Quiet, Loaded, Absent, Resetting, Drift, Available, Underway, Pending, TypeOK, SyncSets
  <2>3. CASE ~Absent
    BY <1>7, <2>3
    DEF Exact, OnlyFaultsDrift, Quiet, Loaded, Absent, Resetting, Drift, Available, Underway, Pending, TypeOK, SyncSets, Initialized
  <2> QED
    BY <2>2, <2>3
<1>8. ASSUME NEW p \in Synchronising, SyncFails(p) PROVE Exact'
  BY <1>8
  DEF Exact, OnlyFaultsDrift, Quiet, Loaded, Absent, Resetting, Drift, Available, Underway, Pending, TypeOK, SyncFails, numbers, Idle
<1>9. CASE EditCommits
  <2>1. PICK q \in Quotas : quota' = q /\ edit' = [at |-> "delta", delta |-> q - quota]
    BY <1>9 DEF EditCommits
  <2>2. /\ edit = Idle /\ UNCHANGED <<taken, stock, sync>> /\ Underway' = Underway
        /\ disturbed' = (disturbed \/ Absent)
    BY <1>9 DEF EditCommits, Absent, Underway
  <2>3. Available = quota - taken /\ Available' = q - taken
    BY <2>1, <2>2 DEF Available
  <2>4. Pending = 0 /\ Pending' = q - quota /\ q \in Nat
    BY <2>1, <2>2 DEF Pending, Idle
  <2>5. ~Resetting /\ ~Resetting' /\ edit'.at = "delta"
    BY <2>1, <2>2 DEF Resetting, Idle
  <2>6. ~disturbed' => Drift' = Drift /\ stock # NoStock
    <3> SUFFICES ASSUME ~disturbed' PROVE Drift' = Drift /\ stock # NoStock
      OBVIOUS
    <3>1. stock \in Int /\ stock # NoStock
      BY <2>2 DEF Absent, TypeOK
    <3>2. Drift = stock - ((quota - taken) - Cardinality(Underway) - 0)
          /\ Drift' = stock - ((q - taken) - Cardinality(Underway) - (q - quota))
      BY <2>2, <2>3, <2>4 DEF Drift
    <3>3. \A c \in Nat : stock - ((quota - taken) - c - 0) = stock - ((q - taken) - c - (q - quota))
      BY <2>4, <3>1
    <3> QED
      BY <3>1, <3>2, <3>3
  <2> QED
    BY <2>2, <2>5, <2>6 DEF Exact, OnlyFaultsDrift, Quiet, Loaded, Absent
<1>10. CASE EditPassesOn
  <2>1. edit.delta \in Int
    BY <1>10 DEF EditPassesOn, EditJob, Idle, TypeOK
  <2> QED
    BY <1>10, <2>1
    DEF Exact, OnlyFaultsDrift, Quiet, Loaded, Absent, Resetting, Drift, Available, Underway, Pending, TypeOK, EditPassesOn, Incremented, Idle, NoStock
<1>11. CASE ResetCommits
  BY <1>11
  DEF Exact, OnlyFaultsDrift, Quiet, Loaded, Absent, Resetting, Underway, TypeOK, ResetCommits, Idle
<1>12. CASE ResetDeletes
  BY <1>12
  DEF Exact, OnlyFaultsDrift, Quiet, Loaded, Absent, Resetting, Underway, TypeOK, ResetDeletes
<1>13. CASE ResetLoads
  BY <1>13
  DEF Exact, OnlyFaultsDrift, Quiet, Loaded, Absent, Resetting, Underway, TypeOK, ResetLoads, numbers
<1>14. CASE ResetSets
  <2>1. /\ edit.at = "set" /\ Resetting /\ UNCHANGED <<quota, taken, call, disturbed>>
        /\ edit' = Idle /\ Underway' = Underway
    BY <1>14 DEF ResetSets, Resetting, Underway
  <2>2. stock' = quota /\ quota \in Nat /\ stock' # NoStock
    BY <1>14, <2>1 DEF ResetSets, ResetTo, Exact, Loaded, TypeOK, NoStock
  <2>3. ~disturbed => taken = 0 /\ Cardinality(Underway) = 0
    BY <2>1, FS_EmptySet DEF Exact, Quiet
  <2> QED
    BY <2>1, <2>2, <2>3
    DEF Exact, OnlyFaultsDrift, Quiet, Loaded, Absent, Resetting, Drift, Available, Pending, Idle
<1>15. ASSUME NEW w \in Workers, ReconHeals(w) PROVE Exact'
  <2>1. recon[w].diff \in Int
    BY <1>15 DEF ReconHeals, ReconJob, Idle, TypeOK
  <2>2. ~disturbed' => stock # NoStock /\ stock' # NoStock /\ Drift = recon[w].diff /\ stock' = stock - recon[w].diff
    <3> SUFFICES ASSUME ~disturbed' PROVE stock # NoStock /\ stock' # NoStock /\ Drift = recon[w].diff /\ stock' = stock - recon[w].diff
      OBVIOUS
    <3>1. stock # NoStock /\ Drift = recon[w].diff
      BY <1>15 DEF ReconHeals
    <3>2. stock' = stock + (-recon[w].diff) /\ stock \in Int
      BY <1>15, <3>1 DEF ReconHeals, Incremented, TypeOK
    <3> QED
      BY <2>1, <3>1, <3>2 DEF NoStock
  <2>3. UNCHANGED <<quota, taken, call, sync, edit>> /\ (disturbed => disturbed') /\ Underway' = Underway
    BY <1>15 DEF ReconHeals, Underway
  <2>4. ~disturbed' => Drift' = 0
    <3> DEFINE e == Available - Cardinality(Underway) - Pending
    <3>1. e \in Int
      BY DEF Available, Pending, TypeOK, EditJob, Idle
    <3>2. e' = e
      BY <2>3 DEF Available, Pending
    <3>3. Drift = stock - e /\ Drift' = stock' - e'
      BY DEF Drift
    <3> HIDE DEF e
    <3> QED
      BY <2>1, <2>2, <3>1, <3>2, <3>3 DEF TypeOK, NoStock
  <2> QED
    BY <2>2, <2>3, <2>4
    DEF Exact, OnlyFaultsDrift, Quiet, Loaded, Absent, Resetting
<1>16. ASSUME NEW c \in Callers, CallDies(c) PROVE Exact'
  BY <1>16 DEF CallDies, Exact, OnlyFaultsDrift, Quiet, Loaded, numbers
<1>17. CASE EditFails \/ KeysLost
  BY <1>17 DEF EditFails, KeysLost, Exact, OnlyFaultsDrift, Quiet, Loaded, numbers, Idle
<1>18. CASE LeaseEnds \/ TrackerExpires \/ UNCHANGED vars
  BY <1>18, ExactKept DEF LeaseEnds, TrackerExpires, numbers, vars
<1>19. ASSUME NEW w \in Workers, ReconLoads(w) \/ ReconFails(w) PROVE Exact'
  <2>1. UNCHANGED <<quota, taken, stock, call, sync, edit>> /\ (disturbed => disturbed')
    <3>1. CASE ReconLoads(w)
      BY <3>1 DEF ReconLoads, numbers
    <3>2. CASE ReconFails(w)
      BY <3>2 DEF ReconFails, numbers
    <3> QED
      BY <1>19, <3>1, <3>2
  <2> QED
    BY <2>1, ExactKept
<1>20. ASSUME NEW w \in Workers, ReconReads(w) \/ ReconForgets(w) \/ ReconJudges(w) \/ ReconNotes(w) \/ ReconClears(w)
       PROVE  Exact'
  BY <1>20, ExactKept DEF ReconReads, ReconForgets, ReconJudges, ReconNotes, ReconClears, numbers
<1> QED
  BY <1>1, <1>2, <1>3, <1>4, <1>5, <1>6, <1>7, <1>8, <1>9, <1>10, <1>11, <1>12, <1>13, <1>14, <1>15, <1>16, <1>17, <1>18, <1>19, <1>20
  DEF Next, SyncStep, CallEnds, EditStep, ReconStep, Faults

-----------------------------------------------------------------------------
LEMMA JudgedNext ==
  ASSUME TypeOK, Judged, [Next]_vars
  PROVE  Judged'
<1> USE Constants
<1>a. ASSUME UNCHANGED <<tracker, recon, lock, read>>, disturbed => disturbed' PROVE Judged'
  BY <1>a, JudgedKept
<1>1. ASSUME NEW c \in Callers, Reserve(c) \/ Release(c) \/ CallEnds(c) \/ CallDies(c) PROVE Judged'
  <2>1. UNCHANGED <<tracker, recon, lock, read>>
    BY <1>1 DEF Reserve, Release, CallEnds, Commit, Refused, Return, CallDies
  <2>2. disturbed => disturbed'
    BY <1>1 DEF Reserve, Release, CallEnds, Commit, Refused, Return, CallDies
  <2> QED
    BY <1>a, <2>1, <2>2
<1>2. ASSUME NEW p \in Synchronising, SyncStep(p) \/ SyncFails(p) PROVE Judged'
  BY <1>2, <1>a DEF SyncStep, SyncLoads, SyncSets, SyncFails
<1>3. CASE EditCommits \/ ResetCommits
  BY <1>3, <1>a DEF EditCommits, ResetCommits
<1>4. CASE EditPassesOn \/ ResetLoads \/ ResetSets
  BY <1>4, <1>a DEF EditPassesOn, ResetLoads, ResetSets
<1>5. CASE ResetDeletes \/ TrackerExpires
  BY <1>5 DEF ResetDeletes, TrackerExpires, Judged, Alone, Remembered, Seen, Rewriting, Working, Fresh
<1>6. CASE EditFails \/ LeaseEnds \/ KeysLost
  BY <1>6 DEF EditFails, LeaseEnds, KeysLost, Judged, Alone, Remembered
<1>7. ASSUME NEW w \in Workers, ReconLoads(w) PROVE Judged'
  <2>1. /\ recon[w] = Idle /\ lock' = w /\ UNCHANGED <<tracker, read, disturbed>>
        /\ recon' = [recon EXCEPT ![w] = [at |-> "stock", available |-> Available]]
    BY <1>7 DEF ReconLoads, ReconTo
  <2>2. ~disturbed => Working \subseteq {w}
    BY <1>7 DEF ReconLoads, MayReconcile, Judged, Alone
  <2>3. Working' = Working \cup {w} /\ Rewriting' = Rewriting
    BY <2>1 DEF Working, Rewriting, TypeOK, Idle
  <2>4. Alone'
    BY <2>1, <2>2, <2>3 DEF Alone
  <2>5. Remembered'
    BY <2>1, <2>3 DEF Judged, Remembered, Seen, TypeOK
  <2> QED
    BY <2>4, <2>5 DEF Judged
<1>8. ASSUME NEW w \in Workers, ReconStep(w) PROVE Judged'
  <2>1. w \in Working /\ lock' = lock /\ (disturbed => disturbed') /\ Working' \subseteq Working
    BY <1>8
    DEF ReconStep, ReconReads, ReconForgets, ReconJudges, ReconNotes, ReconHeals, ReconClears, ReconTo, Working, TypeOK, Idle
  <2>2. Alone'
    BY <2>1 DEF Judged, Alone
  <2>3. ~disturbed => \A v \in Workers \ {w} : recon[v] = Idle
    BY <2>1 DEF Judged, Alone, Working
  <2>4. \A v \in Workers \ {w} : recon'[v] = recon[v]
    BY <1>8
    DEF ReconStep, ReconReads, ReconForgets, ReconJudges, ReconNotes, ReconHeals, ReconClears, ReconTo, TypeOK
  <2>5. Remembered'
    <3> SUFFICES ASSUME ~disturbed' PROVE
          /\ Rewriting' = {} => Seen(tracker.diff, tracker.runs)'
          /\ recon'[w].at = "note" => Seen(recon[w].diff, recon[w].runs)'
          /\ recon'[w].at = "heal" => Seen(recon[w].diff, HealAfterRuns)'
      BY <2>1, <2>3, <2>4 DEF Remembered, Idle
    <3>0. ~disturbed
      BY <2>1
    <3>a. Rewriting' = {} <=> recon'[w].at \notin {"same", "note", "clear"}
      BY <2>3, <2>4, <3>0 DEF Rewriting, Idle
    <3>b. Rewriting = {} <=> recon[w].at \notin {"same", "note", "clear"}
      BY <2>3, <3>0 DEF Rewriting, Idle
    <3>1. CASE ReconReads(w)
      <4>1. recon[w].at = "stock" /\ recon[w].available \in Int
        BY <3>1 DEF ReconReads, TypeOK, ReconJob, Idle
      <4>2. CASE stock = recon[w].available
        BY <3>1, <3>a, <4>1, <4>2 DEF ReconReads, ReconTo, TypeOK, NoStock
      <4>3. CASE stock # recon[w].available
        <5>1. UNCHANGED <<tracker, read>> /\ recon'[w].at \in {"idle", "tracker"}
          BY <3>1, <4>3 DEF ReconReads, ReconTo, TypeOK, Idle
        <5>2. Seen(tracker.diff, tracker.runs)
          BY <3>0, <3>b, <4>1 DEF Judged, Remembered
        <5> QED
          BY <5>1, <5>2 DEF Seen
      <4> QED
        BY <4>2, <4>3
    <3>2. CASE ReconForgets(w) \/ ReconClears(w)
      BY <3>2 DEF ReconForgets, ReconClears, ReconTo, Seen, TypeOK, Idle, Fresh
    <3>3. CASE ReconJudges(w)
      <4> DEFINE diff == recon[w].diff
      <4>1. recon[w].at = "tracker" /\ diff \in Int /\ tracker' = tracker
            /\ read' = [i \in 1 .. HealAfterRuns |-> IF i = 1 THEN diff ELSE read[i - 1]]
        BY <3>3 DEF ReconJudges, TypeOK, ReconJob, Idle
      <4>2. Seen(tracker.diff, tracker.runs)
        BY <3>0, <3>b, <4>1 DEF Judged, Remembered
      <4>3. Runs(diff) \in 1 .. HealAfterRuns
        BY <4>1 DEF Runs, TypeOK, HealAfterRuns
      <4>4. \A i \in 1 .. Runs(diff) : read'[i] = diff
        BY <4>1, <4>2, <4>3 DEF Runs, Seen, TypeOK, HealAfterRuns
      <4>5. CASE Heals(Runs(diff))
        <5>1. recon'[w] = [at |-> "heal", diff |-> diff] /\ Runs(diff) = HealAfterRuns
          BY <3>3, <4>3, <4>5 DEF ReconJudges, ReconTo, Heals, TypeOK, HealAfterRuns
        <5>2. tracker.runs = HealAfterRuns - 1 /\ tracker.diff = diff
          BY <5>1 DEF Runs, TypeOK, HealAfterRuns
        <5> QED
          BY <4>1, <4>4, <5>1, <5>2 DEF Seen, HealAfterRuns
      <4>6. CASE ~Heals(Runs(diff))
        <5>1. recon'[w] = [at |-> "note", diff |-> diff, runs |-> Runs(diff)]
          BY <3>3, <4>6 DEF ReconJudges, ReconTo, TypeOK
        <5> QED
          BY <3>a, <4>4, <5>1 DEF Seen
      <4> QED
        BY <4>5, <4>6
    <3>4. CASE ReconNotes(w)
      BY <3>0, <3>4 DEF ReconNotes, ReconTo, Judged, Remembered, Seen, TypeOK, Idle
    <3>5. CASE ReconHeals(w)
      <4>1. recon'[w] = [at |-> "clear"]
        BY <3>5 DEF ReconHeals, ReconTo, TypeOK
      <4> QED
        BY <3>a, <4>1
    <3> QED
      BY <1>8, <3>1, <3>2, <3>3, <3>4, <3>5 DEF ReconStep
  <2> QED
    BY <2>2, <2>5 DEF Judged
<1>9. ASSUME NEW w \in Workers, ReconFails(w) PROVE Judged'
  <2> SUFFICES ASSUME ~disturbed' PROVE Judged'
    BY DEF Judged, Alone, Remembered
  <2>1. /\ ~disturbed /\ recon[w].at \notin {"same", "note", "clear"} /\ UNCHANGED <<tracker, read, lock>>
        /\ recon' = [recon EXCEPT ![w] = Idle]
    BY <1>9 DEF ReconFails, ReconTo
  <2>2. Rewriting' = Rewriting /\ Working' \subseteq Working
    BY <2>1 DEF Rewriting, Working, TypeOK, Idle
  <2> QED
    BY <2>1, <2>2 DEF Judged, Alone, Remembered, Seen, TypeOK, Idle
<1>10. CASE UNCHANGED vars
  BY <1>10, <1>a DEF vars
<1> QED
  BY <1>1, <1>2, <1>3, <1>4, <1>5, <1>6, <1>7, <1>8, <1>9, <1>10 DEF Next, EditStep, Faults

-----------------------------------------------------------------------------
\* The invariant is inductive.
THEOREM StockInvariant == Spec => []IInv
<1>1. IInv /\ [Next]_vars => IInv'
  BY TypeNext, ExactNext, JudgedNext DEF IInv
<1> QED
  BY InitIInv, <1>1, PTL DEF Spec

\* Every variable keeps its type (TypeOK): no row is taken beyond its quota, no
\* tracker counts to the number at which it is acted upon.
THEOREM StockTypeCorrect == Spec => []TypeOK
BY StockInvariant, PTL DEF IInv

\* Synchronisation, edits, resets and calls keep the counter exact; only faults
\* and corrections of what was no drift do not (OnlyFaultsDrift).
THEOREM CounterExact == Spec => []OnlyFaultsDrift
<1>1. IInv => OnlyFaultsDrift
  BY DEF IInv, Exact
<1> QED
  BY <1>1, StockInvariant, PTL

\* Every correction follows three equal sightings in a row (HealsOnlyWhatPersists).
THEOREM CorrectionsPersist == Spec => HealsOnlyWhatPersists
<1>1. IInv /\ [Next]_vars => [\A w \in Workers : (ReconHeals(w) /\ ~disturbed) => Persistent(w)]_vars
  <2> SUFFICES ASSUME IInv, NEW w \in Workers, ReconHeals(w), ~disturbed PROVE Persistent(w)
    OBVIOUS
  <2>1. recon[w].at = "heal"
    BY DEF ReconHeals
  <2> QED
    BY <2>1 DEF IInv, Judged, Remembered, Seen, Persistent
<1> QED
  BY <1>1, StockInvariant, PTL DEF Spec, HealsOnlyWhatPersists
=============================================================================
