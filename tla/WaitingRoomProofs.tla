-------------------------- MODULE WaitingRoomProofs --------------------------
(***************************************************************************)
(* WaitingRoom keeps its limits and its order for every set of accounts    *)
(* and workers, every rate, limit and time to live, however late or many   *)
(* the workers.                                                            *)
(*                                                                         *)
(* The inductive invariant IInv adds what ties the keys together: the      *)
(* admitted key outlives the entry in active (KeyOutlives), which is why a *)
(* session still running is never overwritten and a token always has a     *)
(* seat behind it (TokenBacked); scores stay close to the time of arrival  *)
(* (Stamps), and heartbeats to the last contact (Heard).                   *)
(*                                                                         *)
(* What further theorems need comes with them: those that drew lots stay   *)
(* in front of the rest (LotsFirst), a worker about to admit holds the     *)
(* lease it took until it has run out (Leased), and the whole of it unless *)
(* workers stall (Leads), and every waiting account knows by when the next *)
(* group ahead of it will have been admitted (OnCourse, with Crew and      *)
(* SaleOpen).                                                              *)
(***************************************************************************)
EXTENDS WaitingRoom, FiniteSetTheorems, TLAPS

\* The key set by the step that seats an account outlives the entry.
KeyOutlives == \A u \in Users : active[u] # Absent => active[u] <= admitted[u]

\* A token that is still valid has a seat at least as long, unless its owner left.
TokenBacked == \A u \in Users \ left : token[u] > now => active[u] >= token[u]

\* Lots are below every timestamp; a timestamp is at most MaxLag before the arrival.
Stamps ==
  /\ drew \subseteq Queued
  /\ \A u \in Queued :
       /\ Start <= arrived[u] /\ arrived[u] <= now
       /\ u \in drew => queue[u] \in Lots
       /\ u \notin drew => arrived[u] - MaxLag <= queue[u] /\ queue[u] <= arrived[u]

\* A heartbeat is at most MaxLag before the last contact.
Heard == \A u \in Queued : seen[u] <= hb[u] + MaxLag /\ hb[u] <= now

Limits == ActiveLimit /\ KeyOutlives /\ NeverBoth /\ TokenBacked
Line   == QueueWatched /\ Stamps /\ Heard
IInv   == TypeOK /\ Limits /\ Line

\* What the assumptions say of the constants, in one place.
LEMMA Constants ==
  /\ Users \subseteq Nat /\ IsFiniteSet(Users)
  /\ Start \in Nat /\ Horizon \in Nat /\ MaxLag \in Nat
  /\ SessionTtl \in Nat /\ SessionTtl > 0 /\ HbTimeout \in Nat /\ HbTimeout > 0
  /\ LeaderTtl \in Nat /\ LeaderTtl > 0 /\ Grain \in Nat /\ Grain > 0
  /\ Rate \in Nat /\ Rate > 0 /\ MaxActive \in Nat /\ MaxActive > 0
  /\ Stocks \subseteq Nat /\ Lots \subseteq Nat
  /\ MaxLag <= Start /\ Start <= Horizon
  /\ \A lot \in Lots : lot < Start - MaxLag
BY PeopleAssumption, TimeAssumption, ConfigAssumption

\* Times handed to scripts are times.
LEMMA RecentTimes ==
  ASSUME TypeOK, NEW t \in Recent
  PROVE  t \in Nat /\ now \in Nat /\ now - MaxLag <= t /\ t <= now
BY Constants DEF TypeOK, Recent

-----------------------------------------------------------------------------
(* Types *)

\* A token's exp is a time, not after the end of the session it was made for.
LEMMA TokenEndBound ==
  ASSUME NEW s \in Nat
  PROVE  TokenEnd(s) \in Nat /\ TokenEnd(s) <= s
<1>1. Grain \in Nat /\ Grain > 0
  BY Constants
<1>2. s \div Grain \in Nat /\ s = Grain * (s \div Grain) + (s % Grain) /\ s % Grain \in Nat
  BY <1>1
<1>3. (s \div Grain) * Grain = Grain * (s \div Grain) /\ Grain * (s \div Grain) \in Nat
  BY <1>1, <1>2
<1> QED
  BY <1>2, <1>3 DEF TokenEnd

\* Forgetting keeps the histories in shape.
LEMMA ForgetTypes ==
  ASSUME arrived \in [Users -> Int], seen \in [Users -> Int], drew \subseteq Users,
         NEW S, Forget(S)
  PROVE  arrived' \in [Users -> Int] /\ seen' \in [Users -> Int] /\ drew' \subseteq Users
<1>1. arrived' \in [Users -> Int]
  BY DEF Forget, Absent
<1>2. seen' \in [Users -> Int]
  BY DEF Forget, Absent
<1>3. drew' \subseteq Users
  BY DEF Forget
<1> QED
  BY <1>1, <1>2, <1>3

\* Every step keeps the shape of the state.
LEMMA TypeStep == TypeOK /\ [Next]_vars => TypeOK'
<1> SUFFICES ASSUME TypeOK, [Next]_vars PROVE TypeOK'
  OBVIOUS
<1> USE Constants DEF TypeOK, Absent
<1>1. ASSUME NEW u \in Users, Join(u) PROVE TypeOK'
  <2>1. PICK t \in Recent : \E score \in IF status = "PREQUEUE" THEN Lots ELSE {t} : EnterLine(u, t, score)
    BY <1>1 DEF Join
  <2>2. PICK score \in IF status = "PREQUEUE" THEN Lots ELSE {t} : EnterLine(u, t, score)
    BY <2>1
  <2>3. t \in Nat /\ score \in Int /\ now \in Nat
    BY RecentTimes, <2>2
  <2>4. queue' \in [Users -> Int] /\ hb' \in [Users -> Int]
    BY <2>2, <2>3 DEF EnterLine
  <2>5. /\ IF queue[u] = Absent
           THEN /\ arrived' = [arrived EXCEPT ![u] = now]
                /\ drew' = IF status = "PREQUEUE" THEN drew \cup {u} ELSE drew
           ELSE UNCHANGED <<arrived, drew>>
        /\ seen' = [seen EXCEPT ![u] = now]
    BY <1>1 DEF Join
  <2>6. seen' \in [Users -> Int]
    BY <2>3, <2>5
  <2>7. drew' \subseteq Users
    BY <2>5
  <2>8. arrived' \in [Users -> Int]
    BY <2>3, <2>5
  <2> QED
    BY <1>1, <2>4, <2>6, <2>7, <2>8 DEF Join, envVars, sessionVars, OneSessionLong
<1>2. ASSUME NEW u \in Users, Status(u) PROVE TypeOK'
  <2>1. PICK t \in Recent :
          /\ hb' = [hb EXCEPT ![u] = IF queue[u] # Absent THEN t ELSE @]
          /\ IF status # "SOLD_OUT" /\ Marked(u) /\ active[u] > t
             THEN token' = [token EXCEPT ![u] = TokenEnd(active[u])] /\ left' = left \ {u}
             ELSE UNCHANGED <<token, left>>
    BY <1>2 DEF Status
  <2>2. t \in Nat /\ now \in Nat
    BY RecentTimes
  <2>3. hb' \in [Users -> Int]
    BY <2>1, <2>2
  <2>4. active[u] > t => TokenEnd(active[u]) \in Nat
    BY <2>2, TokenEndBound
  <2>5. token' \in [Users -> Nat] /\ left' \subseteq Users
    BY <2>1, <2>4
  <2>6. seen' \in [Users -> Int]
    BY <1>2, <2>2 DEF Status
  <2>7. UNCHANGED <<now, active>>
    BY <1>2 DEF Status, sessionVars
  <2>8. active[u] > t => TokenEnd(active[u]) <= active[u]
    BY <2>2, TokenEndBound
  <2>9. OneSessionLong'
    BY <2>1, <2>2, <2>4, <2>7, <2>8 DEF OneSessionLong
  <2> QED
    BY <1>2, <2>3, <2>5, <2>6, <2>9 DEF Status, envVars, sessionVars
<1>3. ASSUME NEW u \in Users, Leave(u) PROVE TypeOK'
  <2>1. OneSessionLong'
    BY <1>3 DEF Leave, OneSessionLong
  <2> QED
    BY <1>3, <2>1 DEF Leave, Forget, envVars
<1>4. ASSUME NEW w \in Workers, Acquire(w) PROVE TypeOK'
  <2>1. now \in Nat
    OBVIOUS
  <2>2. worker' \in [Workers -> [job : Jobs, ran : Int]]
    BY <1>4, <2>1 DEF Acquire, Jobs
  <2>3. lock' \in [owner : Workers \cup {NoLock.owner}, until : Nat]
    BY <1>4, <2>1 DEF Acquire
  <2> QED
    BY <1>4, <2>2, <2>3 DEF Acquire, envVars, lineVars, sessionVars, history, OneSessionLong
<1>5. ASSUME NEW w \in Workers, Admit(w) PROVE TypeOK'
  <2>1. PICK t \in worker[w].job.from .. now : \E S \in SUBSET Queued :
          Seat(S, t) /\ Forget(S)
    BY <1>5 DEF Admit
  <2>2. t \in Nat /\ now \in Nat
    BY <1>5 DEF Admit, Jobs, Idle, Dead
  <2>3. worker' \in [Workers -> [job : Jobs, ran : Int]]
    BY <1>5 DEF Admit, Jobs
  <2>4. t <= now /\ UNCHANGED <<now, token>>
    BY <1>5, <2>1, <2>2 DEF Admit
  <2>5. OneSessionLong'
    BY <2>1, <2>2, <2>4 DEF Seat, OneSessionLong
  <2> QED
    BY <1>5, <2>1, <2>2, <2>3, <2>5 DEF Admit, Seat, Forget, envVars
<1>6. ASSUME NEW w \in Workers, WorkerDies(w) PROVE TypeOK'
  BY <1>6 DEF WorkerDies, Jobs, envVars, lineVars, sessionVars, history, OneSessionLong
<1>7. CASE Cleanup
  <2>1. PICK t \in Recent :
          /\ queue' = [u \in Users |-> IF u \in Silent(t - HbTimeout) THEN Absent ELSE queue[u]]
          /\ hb' = [u \in Users |-> IF u \in Silent(t - HbTimeout) THEN Absent ELSE hb[u]]
          /\ Forget(Silent(t - HbTimeout))
    BY <1>7 DEF Cleanup
  <2>2. queue' \in [Users -> Int] /\ hb' \in [Users -> Int]
    BY <2>1
  <2>3. arrived' \in [Users -> Int] /\ seen' \in [Users -> Int] /\ drew' \subseteq Users
    BY <2>1, ForgetTypes
  <2>4. UNCHANGED <<now, envVars, sessionVars, token, lock, worker, left>>
    BY <1>7 DEF Cleanup
  <2> QED
    BY <2>1, <2>2, <2>3, <2>4 DEF envVars, sessionVars, OneSessionLong
<1>8. CASE StatusChanges
  BY <1>8 DEF StatusChanges, lineVars, sessionVars, history, OneSessionLong
<1>9. CASE StockChanges
  BY <1>9 DEF StockChanges, lineVars, sessionVars, history, OneSessionLong
<1>10. CASE Tick
  <2>1. OneSessionLong'
    BY <1>10 DEF Tick, sessionVars, OneSessionLong
  <2> QED
    BY <1>10, <2>1 DEF Tick, envVars, lineVars, sessionVars, history
<1>11. CASE UNCHANGED vars
  BY <1>11 DEF vars, envVars, lineVars, sessionVars, history, OneSessionLong
<1> QED
  BY <1>1, <1>2, <1>3, <1>4, <1>5, <1>6, <1>7, <1>8, <1>9, <1>10, <1>11 DEF Next

-----------------------------------------------------------------------------
(* The steps *)

Joins(u, t, score) ==
  /\ t \in Recent /\ score \in (IF status = "PREQUEUE" THEN Lots ELSE {t})
  /\ ~NeedNotQueue(u) /\ EnterLine(u, t, score)
  /\ queue[u] = Absent =>
       /\ arrived' = [arrived EXCEPT ![u] = now]
       /\ drew' = IF status = "PREQUEUE" THEN drew \cup {u} ELSE drew
  /\ queue[u] # Absent => UNCHANGED <<arrived, drew>>
  /\ seen' = [seen EXCEPT ![u] = now]
  /\ UNCHANGED <<now, active, admitted, token, left>>

Seats(S, t) ==
  /\ S \in SUBSET Queued /\ t \in Nat /\ t <= now
  /\ S = {} \/ (Slots(t) > 0 /\ PoppedFirst(S, Slots(t)))
  /\ Seat(S, t) /\ Forget(S)
  /\ UNCHANGED <<now, token, left>>

Drops(gone, t) ==
  /\ t \in Recent /\ gone = Silent(t - HbTimeout)
  /\ queue' = [u \in Users |-> IF u \in gone THEN Absent ELSE queue[u]]
  /\ hb' = [u \in Users |-> IF u \in gone THEN Absent ELSE hb[u]]
  /\ Forget(gone)
  /\ UNCHANGED <<now, active, admitted, token, left>>

Quiet == UNCHANGED <<now, queue, hb, active, admitted, token, arrived, drew, seen, left>>

\* A join, with the time and the score its script was given.
LEMMA JoinCase ==
  ASSUME NEW u \in Users, Join(u)
  PROVE  \E t, score : Joins(u, t, score)
<1>1. PICK t \in Recent :
        \E score \in IF status = "PREQUEUE" THEN Lots ELSE {t} : EnterLine(u, t, score)
  BY DEF Join
<1>2. PICK score \in IF status = "PREQUEUE" THEN Lots ELSE {t} : EnterLine(u, t, score)
  BY <1>1
<1>3. /\ IF queue[u] = Absent
         THEN /\ arrived' = [arrived EXCEPT ![u] = now]
              /\ drew' = IF status = "PREQUEUE" THEN drew \cup {u} ELSE drew
         ELSE UNCHANGED <<arrived, drew>>
      /\ seen' = [seen EXCEPT ![u] = now]
      /\ ~NeedNotQueue(u)
      /\ UNCHANGED <<now, sessionVars, token, left>>
  BY DEF Join
<1> QED
  BY <1>2, <1>3 DEF Joins, sessionVars

\* A cleanup, with the members it drops.
LEMMA CleanupCase ==
  ASSUME Cleanup
  PROVE  \E gone, t : Drops(gone, t)
<1>1. PICK t \in Recent :
        /\ queue' = [u \in Users |-> IF u \in Silent(t - HbTimeout) THEN Absent ELSE queue[u]]
        /\ hb' = [u \in Users |-> IF u \in Silent(t - HbTimeout) THEN Absent ELSE hb[u]]
        /\ Forget(Silent(t - HbTimeout))
  BY DEF Cleanup
<1>2. UNCHANGED <<now, sessionVars, token, left>>
  BY DEF Cleanup
<1>3. Drops(Silent(t - HbTimeout), t)
  BY <1>1, <1>2 DEF Drops, sessionVars
<1> QED
  BY <1>3

\* What a step does to queue, sessions and tokens.
LEMMA StepCases ==
  ASSUME TypeOK, [Next]_vars
  PROVE  \/ \E u \in Users : \E t, score : Joins(u, t, score)
         \/ \E u \in Users : Status(u) \/ Leave(u)
         \/ \E S, t : Seats(S, t)
         \/ \E gone, t : Drops(gone, t)
         \/ Tick
         \/ Quiet
<1>1. ASSUME NEW u \in Users, Join(u) PROVE \E t, score : Joins(u, t, score)
  BY <1>1, JoinCase
<1>2. ASSUME NEW w \in Workers, Admit(w) PROVE \E S, t : Seats(S, t)
  <2>1. PICK t \in worker[w].job.from .. now : \E S \in SUBSET Queued :
          /\ IF status = "OPEN" /\ Slots(t) > 0 THEN PoppedFirst(S, Slots(t)) ELSE S = {}
          /\ Seat(S, t) /\ Forget(S)
    BY <1>2 DEF Admit
  <2>2. PICK S \in SUBSET Queued :
          /\ IF status = "OPEN" /\ Slots(t) > 0 THEN PoppedFirst(S, Slots(t)) ELSE S = {}
          /\ Seat(S, t) /\ Forget(S)
    BY <2>1
  <2>3. t \in Nat /\ t <= now
    BY <1>2, Constants DEF Admit, TypeOK, Jobs, Idle, Dead
  <2>4. UNCHANGED <<now, token, left>>
    BY <1>2 DEF Admit
  <2> QED
    BY <2>2, <2>3, <2>4 DEF Seats
<1>3. ASSUME Cleanup PROVE \E gone, t : Drops(gone, t)
  BY <1>3, CleanupCase
<1>4. ASSUME NEW w \in Workers, Acquire(w) \/ WorkerDies(w) PROVE Quiet
  BY <1>4 DEF Acquire, WorkerDies, Quiet, lineVars, sessionVars, history
<1>5. ASSUME StatusChanges \/ StockChanges \/ UNCHANGED vars PROVE Quiet
  BY <1>5 DEF StatusChanges, StockChanges, vars, Quiet, lineVars, sessionVars, history
<1> QED
  BY <1>1, <1>2, <1>3, <1>4, <1>5 DEF Next

-----------------------------------------------------------------------------
(* Limits *)

\* The step that admits leaves at most maxActive sessions.
LEMMA SeatsWithinLimit ==
  ASSUME TypeOK, ActiveLimit, NEW S, NEW t, Seats(S, t)
  PROVE  ActiveLimit'
<1>1. IsFiniteSet(Members) /\ Cardinality(Members) \in Nat
  BY Constants, FS_Subset, FS_CardinalityType DEF Members
<1>2. Members' \subseteq Running(t) \cup S
  BY DEF Seats, Seat, Members, Running, Absent, Queued
<1>3. CASE S = {}
  <2>1. Members' \subseteq Members
    BY <1>3 DEF Seats, Seat, Members, Absent
  <2> QED
    BY <1>1, <2>1, FS_Subset, FS_CardinalityType, Constants DEF ActiveLimit
<1>4. CASE Slots(t) > 0 /\ PoppedFirst(S, Slots(t))
  <2>1. IsFiniteSet(Running(t)) /\ Cardinality(Running(t)) \in Nat
    BY Constants, FS_Subset, FS_CardinalityType DEF Running
  <2>2. IsFiniteSet(S) /\ Cardinality(S) \in Nat
    BY Constants, FS_Subset, FS_CardinalityType DEF Seats, Queued
  <2>3. IsFiniteSet(Queued) /\ Cardinality(Queued) \in Nat
    BY Constants, FS_Subset, FS_CardinalityType DEF Queued
  <2>4. Slots(t) \in Int /\ Slots(t) <= MaxActive - Cardinality(Running(t))
    BY <2>1, Constants DEF Slots, TypeOK
  <2>5. Cardinality(S) <= Slots(t)
    BY <1>4, <2>2, <2>3, <2>4 DEF PoppedFirst
  <2>6. IsFiniteSet(Running(t) \cup S)
        /\ Cardinality(Running(t) \cup S)
             = Cardinality(Running(t)) + Cardinality(S) - Cardinality(Running(t) \cap S)
    BY <2>1, <2>2, FS_Union
  <2>7. Cardinality(Running(t) \cap S) \in Nat
    BY <2>1, FS_Subset, FS_CardinalityType
  <2>8. Cardinality(Members') \in Nat /\ Cardinality(Members') <= Cardinality(Running(t) \cup S)
    BY <1>2, <2>6, FS_Subset, FS_CardinalityType
  <2> QED
    BY <2>1, <2>2, <2>4, <2>5, <2>6, <2>7, <2>8, Constants DEF ActiveLimit
<1> QED
  BY <1>3, <1>4 DEF Seats

\* Whoever waits has no session, so admission never overwrites one.
LEMMA LimitsStep ==
  ASSUME TypeOK, Limits, [Next]_vars
  PROVE  Limits'
<1> USE DEF Limits
<1> DEFINE SameSessions == UNCHANGED <<now, active, admitted, token, left>>
<1>1. SameSessions => ActiveLimit' /\ KeyOutlives' /\ TokenBacked'
  BY DEF ActiveLimit, Members, KeyOutlives, TokenBacked
<1>2. SameSessions /\ Queued' \subseteq Queued => NeverBoth'
  BY DEF NeverBoth, InSession, Marked
<1>3. ASSUME NEW u \in Users, NEW t, NEW score, Joins(u, t, score) PROVE Limits'
  <2>1. SameSessions /\ Queued' \subseteq Queued \cup {u}
    BY <1>3 DEF Joins, EnterLine, Queued, TypeOK
  <2>2. ~InSession(u)'
    BY <1>3, Constants DEF Joins, NeedNotQueue, InSession, Marked, TypeOK, Absent
  <2>3. NeverBoth'
    BY <2>1, <2>2 DEF NeverBoth, InSession, Marked
  <2> QED
    BY <1>1, <2>1, <2>3
<1>4. ASSUME NEW u \in Users, Status(u) PROVE Limits'
  <2>1. PICK t \in Recent :
          IF status # "SOLD_OUT" /\ Marked(u) /\ active[u] > t
          THEN token' = [token EXCEPT ![u] = TokenEnd(active[u])] /\ left' = left \ {u}
          ELSE UNCHANGED <<token, left>>
    BY <1>4 DEF Status
  <2>2. UNCHANGED <<now, queue, active, admitted>>
    BY <1>4 DEF Status, sessionVars
  <2>3. ActiveLimit' /\ KeyOutlives' /\ NeverBoth'
    BY <2>2 DEF ActiveLimit, Members, KeyOutlives, NeverBoth, Queued, InSession, Marked
  <2>4. CASE status # "SOLD_OUT" /\ Marked(u) /\ active[u] > t
    <3>1. active[u] \in Nat
      BY <2>4, RecentTimes DEF TypeOK
    <3>2. TokenEnd(active[u]) <= active[u] /\ TokenEnd(active[u]) \in Nat
      BY <3>1, TokenEndBound
    <3>3. TokenBacked'
      BY <2>1, <2>2, <2>4, <3>2 DEF TokenBacked, TypeOK
    <3> QED
      BY <2>3, <3>3
  <2>5. CASE ~(status # "SOLD_OUT" /\ Marked(u) /\ active[u] > t)
    <3>1. UNCHANGED <<token, left>>
      BY <2>1, <2>5
    <3> QED
      BY <1>1, <2>2, <2>3, <3>1
  <2> QED
    BY <2>4, <2>5
<1>5. ASSUME NEW u \in Users, Leave(u) PROVE Limits'
  <2>1. Members' \subseteq Members /\ Queued' \subseteq Queued
    BY <1>5 DEF Leave, Members, Queued, TypeOK, Absent
  <2>2. IsFiniteSet(Members)
    BY Constants, FS_Subset DEF Members
  <2>3. ActiveLimit'
    BY <2>1, <2>2, FS_Subset, FS_CardinalityType, Constants DEF ActiveLimit
  <2>4. \A v \in Users \ {u} : active'[v] = active[v] /\ admitted'[v] = admitted[v]
    BY <1>5 DEF Leave, TypeOK
  <2>5. active'[u] = Absent /\ u \in left' /\ left \subseteq left' /\ UNCHANGED <<now, token>>
    BY <1>5 DEF Leave, TypeOK
  <2>6. KeyOutlives' /\ TokenBacked'
    BY <2>4, <2>5 DEF KeyOutlives, TokenBacked
  <2>7. now \in Nat
    BY Constants DEF TypeOK
  <2>8. NeverBoth'
    BY <2>1, <2>4, <2>5, <2>7 DEF NeverBoth, InSession, Marked, Queued, Absent
  <2> QED
    BY <2>3, <2>6, <2>8
<1>6. ASSUME NEW S, NEW t, Seats(S, t) PROVE Limits'
  <2>1. t \in Nat /\ t <= now /\ now \in Nat /\ UNCHANGED <<now, token, left>> /\ S \subseteq Queued
    BY <1>6, Constants DEF Seats, TypeOK
  <2>2. /\ active' = [u \in Users |-> IF u \in S THEN t + SessionTtl
                                     ELSE IF active[u] > t THEN active[u] ELSE Absent]
        /\ admitted' = [u \in Users |-> IF u \in S THEN now + SessionTtl ELSE admitted[u]]
        /\ queue' = [u \in Users |-> IF u \in S THEN Absent ELSE queue[u]]
    BY <1>6 DEF Seats, Seat
  <2>3. KeyOutlives'
    BY <2>1, <2>2, Constants DEF KeyOutlives, TypeOK, Absent
  <2>4. ASSUME NEW u \in Users \ left, token[u] > now PROVE active'[u] >= token[u]
    <3>1. active[u] >= token[u] /\ active[u] \in Int /\ token[u] \in Nat
      BY <2>4 DEF TokenBacked, TypeOK
    <3>2. active[u] > now /\ active[u] # Absent
      BY <2>1, <2>4, <3>1 DEF Absent
    <3>3. InSession(u)
      BY <2>1, <3>2 DEF KeyOutlives, InSession, Marked, TypeOK
    <3>4. u \notin S
      BY <2>1, <3>3 DEF NeverBoth
    <3> QED
      BY <2>1, <2>2, <3>1, <3>2, <3>4
  <2>5. TokenBacked'
    BY <2>1, <2>4 DEF TokenBacked
  <2>6. NeverBoth'
    BY <2>1, <2>2, Constants DEF NeverBoth, InSession, Marked, Queued, TypeOK, Absent
  <2> QED
    BY <1>6, SeatsWithinLimit, <2>3, <2>5, <2>6
<1>7. ASSUME NEW gone, NEW t, Drops(gone, t) PROVE Limits'
  <2>1. SameSessions /\ Queued' \subseteq Queued
    BY <1>7 DEF Drops, Queued
  <2> QED
    BY <1>1, <1>2, <2>1
<1>8. CASE Tick
  <2>1. now \in Nat /\ now' = now + 1 /\ UNCHANGED <<queue, active, admitted, token, left>>
    BY <1>8, Constants DEF Tick, TypeOK, lineVars, sessionVars
  <2>2. ActiveLimit' /\ KeyOutlives'
    BY <2>1 DEF ActiveLimit, Members, KeyOutlives
  <2>3. NeverBoth' /\ TokenBacked'
    BY <2>1 DEF NeverBoth, InSession, Marked, Queued, TokenBacked, TypeOK
  <2> QED
    BY <2>2, <2>3
<1>9. CASE Quiet
  <2>1. SameSessions /\ Queued' \subseteq Queued
    BY <1>9 DEF Quiet, Queued
  <2> QED
    BY <1>1, <1>2, <2>1
<1> QED
  BY <1>3, <1>4, <1>5, <1>6, <1>7, <1>8, <1>9, StepCases

-----------------------------------------------------------------------------
(* The line *)

\* Whoever joins gets a score and a heartbeat close to its arrival.
LEMMA JoinKeepsLine ==
  ASSUME TypeOK, Line, NEW u \in Users, NEW t, NEW score, Joins(u, t, score)
  PROVE  Line'
<1> USE DEF Line
<1>1. t \in Nat /\ now \in Nat /\ now - MaxLag <= t /\ t <= now /\ UNCHANGED now
  BY RecentTimes DEF Joins
<1>2. score \in Nat
  BY <1>1, Constants DEF Joins
<1>3. /\ queue' = [queue EXCEPT ![u] = IF @ = Absent THEN score ELSE @]
      /\ hb' = [hb EXCEPT ![u] = t] /\ seen' = [seen EXCEPT ![u] = now]
  BY DEF Joins, EnterLine
<1>4. Queued' = Queued \cup {u}
  BY <1>2, <1>3 DEF Queued, TypeOK, Absent
<1>5. QueueWatched'
  BY <1>1, <1>2, <1>3 DEF QueueWatched, TypeOK, Absent
<1>6. Heard'
  BY <1>1, <1>3, <1>4, Constants DEF Heard, TypeOK
<1>7. CASE queue[u] # Absent
  <2>1. UNCHANGED <<queue, arrived, drew>> /\ Queued' = Queued
    BY <1>3, <1>4, <1>7 DEF Joins, TypeOK, Queued
  <2>2. Stamps'
    BY <1>1, <2>1 DEF Stamps
  <2> QED
    BY <1>5, <1>6, <2>2
<1>8. CASE queue[u] = Absent
  <2>1. /\ arrived' = [arrived EXCEPT ![u] = now]
        /\ drew' = IF status = "PREQUEUE" THEN drew \cup {u} ELSE drew
        /\ queue'[u] = score /\ u \notin drew
    BY <1>3, <1>8 DEF Joins, TypeOK, Stamps, Queued
  <2>2. \A v \in Queued : v # u /\ queue'[v] = queue[v] /\ arrived'[v] = arrived[v]
                         /\ (v \in drew' <=> v \in drew)
    BY <1>3, <1>8, <2>1 DEF TypeOK, Queued
  <2>3. Start <= arrived'[u] /\ arrived'[u] <= now /\ arrived'[u] = now
    BY <2>1 DEF TypeOK
  <2>4. u \in drew' => score \in Lots
    BY <2>1 DEF Joins
  <2>5. u \notin drew' => score = t
    BY <2>1 DEF Joins
  <2>6. drew' \subseteq Queued'
    BY <1>4, <2>1 DEF Stamps
  <2>7. Stamps'
    BY <1>1, <1>4, <2>1, <2>2, <2>3, <2>4, <2>5, <2>6 DEF Stamps
  <2> QED
    BY <1>5, <1>6, <2>7
<1> QED
  BY <1>7, <1>8

\* Whoever is taken out of the queue takes its heartbeat and its history along.
LEMMA RemovalKeepsLine ==
  ASSUME TypeOK, Line, NEW S \in SUBSET Users, Forget(S), UNCHANGED now,
         queue' = [u \in Users |-> IF u \in S THEN Absent ELSE queue[u]],
         hb' = [u \in Users |-> IF u \in S THEN Absent ELSE hb[u]]
  PROVE  Line'
<1>1. Queued' = Queued \ S
  BY DEF Queued
<1>2. \A u \in Users \ S : queue'[u] = queue[u] /\ hb'[u] = hb[u]
                         /\ arrived'[u] = arrived[u] /\ seen'[u] = seen[u]
  BY DEF Forget
<1>3. \A u \in S : queue'[u] = Absent /\ hb'[u] = Absent
  OBVIOUS
<1>4. QueueWatched'
  BY <1>2, <1>3 DEF Line, QueueWatched
<1>5. Heard'
  BY <1>1, <1>2 DEF Line, Heard, Queued
<1>6. drew' = drew \ S
  BY DEF Forget
<1>7. Stamps'
  BY <1>1, <1>2, <1>6 DEF Line, Stamps, Queued
<1> QED
  BY <1>4, <1>5, <1>7 DEF Line

\* Queue and heartbeats stay together, scores and heartbeats close to the clock.
LEMMA LineStep ==
  ASSUME TypeOK, Line, [Next]_vars
  PROVE  Line'
<1>1. ASSUME NEW u \in Users, Status(u) PROVE Line'
  <2>1. PICK t \in Recent :
          /\ hb' = [hb EXCEPT ![u] = IF queue[u] # Absent THEN t ELSE @]
          /\ seen' = [seen EXCEPT ![u] = IF queue[u] # Absent THEN now ELSE @]
    BY <1>1 DEF Status
  <2>2. UNCHANGED <<now, queue, arrived, drew>>
    BY <1>1 DEF Status
  <2>3. t \in Nat /\ now \in Nat /\ now - MaxLag <= t /\ t <= now
    BY RecentTimes
  <2>4. QueueWatched'
    BY <2>1, <2>2, <2>3 DEF Line, QueueWatched, TypeOK, Absent
  <2>5. Heard'
    BY <2>1, <2>2, <2>3, Constants DEF Line, Heard, Queued, TypeOK
  <2>6. Stamps'
    BY <2>2 DEF Line, Stamps, Queued
  <2> QED
    BY <2>4, <2>5, <2>6 DEF Line
<1>2. ASSUME NEW u \in Users, Leave(u) PROVE Line'
  <2>1. /\ queue' = [v \in Users |-> IF v \in {u} THEN Absent ELSE queue[v]]
        /\ hb' = [v \in Users |-> IF v \in {u} THEN Absent ELSE hb[v]]
        /\ Forget({u}) /\ UNCHANGED now
    BY <1>2 DEF Leave, TypeOK
  <2> QED
    BY <2>1, RemovalKeepsLine
<1>3. ASSUME NEW S, NEW t, Seats(S, t) PROVE Line'
  BY <1>3, RemovalKeepsLine DEF Seats, Seat, Queued
<1>4. ASSUME NEW gone, NEW t, Drops(gone, t) PROVE Line'
  BY <1>4, RemovalKeepsLine DEF Drops, Silent
<1>5. CASE Tick
  <2>1. now \in Nat /\ now' = now + 1 /\ UNCHANGED <<queue, hb, arrived, drew, seen>>
    BY <1>5, Constants DEF Tick, TypeOK, lineVars, history
  <2>2. QueueWatched' /\ Heard'
    BY <2>1 DEF Line, QueueWatched, Heard, Queued, TypeOK
  <2>3. Stamps'
    BY <2>1 DEF Line, Stamps, Queued, TypeOK
  <2> QED
    BY <2>2, <2>3 DEF Line
<1>6. CASE Quiet
  BY <1>6 DEF Quiet, Line, QueueWatched, Heard, Stamps, Queued
<1> QED
  BY <1>1, <1>2, <1>3, <1>4, <1>5, <1>6, JoinKeepsLine, StepCases

-----------------------------------------------------------------------------
(* Theorems *)

\* Nobody waits and nobody is admitted at first.
LEMMA InitIInv == Init => IInv
<1> SUFFICES ASSUME Init PROVE IInv
  OBVIOUS
<1> USE Constants DEF Init, Absent
<1>1. TypeOK
  BY DEF TypeOK, QueueStatuses, NoLock, Jobs, Idle, OneSessionLong
<1>2. Members = {} /\ Queued = {}
  BY DEF Members, Queued
<1>3. ActiveLimit
  BY <1>2, FS_EmptySet DEF ActiveLimit
<1>4. KeyOutlives /\ NeverBoth /\ TokenBacked
  BY <1>2 DEF KeyOutlives, NeverBoth, TokenBacked
<1>5. Line
  BY <1>2 DEF Line, QueueWatched, Stamps, Heard
<1> QED
  BY <1>1, <1>3, <1>4, <1>5 DEF IInv, Limits

\* IInv is inductive.
LEMMA SpecIInv == Spec => []IInv
<1>1. IInv /\ [Next]_vars => IInv'
  BY TypeStep, LimitsStep, LineStep DEF IInv
<1> QED
  BY InitIInv, <1>1, PTL DEF Spec

\* The state keeps its shape.
THEOREM RoomTypeCorrect == Spec => []TypeOK
<1>1. IInv => TypeOK
  BY DEF IInv
<1> QED
  BY <1>1, SpecIInv, PTL

\* The queue and the heartbeats name the same accounts, so that the cleanup can
\* find every member of the queue.
THEOREM EveryMemberWatched == Spec => []QueueWatched
<1>1. IInv => QueueWatched
  BY DEF IInv, Line
<1> QED
  BY <1>1, SpecIInv, PTL

\* Nobody waits while the session it was admitted to runs.
THEOREM NeverQueuedAndAdmitted == Spec => []NeverBoth
<1>1. IInv => NeverBoth
  BY DEF IInv, Limits
<1> QED
  BY <1>1, SpecIInv, PTL

\* Sessions stay within maxActive, however many workers admit and however late.
THEOREM SessionsLimited == Spec => []ActiveLimit
<1>1. IInv => ActiveLimit
  BY DEF IInv, Limits
<1> QED
  BY <1>1, SpecIInv, PTL

\* Valid tokens of accounts that have not left stay within maxActive.
THEOREM CheckoutLimited == Spec => []CheckoutLimit
<1>1. ASSUME IInv PROVE CheckoutLimit
  <2> DEFINE Holders == {u \in Users \ left : token[u] > now}
  <2>1. now \in Nat /\ active \in [Users -> Int] /\ token \in [Users -> Nat]
    BY <1>1, Constants DEF IInv, TypeOK
  <2>2. Holders \subseteq Members
    BY <1>1, <2>1 DEF IInv, Limits, TokenBacked, Members, Absent
  <2>3. IsFiniteSet(Members) /\ Cardinality(Members) \in Nat
    BY Constants, FS_Subset, FS_CardinalityType DEF Members
  <2>4. Cardinality(Holders) \in Nat /\ Cardinality(Holders) <= Cardinality(Members)
    BY <2>2, <2>3, FS_Subset, FS_CardinalityType
  <2>5. Cardinality(Members) <= MaxActive
    BY <1>1 DEF IInv, Limits, ActiveLimit
  <2> QED
    BY <2>3, <2>4, <2>5, Constants DEF CheckoutLimit
<1> QED
  BY <1>1, SpecIInv, PTL

\* Whoever is taken out of the queue into a session was seated by admit.lua.
LEMMA SeatedBySeats ==
  ASSUME TypeOK, [Next]_vars, NEW u \in Users, Seated(u)
  PROVE  \E S, t : Seats(S, t) /\ u \in S
<1>1. ASSUME NEW v \in Users, NEW t, NEW score, Joins(v, t, score) PROVE FALSE
  BY <1>1 DEF Joins, Seated
<1>2. ASSUME NEW v \in Users, Status(v) PROVE FALSE
  BY <1>2 DEF Status, Seated, sessionVars
<1>3. ASSUME NEW v \in Users, Leave(v) PROVE FALSE
  BY <1>3 DEF Leave, Seated, TypeOK
<1>4. ASSUME NEW gone, NEW t, Drops(gone, t) PROVE FALSE
  BY <1>4 DEF Drops, Seated
<1>5. Tick \/ Quiet => FALSE
  BY DEF Tick, Quiet, Seated, sessionVars
<1>6. ASSUME NEW S, NEW t, Seats(S, t) PROVE u \in S
  BY <1>6 DEF Seats, Seat, Seated, Queued
<1> QED
  BY <1>1, <1>2, <1>3, <1>4, <1>5, <1>6, StepCases

\* The cleanup drops nobody heard of within the timeout, up to MaxLag.
THEOREM OnlySilentDropped == Spec => DropsOnlyTheSilent
<1> DEFINE OnlySilent ==
      Cleanup => \A u \in Queued : queue'[u] = Absent => seen[u] <= now - HbTimeout + MaxLag
<1>1. ASSUME IInv, Cleanup, NEW u \in Queued, queue'[u] = Absent
      PROVE  seen[u] <= now - HbTimeout + MaxLag
  <2>1. PICK t \in Recent :
          queue' = [v \in Users |-> IF v \in Silent(t - HbTimeout) THEN Absent ELSE queue[v]]
    BY <1>1 DEF Cleanup
  <2>2. u \in Silent(t - HbTimeout)
    BY <1>1, <2>1 DEF Queued
  <2>3. hb[u] <= t - HbTimeout /\ t \in Nat /\ now \in Nat /\ t <= now
    BY <1>1, <2>2, RecentTimes DEF Silent, IInv
  <2>4. seen[u] <= hb[u] + MaxLag /\ seen[u] \in Int /\ hb[u] \in Int
    BY <1>1 DEF IInv, Line, Heard, TypeOK, Queued
  <2> QED
    BY <2>3, <2>4, Constants
<1>2. IInv /\ [Next]_vars => [OnlySilent]_vars
  BY <1>1
<1> QED
  BY <1>2, SpecIInv, PTL DEF Spec, DropsOnlyTheSilent

-----------------------------------------------------------------------------
(* Order of arrival *)

\* The waiting room opens once, before the sale: the schedule leads out of SCHEDULED
\* and into PREQUEUE, and never back.
OpensOnce ==
  \A move \in StatusMoves :
    move[2] # "SCHEDULED" /\ (move[2] = "PREQUEUE" => move[1] = "SCHEDULED")

\* Before the sale everybody in the queue drew a lot; afterwards whoever drew one
\* arrived before everybody who did not.
LotsFirst ==
  /\ status = "SCHEDULED" => Queued = {}
  /\ status = "PREQUEUE" => Queued \subseteq drew
  /\ \A u \in drew, v \in Queued \ drew : arrived[u] <= arrived[v]

\* Removing accounts from the queue keeps the others in order.
LEMMA RemovalKeepsLots ==
  ASSUME LotsFirst, NEW S \in SUBSET Users, Forget(S), drew \subseteq Users,
         queue' = [u \in Users |-> IF u \in S THEN Absent ELSE queue[u]]
  PROVE  /\ Queued' \subseteq Queued
         /\ Queued \subseteq drew => Queued' \subseteq drew'
         /\ \A u \in drew', v \in (Queued \ drew)' : arrived'[u] <= arrived'[v]
<1>1. Queued' = Queued \ S
  BY DEF Queued
<1>2. drew' = drew \ S /\ \A u \in Users \ S : arrived'[u] = arrived[u]
  BY DEF Forget
<1>3. Queued \subseteq Users
  BY DEF Queued
<1> QED
  BY <1>1, <1>2, <1>3 DEF LotsFirst

\* No step lets somebody without a lot in before somebody with one.
LEMMA LotsFirstKept ==
  ASSUME OpensOnce, IInv, LotsFirst, [Next]_vars
  PROVE  LotsFirst'
<1>1. TypeOK /\ Stamps /\ drew \subseteq Users
  BY DEF IInv, Line, TypeOK
<1>2. ASSUME NEW u \in Users, Join(u) PROVE LotsFirst'
  <2>1. PICK t \in Recent : \E score \in IF status = "PREQUEUE" THEN Lots ELSE {t} :
          EnterLine(u, t, score)
    BY <1>2 DEF Join
  <2>2. PICK score \in IF status = "PREQUEUE" THEN Lots ELSE {t} : EnterLine(u, t, score)
    BY <2>1
  <2>3. /\ status \in {"PREQUEUE", "OPEN", "PAUSED"} /\ status' = status
        /\ queue[u] = Absent => /\ arrived' = [arrived EXCEPT ![u] = now]
                                /\ drew' = IF status = "PREQUEUE" THEN drew \cup {u} ELSE drew
        /\ queue[u] # Absent => UNCHANGED <<arrived, drew>>
    BY <1>2 DEF Join, envVars
  <2>4. Queued' \subseteq Queued \cup {u}
    BY <1>1, <2>2 DEF EnterLine, Queued, TypeOK
  <2>5. CASE queue[u] # Absent
    <3>1. u \in Queued /\ UNCHANGED <<arrived, drew>> /\ Queued' \subseteq Queued
      BY <2>3, <2>4, <2>5 DEF Queued
    <3> QED
      BY <2>3, <3>1 DEF LotsFirst
  <2>6. CASE queue[u] = Absent
    <3>1. u \notin Queued /\ u \notin drew
      BY <1>1, <2>6 DEF Queued, Stamps
    <3>2. arrived'[u] = now /\ \A v \in Users \ {u} : arrived'[v] = arrived[v]
      BY <1>1, <2>3, <2>6 DEF TypeOK
    <3>3. \A v \in drew : v \in Users /\ arrived[v] <= now
      BY <1>1 DEF Stamps
    <3>4. Queued \subseteq Users
      BY DEF Queued
    <3>5. CASE status = "PREQUEUE"
      <4>1. drew' = drew \cup {u} /\ Queued' \subseteq drew'
        BY <2>3, <2>4, <2>6, <3>5 DEF LotsFirst
      <4> QED
        BY <2>3, <4>1 DEF LotsFirst
    <3>6. CASE status # "PREQUEUE"
      <4>1. drew' = drew
        BY <2>3, <2>6, <3>6
      <4> QED
        BY <2>3, <2>4, <3>1, <3>2, <3>3, <3>4, <3>6, <4>1 DEF LotsFirst
    <3> QED
      BY <3>5, <3>6
  <2> QED
    BY <2>5, <2>6
<1>3. ASSUME NEW S \in SUBSET Users, Forget(S), UNCHANGED status,
             queue' = [u \in Users |-> IF u \in S THEN Absent ELSE queue[u]]
      PROVE  LotsFirst'
  BY <1>1, <1>3, RemovalKeepsLots DEF LotsFirst
<1>4. ASSUME NEW u \in Users, Leave(u) PROVE LotsFirst'
  <2>1. queue' = [v \in Users |-> IF v \in {u} THEN Absent ELSE queue[v]]
    BY <1>1, <1>4 DEF Leave, TypeOK
  <2> QED
    BY <1>3, <1>4, <2>1 DEF Leave, envVars
<1>5. ASSUME NEW w \in Workers, Admit(w) PROVE LotsFirst'
  <2>1. PICK t \in worker[w].job.from .. now : \E S \in SUBSET Queued : Seat(S, t) /\ Forget(S)
    BY <1>5 DEF Admit
  <2>2. PICK S \in SUBSET Queued : Seat(S, t) /\ Forget(S)
    BY <2>1
  <2>3. S \in SUBSET Users /\ status' = status
    BY <1>5 DEF Queued, Admit, envVars
  <2> QED
    BY <1>3, <2>2, <2>3 DEF Seat
<1>6. CASE Cleanup
  <2>1. PICK t \in Recent :
          /\ queue' = [u \in Users |-> IF u \in Silent(t - HbTimeout) THEN Absent ELSE queue[u]]
          /\ Forget(Silent(t - HbTimeout))
    BY <1>6 DEF Cleanup
  <2>2. Silent(t - HbTimeout) \in SUBSET Users /\ status' = status
    BY <1>6 DEF Silent, Cleanup, envVars
  <2> QED
    BY <1>3, <2>1, <2>2
<1>7. CASE StatusChanges
  <2>1. UNCHANGED <<queue, arrived, drew>> /\ Queued' = Queued
    BY <1>7 DEF StatusChanges, lineVars, history, Queued
  <2>2. PICK s \in QueueStatuses : <<status, s>> \in StatusMoves /\ status' = s
    BY <1>7 DEF StatusChanges
  <2>3. status' # "SCHEDULED" /\ (status' = "PREQUEUE" => status = "SCHEDULED")
    BY <2>2 DEF OpensOnce
  <2> QED
    BY <2>1, <2>3 DEF LotsFirst
<1>8. ASSUME UNCHANGED <<status, queue, arrived, drew>> PROVE LotsFirst'
  BY <1>8 DEF LotsFirst, Queued
<1> QED
  BY <1>2, <1>4, <1>5, <1>6, <1>7, <1>8
  DEF Next, Status, Acquire, WorkerDies, StockChanges, Tick, vars, envVars, lineVars, history

\* The step of the theorem that admission follows the lots and the times of arrival.
LEMMA SeatedInOrder ==
  ASSUME IInv, [Next]_vars, NEW u \in Users, NEW v \in Users,
         Seated(u), v \in Queued, queue'[v] # Absent, u \notin drew
  PROVE  v \notin drew /\ arrived[u] <= arrived[v] + MaxLag
<1>1. PICK S, t : Seats(S, t) /\ u \in S
  BY SeatedBySeats DEF IInv
<1>2. v \notin S
  BY <1>1 DEF Seats, Seat
<1>3. PoppedFirst(S, Slots(t))
  BY <1>1 DEF Seats
<1>4. Ahead(u, v)
  BY <1>1, <1>2, <1>3 DEF PoppedFirst
<1>5. /\ queue[u] \in Int /\ queue[v] \in Int /\ queue[u] <= queue[v]
      /\ arrived[u] \in Int /\ arrived[v] \in Int
  BY <1>4 DEF Ahead, IInv, TypeOK
<1>6. u \in Queued /\ Stamps
  BY DEF Seated, IInv, Line
<1>7. Start <= arrived[u] /\ arrived[u] - MaxLag <= queue[u]
  BY <1>6 DEF Stamps
<1>8. v \notin drew
  <2> SUFFICES ASSUME v \in drew PROVE FALSE
    OBVIOUS
  <2>1. queue[v] \in Lots
    BY <1>6 DEF Stamps
  <2> QED
    BY <1>5, <1>7, <2>1, Constants
<1>9. queue[v] <= arrived[v]
  BY <1>6, <1>8 DEF Stamps
<1> QED
  BY <1>5, <1>7, <1>8, <1>9, Constants

\* Admission follows the lots and then the times of arrival, up to MaxLag.
THEOREM NoOvertaking == Spec => NobodyOvertaken
<1> DEFINE InOrder ==
      \A u, v \in Users :
        Seated(u) /\ v \in Queued /\ queue'[v] # Absent =>
          \/ u \in drew
          \/ v \notin drew /\ arrived[u] <= arrived[v] + MaxLag
<1>1. IInv /\ [Next]_vars => [InOrder]_vars
  BY SeatedInOrder
<1> QED
  BY <1>1, SpecIInv, PTL DEF Spec, NobodyOvertaken

\* When the waiting room opens once, whoever arrived after the sale opened is served in
\* order of arrival: nobody who came later is ahead by lot.
THEOREM FirstComeFirstServed == OpensOnce => (Spec => FifoAfterOpening)
<1> SUFFICES ASSUME OpensOnce PROVE Spec => FifoAfterOpening
  OBVIOUS
<1> DEFINE Fifo ==
      \A u, v \in Users :
        Seated(u) /\ v \in Queued \ drew /\ queue'[v] # Absent =>
          arrived[u] <= arrived[v] + MaxLag
<1>1. Init => LotsFirst
  BY DEF Init, LotsFirst, Queued
<1>2. IInv /\ LotsFirst /\ [Next]_vars => LotsFirst'
  BY LotsFirstKept
<1>3. ASSUME IInv, LotsFirst, [Next]_vars,
             NEW u \in Users, NEW v \in Users, Seated(u), v \in Queued \ drew, queue'[v] # Absent
      PROVE  arrived[u] <= arrived[v] + MaxLag
  <2>1. CASE u \notin drew
    BY <1>3, <2>1, SeatedInOrder
  <2>2. CASE u \in drew
    <3>1. arrived[u] <= arrived[v]
      BY <1>3, <2>2 DEF LotsFirst
    <3>2. arrived[u] \in Int /\ arrived[v] \in Int
      BY <1>3 DEF IInv, TypeOK
    <3> QED
      BY <3>1, <3>2, Constants
  <2> QED
    BY <2>1, <2>2
<1>4. IInv /\ LotsFirst /\ [Next]_vars => [Fifo]_vars
  BY <1>3
<1> QED
  BY <1>1, <1>2, <1>4, SpecIInv, PTL DEF Spec, FifoAfterOpening

-----------------------------------------------------------------------------
(* The lease *)

\* The admission job of w is between acquireLeader and admit.lua.
Admitting(w) == worker[w].job.step = "admit"

\* A worker about to admit holds the lease it took in the same unit of time.
Leads ==
  \A w \in Workers : Admitting(w) =>
    lock.owner = w /\ lock.until > now /\ worker[w].job.from = now

\* Workers that do not stall use a lease before it can lapse.
LEMMA LeadsKept ==
  ASSUME ~Stalls, TypeOK, Leads, [Next]_vars
  PROVE  Leads'
<1> USE DEF Admitting
<1>1. now \in Nat /\ lock.until \in Nat /\ LeaderTtl \in Nat /\ LeaderTtl > 0
  BY Constants DEF TypeOK
<1>2. ASSUME NEW w \in Workers, Acquire(w) PROVE Leads'
  <2>1. now' = now
    BY <1>2 DEF Acquire
  <2>2. CASE LockFor(w)
    <3>1. /\ lock' = [owner |-> w, until |-> now + LeaderTtl]
          /\ worker' = [worker EXCEPT ![w] = [job |-> [step |-> "admit", from |-> now], ran |-> now]]
      BY <1>2, <2>2 DEF Acquire
    <3>2. \A v \in Workers \ {w} : ~Admitting(v)
      BY <1>1, <2>2 DEF Leads, LockFor
    <3> QED
      BY <1>1, <2>1, <3>1, <3>2 DEF Leads, TypeOK
  <2>3. CASE ~LockFor(w)
    <3>1. lock' = lock /\ \A v \in Workers : worker'[v].job = worker[v].job
      BY <1>2, <2>3 DEF Acquire, TypeOK
    <3> QED
      BY <2>1, <3>1 DEF Leads
  <2> QED
    BY <2>2, <2>3
<1>3. ASSUME NEW w \in Workers, Admit(w) \/ WorkerDies(w) PROVE Leads'
  <2>1. /\ UNCHANGED <<now, lock>>
        /\ \A v \in Workers \ {w} : worker'[v].job = worker[v].job
        /\ worker'[w].job \in {Idle, Dead}
    BY <1>3 DEF Admit, WorkerDies, TypeOK
  <2>2. Idle.step # "admit" /\ Dead.step # "admit"
    BY DEF Idle, Dead
  <2> QED
    BY <2>1, <2>2 DEF Leads
<1>4. CASE Tick
  <2>1. \A w \in Workers : worker[w].job \in {Idle, Dead} /\ worker' = worker
    BY <1>4 DEF Tick
  <2> QED
    BY <2>1 DEF Leads, Idle, Dead
<1>5. ASSUME UNCHANGED <<now, lock, worker>> PROVE Leads'
  BY <1>5 DEF Leads
<1> QED
  BY <1>2, <1>3, <1>4, <1>5
  DEF Next, Join, Status, Leave, Cleanup, StatusChanges, StockChanges, vars

\* A worker about to admit holds the whole lease it took, or the lease has run out.
Leased ==
  \A w \in Workers : Admitting(w) =>
    \/ lock = [owner |-> w, until |-> worker[w].job.from + LeaderTtl]
    \/ now >= worker[w].job.from + LeaderTtl

\* Nobody takes the lock before the lease has run out, however long its owner stalls.
LEMMA LeasedKept ==
  ASSUME TypeOK, Leased, [Next]_vars
  PROVE  Leased'
<1> USE DEF Admitting
<1>1. now \in Nat /\ lock.until \in Nat /\ LeaderTtl \in Nat /\ LeaderTtl > 0
  BY Constants DEF TypeOK
<1>2. ASSUME NEW v \in Workers, Admitting(v) PROVE worker[v].job.from \in Nat
  BY <1>2 DEF TypeOK, Jobs, Idle, Dead
<1>3. ASSUME NEW w \in Workers, Acquire(w) PROVE Leased'
  <2>1. now' = now /\ ~Admitting(w)
    BY <1>3 DEF Acquire, Idle
  <2>2. CASE LockFor(w)
    <3>1. /\ lock' = [owner |-> w, until |-> now + LeaderTtl]
          /\ worker' = [worker EXCEPT ![w] = [job |-> [step |-> "admit", from |-> now], ran |-> now]]
      BY <1>3, <2>2 DEF Acquire
    <3>2. ASSUME NEW v \in Workers \ {w}, Admitting(v)
          PROVE  now >= worker[v].job.from + LeaderTtl
      BY <1>1, <1>2, <2>2, <3>2 DEF Leased, LockFor
    <3>3. lock' = [owner |-> w, until |-> worker'[w].job.from + LeaderTtl]
      BY <3>1 DEF TypeOK
    <3>4. \A v \in Workers \ {w} : worker'[v] = worker[v]
      BY <3>1 DEF TypeOK
    <3> QED
      BY <2>1, <3>2, <3>3, <3>4 DEF Leased
  <2>3. CASE ~LockFor(w)
    <3>1. lock' = lock /\ \A v \in Workers : worker'[v].job = worker[v].job
      BY <1>3, <2>3 DEF Acquire, TypeOK
    <3> QED
      BY <2>1, <3>1 DEF Leased
  <2> QED
    BY <2>2, <2>3
<1>4. ASSUME NEW w \in Workers, Admit(w) \/ WorkerDies(w) PROVE Leased'
  <2>1. /\ UNCHANGED <<now, lock>>
        /\ \A v \in Workers \ {w} : worker'[v].job = worker[v].job
        /\ worker'[w].job \in {Idle, Dead}
    BY <1>4 DEF Admit, WorkerDies, TypeOK
  <2>2. Idle.step # "admit" /\ Dead.step # "admit"
    BY DEF Idle, Dead
  <2> QED
    BY <2>1, <2>2 DEF Leased
<1>5. CASE Tick
  <2>1. now' = now + 1 /\ UNCHANGED <<lock, worker>>
    BY <1>5 DEF Tick
  <2> QED
    BY <1>1, <1>2, <2>1, Constants DEF Leased
<1>6. ASSUME UNCHANGED <<now, lock, worker>> PROVE Leased'
  BY <1>6 DEF Leased
<1> QED
  BY <1>3, <1>4, <1>5, <1>6
  DEF Next, Join, Status, Leave, Cleanup, StatusChanges, StockChanges, vars

\* Workers that stall, die and come late included: a worker admits under the lease it
\* took, or after standing still for as long as that lease lasts.
THEOREM LeaderAdmits == Spec => AdmitsUnderLease
<1> DEFINE Leader ==
      \A w \in Workers : Admit(w) => \/ lock.owner = w /\ lock.until > now
                                     \/ now >= worker[w].job.from + LeaderTtl
<1>1. Init => Leased
  BY DEF Init, Leased, Admitting, Idle
<1>2. IInv /\ Leased /\ [Next]_vars => Leased'
  BY LeasedKept DEF IInv
<1>3. IInv /\ Leased /\ [Next]_vars => [Leader]_vars
  <2> SUFFICES ASSUME IInv, Leased, NEW w \in Workers, Admit(w)
               PROVE  \/ lock.owner = w /\ lock.until > now
                      \/ now >= worker[w].job.from + LeaderTtl
    OBVIOUS
  <2>1. now \in Nat /\ worker[w].job.from \in Nat /\ LeaderTtl \in Nat
    BY Constants DEF IInv, TypeOK, Admit, Jobs, Idle, Dead
  <2>2. \/ lock = [owner |-> w, until |-> worker[w].job.from + LeaderTtl]
        \/ now >= worker[w].job.from + LeaderTtl
    BY DEF Leased, Admitting, Admit
  <2> QED
    BY <2>1, <2>2
<1> QED
  BY <1>1, <1>2, <1>3, SpecIInv, PTL DEF Spec, AdmitsUnderLease

-----------------------------------------------------------------------------
(* Time until admission *)

\* The sale opens and stays open with tickets for every group, and the workers'
\* timers keep time with the clock.
SaleRuns ==
  /\ ~Stalls /\ Workers # {}
  /\ StatusMoves \subseteq {<<"SCHEDULED", "OPEN">>}
  /\ \A s \in Stocks : s >= Rate

\* Workers that died, the lease a dead leader still has, and the time the deaths
\* so far may have cost.
Gone  == {w \in Workers : worker[w].job = Dead}
Rest  == IF lock.owner \in Gone /\ lock.until > now THEN lock.until - now ELSE 0
Spent == Cardinality(Gone) * LeaderTtl - Rest

\* A worker is left, and whoever ran its tick at this time left a leader behind.
Crew ==
  /\ Gone # Workers
  /\ lock.until <= now + LeaderTtl
  /\ lock.until > now => lock.owner \in Workers
  /\ \A w \in Workers : worker[w].ran <= now /\ (worker[w].ran = now => lock.until > now)

\* Nobody waits before the sale, and nobody has drawn a lot.
SaleOpen ==
  /\ status \in {"SCHEDULED", "OPEN"} /\ drew = {}
  /\ Queued # {} => status = "OPEN"

\* The leader has admitted at this time.
LeaderDone == \E w \in Workers : lock.owner = w /\ worker[w].job = Idle /\ worker[w].ran = now

\* Those ahead of v in the queue, the sessions that run after x, and the time after
\* which nobody gets ahead of v any more.
Place(v) == {u \in Queued : Ahead(u, v)}
Busy(x)  == {u \in Users : active[u] > x}
Begin(v) == queue[v] + MaxLag + 1

\* v is on course: at time x at the latest another group of accounts will have been
\* admitted before v, after j groups; those admitted since the j-th group and those
\* still ahead are all among the others.
Course(v, x, j) ==
  /\ now <= x /\ (LeaderDone => now < x)
  /\ Cardinality(Place(v)) + Cardinality(Busy(x)) + Group * j <= Cardinality(Users) - 1
  /\ x <= Begin(v) + Spent + j * SessionTtl

OnCourse == \A v \in Queued : now >= Begin(v) => \E x, j \in Nat : Course(v, x, j)

\* Arithmetic the solver needs one fact at a time.
LEMMA Products ==
  /\ \A a, c \in Int : (a + 1) * c = a * c + c /\ c * (a + 1) = c * a + c
  /\ \A a, b, c \in Nat : a <= b => a * c <= b * c
  /\ \A a, c \in Nat : a * c \in Nat
  /\ \A a \in Int : 0 * a = 0 /\ a * 0 = 0
OBVIOUS

LEMMA Quotient ==
  ASSUME NEW g \in Nat, g > 0, NEW n \in Nat, NEW j \in Nat, g * j <= n
  PROVE  j <= n \div g
<1>1. n \div g \in Nat /\ n = g * (n \div g) + (n % g) /\ n % g < g
  OBVIOUS
<1> DEFINE q == n \div g
<1>2. CASE j >= q + 1
  <2>1. g * j >= g * (q + 1)
    BY <1>1, <1>2
  <2>2. g * (q + 1) = g * q + g
    BY <1>1, Products
  <2>3. g * q \in Nat /\ g * j \in Nat
    BY <1>1, Products
  <2> QED
    BY <1>1, <2>1, <2>2, <2>3
<1> QED
  BY <1>1, <1>2

\* Sets of accounts and of workers are finite.
LEMMA Finite ==
  /\ \A S \in SUBSET Users : IsFiniteSet(S) /\ Cardinality(S) \in Nat
  /\ \A S \in SUBSET Workers : IsFiniteSet(S) /\ Cardinality(S) \in Nat
  /\ \A S \in SUBSET Users : \A T \in SUBSET S : Cardinality(T) <= Cardinality(S)
BY PeopleAssumption, FS_Subset, FS_CardinalityType

LEMMA GroupBound ==
  Group \in Nat /\ Group > 0 /\ Group <= Rate /\ Group <= MaxActive
BY Constants DEF Group

\* What the deaths cost is never negative and within one lease per worker but one.
LEMMA SpentBound ==
  ASSUME TypeOK, Crew
  PROVE  /\ Spent \in Nat /\ Rest \in Nat /\ Rest <= LeaderTtl
         /\ Spent <= (Cardinality(Workers) - 1) * LeaderTtl
<1> DEFINE d == Cardinality(Gone)
           n == Cardinality(Workers)
<1>1. Gone \in SUBSET Workers /\ d \in Nat /\ n \in Nat /\ IsFiniteSet(Workers)
  BY Finite, PeopleAssumption DEF Gone
<1>2. d <= n - 1
  <2>1. d <= n /\ (d = n => Gone = Workers)
    BY <1>1, FS_Subset
  <2> QED
    BY <1>1, <2>1 DEF Crew
<1>3. /\ now \in Nat /\ lock.until \in Nat /\ LeaderTtl \in Nat /\ LeaderTtl > 0
  BY Constants DEF TypeOK
<1>4. Rest \in Nat /\ Rest <= LeaderTtl /\ (Rest # 0 => lock.owner \in Gone)
  BY <1>3 DEF Rest, Crew
<1>5. Rest # 0 => d >= 1
  <2>1. ASSUME Gone # {} PROVE d # 0
    BY <1>1, <2>1, Finite, FS_EmptySet
  <2> QED
    BY <1>1, <1>4, <2>1
<1>6. d >= 1 => 1 * LeaderTtl <= d * LeaderTtl
  BY <1>1, <1>3, Products
<1>7. d * LeaderTtl \in Nat /\ d * LeaderTtl <= (n - 1) * LeaderTtl
  BY <1>1, <1>2, <1>3, Products
<1>8. (n - 1) * LeaderTtl \in Nat
  BY <1>1, <1>2, <1>3, Products
<1>9. 1 * LeaderTtl = LeaderTtl
  BY <1>3
<1> HIDE DEF d, n
<1>10. Spent = d * LeaderTtl - Rest
  BY DEF Spent, d
<1> QED
  BY <1>3, <1>4, <1>5, <1>6, <1>7, <1>8, <1>9, <1>10 DEF n

\* A crew keeps a worker, and a lease for whoever asked at this time.
LEMMA CrewKept ==
  ASSUME SaleRuns, TypeOK, Crew, [Next]_vars
  PROVE  Crew'
<1>1. now \in Nat /\ lock.until \in Nat /\ LeaderTtl \in Nat /\ LeaderTtl > 0
  BY Constants DEF TypeOK
<1>2. Idle # Dead /\ \A n : [step |-> "admit", from |-> n] # Dead
  BY DEF Idle, Dead
<1>3. ASSUME NEW w \in Workers, Acquire(w) PROVE Crew'
  <2>1. /\ worker[w].job = Idle /\ worker[w].ran < now /\ now' = now
        /\ \A v \in Workers \ {w} : worker'[v] = worker[v]
        /\ worker'[w].ran = now /\ worker'[w].job # Dead
    BY <1>2, <1>3 DEF Acquire, TypeOK
  <2>2. lock' = [owner |-> w, until |-> now + LeaderTtl] \/ (~LockFor(w) /\ lock' = lock)
    BY <1>3 DEF Acquire
  <2>3. lock'.until <= now + LeaderTtl
    BY <1>1, <2>2 DEF Crew
  <2>4. Gone' = Gone /\ Gone # Workers
    BY <1>2, <2>1 DEF Gone, Crew
  <2>5. \A v \in Workers : worker'[v].ran <= now
    BY <1>1, <2>1 DEF Crew
  <2>6. lock'.owner \in Workers /\ lock'.until > now
    <3>1. CASE lock' = [owner |-> w, until |-> now + LeaderTtl]
      BY <1>1, <3>1
    <3>2. CASE ~LockFor(w) /\ lock' = lock
      <4>1. lock.until > now
        BY <1>1, <3>2 DEF LockFor
      <4>2. lock.owner \in Workers
        BY <4>1 DEF Crew
      <4> QED
        BY <3>2, <4>1, <4>2
    <3> QED
      BY <2>2, <3>1, <3>2
  <2> QED
    BY <2>1, <2>3, <2>4, <2>5, <2>6 DEF Crew
<1>4. ASSUME NEW w \in Workers, Admit(w) PROVE Crew'
  <2>1. /\ worker[w].job.step = "admit" /\ UNCHANGED <<now, lock>>
        /\ worker' = [worker EXCEPT ![w].job = Idle]
    BY <1>4 DEF Admit
  <2>2. worker[w].job # Dead
    BY <2>1 DEF Dead
  <2>3. Gone' = Gone
    BY <1>2, <2>1, <2>2 DEF Gone, TypeOK
  <2> QED
    BY <2>1, <2>3 DEF Crew, TypeOK
<1>5. ASSUME NEW w \in Workers, WorkerDies(w) PROVE Crew'
  <2>1. /\ UNCHANGED <<now, lock>> /\ worker' = [worker EXCEPT ![w].job = Dead]
        /\ \E other \in Workers \ {w} : worker[other].job # Dead
    BY <1>5 DEF WorkerDies, SaleRuns
  <2>2. Gone' # Workers
    BY <2>1 DEF Gone, TypeOK
  <2> QED
    BY <2>1, <2>2 DEF Crew, TypeOK
<1>6. CASE Tick
  <2>1. now' = now + 1 /\ UNCHANGED <<lock, worker>>
    BY <1>6 DEF Tick
  <2>2. \A w \in Workers : worker[w].ran \in Int
    BY DEF TypeOK
  <2> QED
    BY <1>1, <2>1, <2>2 DEF Crew, Gone
<1>7. ASSUME UNCHANGED <<now, lock, worker>> PROVE Crew'
  BY <1>7 DEF Crew, Gone
<1> QED
  BY <1>3, <1>4, <1>5, <1>6, <1>7
  DEF Next, Join, Status, Leave, Cleanup, StatusChanges, StockChanges, vars

\* The sale stays open.
LEMMA SaleOpenKept ==
  ASSUME SaleRuns, TypeOK, SaleOpen, [Next]_vars
  PROVE  SaleOpen'
<1>1. ASSUME NEW u \in Users, Join(u) PROVE SaleOpen'
  BY <1>1 DEF Join, SaleOpen, envVars
<1>2. CASE StatusChanges
  <2>1. /\ status = "SCHEDULED" /\ status' = "OPEN"
        /\ UNCHANGED <<queue, drew>>
    BY <1>2 DEF StatusChanges, SaleRuns, lineVars, history
  <2> QED
    BY <2>1 DEF SaleOpen
<1>3. ASSUME UNCHANGED status, Queued' \subseteq Queued, drew' \subseteq drew PROVE SaleOpen'
  BY <1>3 DEF SaleOpen
<1>4. ASSUME NEW u \in Users, Leave(u) PROVE SaleOpen'
  <2>1. UNCHANGED status /\ Queued' \subseteq Queued /\ drew' \subseteq drew
    BY <1>4 DEF Leave, Forget, Queued, envVars, TypeOK
  <2> QED
    BY <1>3, <2>1
<1>5. ASSUME NEW w \in Workers, Admit(w) PROVE SaleOpen'
  <2>1. PICK t \in worker[w].job.from .. now : \E S \in SUBSET Queued : Seat(S, t) /\ Forget(S)
    BY <1>5 DEF Admit
  <2>2. UNCHANGED status /\ Queued' \subseteq Queued /\ drew' \subseteq drew
    BY <1>5, <2>1 DEF Admit, Seat, Forget, Queued, envVars
  <2> QED
    BY <1>3, <2>2
<1>6. CASE Cleanup
  <2>1. UNCHANGED status /\ Queued' \subseteq Queued /\ drew' \subseteq drew
    BY <1>6 DEF Cleanup, Forget, Queued, envVars
  <2> QED
    BY <1>3, <2>1
<1>7. ASSUME UNCHANGED <<status, queue, drew>> PROVE SaleOpen'
  BY <1>7 DEF SaleOpen, Queued
<1> QED
  BY <1>1, <1>2, <1>4, <1>5, <1>6, <1>7
  DEF Next, Status, Acquire, WorkerDies, StockChanges, Tick, vars, envVars, lineVars, history

\* A step that lets nobody ahead of v, seats nobody and gains no time keeps v on course.
LEMMA EasesCourse ==
  ASSUME TypeOK, TypeOK', Crew, NEW v \in Queued, now >= Begin(v),
         \E x, j \in Nat : Course(v, x, j),
         UNCHANGED now, queue'[v] = queue[v], Place(v)' \subseteq Place(v),
         \A u \in Users : active'[u] \in {active[u], Absent},
         Spent' \in Int, Spent' >= Spent, LeaderDone' => LeaderDone
  PROVE  \E x, j \in Nat : Course(v, x, j)'
<1>1. PICK x, j \in Nat : Course(v, x, j)
  OBVIOUS
<1>2. Busy(x)' \subseteq Busy(x)
  BY DEF Busy, Absent, TypeOK
<1>3. /\ Cardinality(Place(v)') <= Cardinality(Place(v))
      /\ Cardinality(Busy(x)') <= Cardinality(Busy(x))
      /\ Cardinality(Place(v)') \in Nat /\ Cardinality(Place(v)) \in Nat
      /\ Cardinality(Busy(x)') \in Nat /\ Cardinality(Busy(x)) \in Nat
      /\ Cardinality(Users) \in Nat
  <2>1. Place(v) \in SUBSET Users /\ Busy(x) \in SUBSET Users
    BY DEF Place, Busy, Queued
  <2> QED
    BY <1>2, <2>1, Finite
<1>4. Group * j \in Nat /\ j * SessionTtl \in Nat
  BY GroupBound, Constants, Products
<1>5. Spent \in Nat /\ Begin(v) \in Int /\ Begin(v)' = Begin(v)
  BY SpentBound, Constants DEF Begin, TypeOK, Queued
<1>6. Cardinality(Place(v)') + Cardinality(Busy(x)') + Group * j <= Cardinality(Users) - 1
  BY <1>1, <1>3, <1>4 DEF Course
<1>7. x <= Begin(v)' + Spent' + j * SessionTtl
  BY <1>1, <1>4, <1>5 DEF Course
<1>8. now' <= x /\ (LeaderDone' => now' < x)
  <2>1. now <= x /\ (LeaderDone => now < x) /\ now' = now
    BY <1>1 DEF Course
  <2> QED
    BY <2>1
<1> QED
  BY <1>6, <1>7, <1>8 DEF Course

\* Steps of accounts and of the cleanup: whoever joins while v is on course is behind v,
\* and whoever goes makes room.
LEMMA AccountsEase ==
  ASSUME SaleOpen, IInv, IInv', Crew, OnCourse,
         \/ \E u \in Users : \E t, score : Joins(u, t, score)
         \/ \E u \in Users : Status(u) \/ Leave(u)
         \/ \E gone, t : Drops(gone, t)
         \/ Quiet,
         UNCHANGED <<lock, worker>>
  PROVE  OnCourse'
<1>1. TypeOK /\ TypeOK' /\ Stamps
  BY DEF IInv, Line
<1>2. now' = now /\ Spent' = Spent /\ (LeaderDone' <=> LeaderDone)
  <2>1. now' = now
    BY DEF Joins, Status, Leave, Drops, Quiet
  <2> QED
    BY <2>1 DEF Spent, Gone, Rest, LeaderDone
<1>3. Spent \in Nat
  BY <1>1, SpentBound
<1>4. \A u \in Users : active'[u] \in {active[u], Absent}
  BY <1>1 DEF Joins, Status, Leave, Drops, Quiet, TypeOK, sessionVars
<1>5. ASSUME NEW v \in Queued', now >= Begin(v)', v \in Queued, queue'[v] = queue[v],
             Place(v)' \subseteq Place(v)
      PROVE  \E x, j \in Nat : Course(v, x, j)'
  <2>1. now >= Begin(v)
    BY <1>5 DEF Begin
  <2>2. \E x, j \in Nat : Course(v, x, j)
    BY <1>5, <2>1 DEF OnCourse
  <2> QED
    BY <1>1, <1>2, <1>3, <1>4, <1>5, <2>1, <2>2, EasesCourse
<1>6. ASSUME NEW u \in Users, NEW t, NEW score, Joins(u, t, score),
             NEW v \in Queued', now >= Begin(v)'
      PROVE  v \in Queued /\ queue'[v] = queue[v] /\ Place(v)' \subseteq Place(v)
  <2>1. t \in Nat /\ now \in Nat /\ now - MaxLag <= t /\ t <= now
    BY <1>1, <1>6, RecentTimes DEF Joins
  <2>2. queue' = [queue EXCEPT ![u] = IF @ = Absent THEN t ELSE @]
    BY <1>6 DEF Joins, EnterLine, SaleOpen
  <2>3. \A p \in Users : /\ queue'[p] = queue[p] \/ (p = u /\ queue[p] = Absent /\ queue'[p] = t)
                         /\ queue[p] \in Int
    BY <1>1, <2>2 DEF TypeOK
  <2>4. v \in Users /\ queue'[v] # Absent /\ now >= queue'[v] + MaxLag + 1
    BY <1>6 DEF Queued, Begin
  <2>5. queue'[v] = queue[v] /\ v \in Queued
    BY <2>1, <2>3, <2>4, Constants DEF Queued
  <2>6. ASSUME NEW p \in Users, p \in Place(v)' PROVE p \in Place(v)
    <3>1. Ahead(p, v)' /\ queue'[p] # Absent
      BY <2>6 DEF Place, Queued
    <3>2. queue'[p] <= queue[v]
      BY <2>1, <2>3, <2>4, <2>5, <3>1 DEF Ahead
    <3>3. queue'[p] = queue[p]
      BY <2>1, <2>3, <2>4, <2>5, <3>2, Constants
    <3> QED
      BY <2>5, <3>1, <3>3 DEF Place, Queued, Ahead
  <2> QED
    BY <2>5, <2>6 DEF Place, Queued
<1>7. ASSUME Queued' \subseteq Queued, \A p \in Queued' : queue'[p] = queue[p],
             NEW v \in Queued'
      PROVE  v \in Queued /\ queue'[v] = queue[v] /\ Place(v)' \subseteq Place(v)
  BY <1>7 DEF Place, Ahead
<1>8. ASSUME NEW u \in Users, Status(u) \/ Leave(u)
      PROVE  Queued' \subseteq Queued /\ \A p \in Queued' : queue'[p] = queue[p]
  BY <1>1, <1>8 DEF Status, Leave, Queued, TypeOK
<1>9. ASSUME NEW gone, NEW t, Drops(gone, t)
      PROVE  Queued' \subseteq Queued /\ \A p \in Queued' : queue'[p] = queue[p]
  BY <1>9 DEF Drops, Queued
<1>10. ASSUME Quiet
       PROVE  Queued' \subseteq Queued /\ \A p \in Queued' : queue'[p] = queue[p]
  BY <1>10 DEF Quiet, Queued
<1>11. ASSUME NEW v \in Queued', now >= Begin(v)'
       PROVE  v \in Queued /\ queue'[v] = queue[v] /\ Place(v)' \subseteq Place(v)
  BY <1>6, <1>7, <1>8, <1>9, <1>10, <1>11
<1> QED
  BY <1>2, <1>5, <1>11 DEF OnCourse

\* Steps of the workers other than the admission: a death costs at most a lease.
LEMMA WorkersEase ==
  ASSUME IInv, IInv', Crew, OnCourse, NEW w \in Workers, Acquire(w) \/ WorkerDies(w)
  PROVE  OnCourse'
<1>1. TypeOK /\ TypeOK'
  BY DEF IInv
<1>2. UNCHANGED <<now, queue, active>>
  BY DEF Acquire, WorkerDies, lineVars, sessionVars
<1>3. /\ Spent \in Nat /\ Rest \in Nat /\ Rest <= LeaderTtl
      /\ now \in Nat /\ lock.until \in Nat /\ LeaderTtl \in Nat /\ LeaderTtl > 0
  BY <1>1, SpentBound, Constants DEF TypeOK
<1>4. Idle # Dead /\ \A n : [step |-> "admit", from |-> n] \notin {Idle, Dead}
  BY DEF Idle, Dead
<1>5. ASSUME Spent' \in Int, Spent' >= Spent, LeaderDone' => LeaderDone
      PROVE  OnCourse'
  <2>1. ASSUME NEW v \in Queued', now' >= Begin(v)'
        PROVE  \E x, j \in Nat : Course(v, x, j)'
    <3>1. v \in Queued /\ now >= Begin(v) /\ Place(v)' = Place(v) /\ queue'[v] = queue[v]
      BY <1>2, <2>1 DEF Queued, Begin, Place, Ahead
    <3>2. \E x, j \in Nat : Course(v, x, j)
      BY <3>1 DEF OnCourse
    <3>3. \A u \in Users : active'[u] \in {active[u], Absent}
      BY <1>2
    <3> QED
      BY <1>1, <1>2, <1>5, <3>1, <3>2, <3>3, EasesCourse
  <2> QED
    BY <2>1 DEF OnCourse
<1>6. CASE Acquire(w)
  <2>1. /\ worker[w].job = Idle /\ worker[w].ran < now
        /\ \A v \in Workers \ {w} : worker'[v] = worker[v]
        /\ worker'[w].job # Dead
    BY <1>1, <1>4, <1>6 DEF Acquire, TypeOK
  <2>2. Gone' = Gone /\ w \notin Gone
    BY <1>4, <2>1 DEF Gone
  <2>3. CASE LockFor(w)
    <3>1. /\ lock' = [owner |-> w, until |-> now + LeaderTtl]
          /\ worker'[w].job \notin {Idle, Dead}
      BY <1>1, <1>4, <1>6, <2>3 DEF Acquire, TypeOK
    <3>2. Rest = 0 /\ Rest' = 0
      BY <1>2, <1>3, <2>2, <2>3, <3>1 DEF Rest, LockFor
    <3>3. ~LeaderDone'
      BY <3>1 DEF LeaderDone
    <3>4. Spent' = Spent
      BY <2>2, <3>2 DEF Spent
    <3> QED
      BY <1>3, <1>5, <3>3, <3>4
  <2>4. CASE ~LockFor(w)
    <3>1. lock' = lock /\ lock.owner # w
      BY <1>6, <2>4 DEF Acquire, LockFor
    <3>2. Spent' = Spent
      BY <1>2, <2>2, <3>1 DEF Spent, Rest
    <3>3. LeaderDone' => LeaderDone
      BY <1>2, <2>1, <3>1 DEF LeaderDone
    <3> QED
      BY <1>3, <1>5, <3>2, <3>3
  <2> QED
    BY <2>3, <2>4
<1>7. CASE WorkerDies(w)
  <2>1. /\ worker[w].job # Dead /\ worker'[w].job = Dead
        /\ \A v \in Workers \ {w} : worker'[v] = worker[v]
        /\ UNCHANGED <<now, lock>>
    BY <1>1, <1>7 DEF WorkerDies, TypeOK
  <2>2. Gone' = Gone \cup {w} /\ w \notin Gone
    BY <2>1 DEF Gone
  <2>3. /\ Cardinality(Gone) \in Nat /\ Cardinality(Gone') = Cardinality(Gone) + 1
    <3>1. Gone \in SUBSET Workers
      BY DEF Gone
    <3> QED
      BY <2>2, <3>1, Finite, FS_AddElement
  <2>4. /\ Cardinality(Gone) * LeaderTtl \in Nat
        /\ (Cardinality(Gone) + 1) * LeaderTtl = Cardinality(Gone) * LeaderTtl + LeaderTtl
    BY <1>3, <2>3, Products
  <2>5. Rest' \in Nat /\ Rest' <= LeaderTtl + Rest
    <3>1. Rest' = IF lock.owner \in Gone' /\ lock.until > now THEN lock.until - now ELSE 0
      BY <2>1 DEF Rest
    <3>2. lock.owner \in Gone' => lock.owner = w \/ lock.owner \in Gone
      BY <2>2
    <3>3. lock.until - now <= LeaderTtl
      BY <1>3 DEF Crew
    <3>4. CASE lock.owner \in Gone /\ lock.until > now
      BY <1>3, <2>2, <3>1, <3>4 DEF Rest
    <3> QED
      BY <1>3, <3>1, <3>2, <3>3, <3>4
  <2>6. Spent' \in Int /\ Spent' >= Spent
    <3>1. Spent' = Cardinality(Gone) * LeaderTtl + LeaderTtl - Rest'
      <4>1. Spent' = Cardinality(Gone') * LeaderTtl - Rest'
        BY DEF Spent
      <4>2. Cardinality(Gone') * LeaderTtl = (Cardinality(Gone) + 1) * LeaderTtl
        BY <2>3
      <4>3. Cardinality(Gone') * LeaderTtl = Cardinality(Gone) * LeaderTtl + LeaderTtl
        BY <2>4, <4>2
      <4> QED
        BY <1>3, <2>3, <2>4, <2>5, <4>1, <4>3
    <3>2. Spent = Cardinality(Gone) * LeaderTtl - Rest
      BY DEF Spent
    <3> QED
      BY <1>3, <2>4, <2>5, <3>1, <3>2
  <2>7. LeaderDone' => LeaderDone
    BY <1>4, <2>1 DEF LeaderDone
  <2> QED
    BY <1>5, <2>6, <2>7
<1> QED
  BY <1>6, <1>7

\* What admit.lua fills while the sale runs and somebody is left waiting: with the
\* sessions that still run, at least a group.
LEMMA SeatsAGroup ==
  ASSUME SaleRuns, TypeOK, NEW S \in SUBSET Queued, NEW v \in Queued \ S,
         IF Slots(now) > 0 THEN PoppedFirst(S, Slots(now)) ELSE S = {}
  PROVE  Group <= Cardinality(S) + Cardinality(Busy(now))
<1>1. Busy(now) = Running(now)
  BY DEF Busy, Running
<1>2. /\ S \in SUBSET Users /\ Queued \in SUBSET Users /\ Busy(now) \in SUBSET Users
  BY DEF Queued, Busy
<1>3. /\ Cardinality(S) \in Nat /\ Cardinality(Queued) \in Nat /\ Cardinality(Busy(now)) \in Nat
  BY <1>2, Finite
<1>4. stock \in Nat /\ stock >= Rate /\ Rate \in Nat /\ Rate > 0 /\ MaxActive \in Nat
  BY Constants DEF TypeOK, SaleRuns
<1> DEFINE c == Cardinality(Busy(now))
           n == Slots(now)
<1>5. n = IF Rate < MaxActive - c THEN Rate ELSE MaxActive - c
  BY <1>1, <1>3, <1>4 DEF Slots
<1>6. CASE n > 0
  <2>1. Cardinality(S) # Cardinality(Queued)
    BY <1>2, Finite, FS_Subset
  <2>2. Cardinality(S) = n
    BY <1>6, <2>1 DEF PoppedFirst
  <2> QED
    BY <1>3, <1>4, <1>5, <2>2, GroupBound
<1>7. CASE ~(n > 0)
  BY <1>3, <1>4, <1>5, <1>7, GroupBound
<1> QED
  BY <1>6, <1>7

\* The admission, by a leader whose tick began at this time: those seated leave those
\* waiting in front of v and take a seat; once the last sessions of the group before
\* have ended, the seats go to a whole group more.
LEMMA AdmitKeepsCourse ==
  ASSUME SaleRuns, IInv, IInv', Crew, SaleOpen, Leads, OnCourse,
         NEW w \in Workers, Admit(w)
  PROVE  OnCourse'
<1>1. TypeOK /\ TypeOK' /\ OneSessionLong'
  BY DEF IInv, TypeOK
<1>2. now \in Nat /\ SessionTtl \in Nat /\ SessionTtl > 0
  BY <1>1, Constants DEF TypeOK
<1>3. worker[w].job.from = now
  BY DEF Leads, Admit, Admitting
<1>4. PICK S \in SUBSET Queued :
        /\ IF status = "OPEN" /\ Slots(now) > 0 THEN PoppedFirst(S, Slots(now)) ELSE S = {}
        /\ Seat(S, now)
  <2>1. PICK t \in worker[w].job.from .. now : \E S \in SUBSET Queued :
          /\ IF status = "OPEN" /\ Slots(t) > 0 THEN PoppedFirst(S, Slots(t)) ELSE S = {}
          /\ Seat(S, t)
    BY DEF Admit
  <2>2. t = now
    BY <1>2, <1>3, <2>1
  <2> QED
    BY <2>1, <2>2
<1>5. /\ UNCHANGED <<now, lock>>
      /\ worker[w].job # Dead /\ worker'[w].job # Dead
      /\ \A v \in Workers \ {w} : worker'[v] = worker[v]
  BY <1>1 DEF Admit, TypeOK, Idle, Dead
<1>6. Gone' = Gone
  BY <1>5 DEF Gone
<1>7. Spent' = Spent /\ Spent \in Nat
  BY <1>1, <1>5, <1>6, SpentBound DEF Spent, Rest
<1>8. ASSUME NEW v \in Queued', now' >= Begin(v)'
      PROVE  \E x, j \in Nat : Course(v, x, j)'
  <2>1. /\ v \in Queued \ S /\ queue'[v] = queue[v]
        /\ Place(v)' = Place(v) \ S
    BY <1>4, <1>8 DEF Seat, Queued, Place, Ahead
  <2>2. PICK x, j \in Nat : Course(v, x, j)
    BY <1>5, <1>8, <2>1 DEF OnCourse, Begin
  <2>3. IF Slots(now) > 0 THEN PoppedFirst(S, Slots(now)) ELSE S = {}
    BY <1>4, <2>1 DEF SaleOpen
  <2>4. S \subseteq Place(v)
    BY <2>1, <2>3 DEF PoppedFirst, Place
  <2>5. /\ Place(v) \in SUBSET Users /\ S \in SUBSET Users /\ Busy(x) \in SUBSET Users
        /\ Busy(x)' \in SUBSET Users
    BY DEF Place, Busy, Queued
  <2>6. /\ Cardinality(Place(v)) \in Nat /\ Cardinality(S) \in Nat
        /\ Cardinality(Busy(x)) \in Nat /\ Cardinality(Busy(x)') \in Nat
        /\ Cardinality(Users) \in Nat
    BY <2>5, Finite
  <2>7. Cardinality(Place(v)') = Cardinality(Place(v)) - Cardinality(S)
    <3>1. Cardinality(Place(v) \ S) = Cardinality(Place(v)) - Cardinality(Place(v) \cap S)
      BY <2>5, Finite, FS_Difference
    <3>2. Place(v) \cap S = S
      BY <2>4
    <3> QED
      BY <2>1, <3>1, <3>2
  <2>8. Group * j \in Nat /\ j * SessionTtl \in Nat
    BY <1>2, GroupBound, Products
  <2>9. Begin(v) \in Int /\ Begin(v)' = Begin(v)
    BY <1>1, <2>1, Constants DEF Begin, TypeOK, Queued
  <2>10. CASE now < x
    <3>1. Busy(x)' \subseteq Busy(x) \cup S
      BY <1>2, <1>4 DEF Busy, Seat, Absent
    <3>2. Cardinality(Busy(x)') <= Cardinality(Busy(x)) + Cardinality(S)
      <4>1. /\ Busy(x) \cup S \in SUBSET Users
            /\ Cardinality(Busy(x) \cup S)
                 = Cardinality(Busy(x)) + Cardinality(S) - Cardinality(Busy(x) \cap S)
            /\ Cardinality(Busy(x) \cap S) \in Nat
        BY <2>5, Finite, FS_Union
      <4>2. Cardinality(Busy(x)') <= Cardinality(Busy(x) \cup S)
        BY <3>1, <4>1, Finite
      <4> QED
        BY <2>6, <4>1, <4>2
    <3>3. Cardinality(Place(v)') + Cardinality(Busy(x)') + Group * j <= Cardinality(Users) - 1
      BY <2>2, <2>6, <2>7, <2>8, <3>2 DEF Course
    <3>4. x <= Begin(v)' + Spent' + j * SessionTtl
      BY <1>7, <2>2, <2>9 DEF Course
    <3>5. Course(v, x, j)'
      BY <1>2, <1>5, <2>10, <3>3, <3>4 DEF Course
    <3> QED
      BY <3>5
  <2>11. CASE now = x
    <3>1. PICK y \in Nat : y = now + SessionTtl
      BY <1>2
    <3>2. Busy(y)' = {}
      BY <1>1, <1>2, <1>5, <3>1 DEF Busy, OneSessionLong, TypeOK
    <3>3. Cardinality(Busy(y)') = 0
      BY <3>2, FS_EmptySet
    <3>4. Group <= Cardinality(S) + Cardinality(Busy(x))
      BY <1>1, <2>1, <2>3, <2>11, SeatsAGroup
    <3>5. Group * (j + 1) = Group * j + Group /\ (j + 1) * SessionTtl = j * SessionTtl + SessionTtl
      BY <1>2, GroupBound, Products
    <3>6. Cardinality(Place(v)') + Cardinality(Busy(y)') + Group * (j + 1) <= Cardinality(Users) - 1
      BY <2>2, <2>6, <2>7, <2>8, <3>3, <3>4, <3>5, GroupBound DEF Course
    <3>7. y <= Begin(v)' + Spent' + (j + 1) * SessionTtl
      BY <1>2, <1>7, <2>2, <2>8, <2>9, <2>11, <3>1, <3>5 DEF Course
    <3>8. Course(v, y, j + 1)'
      BY <1>2, <1>5, <3>1, <3>6, <3>7 DEF Course
    <3> QED
      BY <3>8
  <2> QED
    BY <1>2, <2>2, <2>10, <2>11 DEF Course
<1> QED
  BY <1>8 DEF OnCourse

\* What a unit of time costs: nothing when the leader admitted, and a unit of the lease
\* of a leader that died.
LEMMA TickSpends ==
  ASSUME SaleRuns, TypeOK, Crew, Tick
  PROVE  Spent' = Spent + 1 \/ (Spent' = Spent /\ LeaderDone)
<1>1. /\ now \in Nat /\ now' = now + 1 /\ lock.until \in Nat
      /\ UNCHANGED <<lock, worker>>
      /\ \A w \in Workers : worker[w].job = Dead \/ (worker[w].job = Idle /\ worker[w].ran = now)
  BY Constants DEF Tick, TypeOK, SaleRuns
<1>2. lock.until > now /\ lock.owner \in Workers
  <2>1. PICK a \in Workers : a \notin Gone
    BY DEF Crew, Gone
  <2> QED
    BY <1>1, <2>1 DEF Crew, Gone
<1>3. Gone' = Gone
  BY <1>1 DEF Gone
<1> DEFINE cost == Cardinality(Gone) * LeaderTtl
<1>4. cost \in Nat
  <2>1. Cardinality(Gone) \in Nat
    BY Finite DEF Gone
  <2> QED
    BY <2>1, Constants, Products
<1>5. Spent' = cost - Rest' /\ Spent = cost - Rest
  BY <1>3 DEF Spent
<1> HIDE DEF cost
<1>6. CASE lock.owner \in Gone
  <2>1. Rest' = Rest - 1 /\ Rest \in Nat
    BY <1>1, <1>2, <1>3, <1>6 DEF Rest
  <2> QED
    BY <1>4, <1>5, <2>1
<1>7. CASE lock.owner \notin Gone
  <2>1. Rest' = 0 /\ Rest = 0
    BY <1>1, <1>3, <1>7 DEF Rest
  <2>2. LeaderDone
    BY <1>1, <1>2, <1>7 DEF LeaderDone, Gone
  <2> QED
    BY <1>5, <2>1, <2>2
<1> QED
  BY <1>6, <1>7

\* Whoever is ahead of v has no session, and neither has v (said of the state after a step).
LEMMA OthersCounted ==
  ASSUME TypeOK', KeyOutlives', NeverBoth', NEW v \in Queued', NEW x \in Nat, x >= now'
  PROVE  Cardinality(Place(v)') + Cardinality(Busy(x)') <= Cardinality(Users) - 1
<1>1. now' \in Nat
  BY Constants DEF TypeOK
<1>2. \A u \in Queued' : u \notin Busy(x)'
  <2>1. ASSUME NEW u \in Queued', active'[u] > x PROVE InSession(u)'
    BY <1>1, <2>1 DEF TypeOK, KeyOutlives, InSession, Marked, Queued, Absent
  <2> QED
    BY <2>1 DEF NeverBoth, Busy
<1>3. v \in Users /\ v \notin Place(v)' /\ v \notin Busy(x)'
  BY <1>2, Constants DEF Place, Ahead, Queued, TypeOK
<1>4. /\ Place(v)' \in SUBSET Users /\ Busy(x)' \in SUBSET Users
      /\ Place(v)' \cap Busy(x)' = {}
      /\ Place(v)' \cup Busy(x)' \subseteq Users \ {v}
  BY <1>2, <1>3 DEF Place, Busy, Queued
<1>5. Cardinality(Place(v)' \cup Busy(x)') = Cardinality(Place(v)') + Cardinality(Busy(x)')
  <2>1. Cardinality(Place(v)' \cap Busy(x)') = 0
    BY <1>4, FS_EmptySet
  <2>2. Cardinality(Place(v)') \in Nat /\ Cardinality(Busy(x)') \in Nat
    BY <1>4, Finite
  <2> QED
    BY <1>4, <2>1, <2>2, Finite, FS_Union
<1>6. Cardinality(Users \ {v}) = Cardinality(Users) - 1
  BY <1>3, PeopleAssumption, FS_RemoveElement
<1>7. Users \ {v} \in SUBSET Users
  OBVIOUS
<1> QED
  BY <1>4, <1>5, <1>6, <1>7, Finite

\* Time passes: whoever's grace ends now starts its course.
LEMMA TickKeepsCourse ==
  ASSUME SaleRuns, IInv, IInv', Crew, OnCourse, Tick
  PROVE  OnCourse'
<1>1. TypeOK /\ TypeOK' /\ KeyOutlives' /\ NeverBoth'
  BY DEF IInv, Limits
<1>2. now \in Nat /\ now' = now + 1 /\ UNCHANGED <<queue, active, worker>>
  BY <1>1, Constants DEF Tick, TypeOK, lineVars, sessionVars
<1>3. Spent \in Nat /\ (Spent' = Spent + 1 \/ (Spent' = Spent /\ LeaderDone))
  BY <1>1, SpentBound, TickSpends
<1>4. ~LeaderDone'
  <2>1. \A w \in Workers : worker[w].ran \in Int /\ worker[w].ran <= now
    BY <1>1 DEF Crew, TypeOK
  <2> QED
    BY <1>2, <2>1 DEF LeaderDone
<1>5. ASSUME NEW v \in Queued', now' >= Begin(v)'
      PROVE  \E x, j \in Nat : Course(v, x, j)'
  <2>1. /\ v \in Queued /\ Place(v)' = Place(v)
        /\ Begin(v)' = Begin(v) /\ Begin(v) \in Int
    BY <1>1, <1>2, <1>5, Constants DEF Queued, Place, Ahead, Begin, TypeOK
  <2>2. CASE now >= Begin(v)
    <3>1. PICK x, j \in Nat : Course(v, x, j)
      BY <2>1, <2>2 DEF OnCourse
    <3>2. j * SessionTtl \in Nat
      BY Constants, Products
    <3>3. PICK y \in {x, x + 1} : Spent' = Spent + (y - x) /\ now' <= y
      BY <1>2, <1>3, <3>1 DEF Course
    <3>4. Busy(y)' \subseteq Busy(x)
      BY <1>1, <1>2 DEF Busy, TypeOK
    <3>5. /\ Cardinality(Busy(y)') <= Cardinality(Busy(x))
          /\ Cardinality(Busy(y)') \in Nat /\ Cardinality(Busy(x)) \in Nat
          /\ Cardinality(Place(v)) \in Nat /\ Cardinality(Users) \in Nat
      <4>1. Busy(x) \in SUBSET Users /\ Place(v) \in SUBSET Users
        BY DEF Busy, Place, Queued
      <4> QED
        BY <3>4, <4>1, Finite
    <3>6. Group * j \in Nat
      BY GroupBound, Products
    <3>7. Cardinality(Place(v)') + Cardinality(Busy(y)') + Group * j <= Cardinality(Users) - 1
      BY <2>1, <3>1, <3>5, <3>6 DEF Course
    <3>8. y <= Begin(v)' + Spent' + j * SessionTtl
      BY <1>3, <2>1, <3>1, <3>2, <3>3 DEF Course
    <3>9. Course(v, y, j)'
      BY <1>4, <3>3, <3>7, <3>8 DEF Course
    <3> QED
      BY <3>9
  <2>3. CASE ~(now >= Begin(v))
    <3>1. PICK x \in Nat : x = now'
      BY <1>2
    <3>2. now' = Begin(v)'
      BY <1>2, <1>5, <2>1, <2>3
    <3>3. Cardinality(Place(v)') + Cardinality(Busy(x)') <= Cardinality(Users) - 1
      <4>1. x >= now'
        BY <1>2, <3>1
      <4> QED
        BY <1>1, <1>5, <4>1, OthersCounted
    <3>4. Group * 0 = 0 /\ 0 * SessionTtl = 0
      BY Constants, GroupBound, Products
    <3>5. /\ Cardinality(Place(v)') \in Nat /\ Cardinality(Busy(x)') \in Nat
      <4>1. (Place(v) \in SUBSET Users /\ Busy(x) \in SUBSET Users)'
        BY DEF Place, Busy, Queued
      <4> QED
        BY <4>1, Finite
    <3>6. Course(v, x, 0)'
      BY <1>2, <1>3, <1>4, <3>1, <3>2, <3>3, <3>4, <3>5 DEF Course
    <3> QED
      BY <3>6
  <2> QED
    BY <2>2, <2>3
<1> QED
  BY <1>5 DEF OnCourse

\* Every step keeps whoever waits on course.
LEMMA CourseKept ==
  ASSUME SaleRuns, IInv, IInv', Crew, SaleOpen, Leads, OnCourse, [Next]_vars
  PROVE  OnCourse'
<1>1. ASSUME NEW u \in Users, Join(u) PROVE OnCourse'
  <2>1. \E t, score : Joins(u, t, score)
    BY <1>1, JoinCase
  <2>2. UNCHANGED <<lock, worker>>
    BY <1>1 DEF Join
  <2> QED
    BY <2>1, <2>2, AccountsEase
<1>2. ASSUME NEW u \in Users, Status(u) \/ Leave(u) PROVE OnCourse'
  <2>1. UNCHANGED <<lock, worker>>
    BY <1>2 DEF Status, Leave
  <2> QED
    BY <1>2, <2>1, AccountsEase
<1>3. CASE Cleanup
  <2>1. \E gone, t : Drops(gone, t)
    BY <1>3, CleanupCase
  <2>2. UNCHANGED <<lock, worker>>
    BY <1>3 DEF Cleanup
  <2> QED
    BY <2>1, <2>2, AccountsEase
<1>4. CASE StatusChanges \/ StockChanges \/ UNCHANGED vars
  <2>1. Quiet /\ UNCHANGED <<lock, worker>>
    BY <1>4 DEF StatusChanges, StockChanges, vars, Quiet, lineVars, sessionVars, history
  <2> QED
    BY <2>1, AccountsEase
<1>5. ASSUME NEW w \in Workers, Acquire(w) \/ WorkerDies(w) PROVE OnCourse'
  BY <1>5, WorkersEase
<1>6. ASSUME NEW w \in Workers, Admit(w) PROVE OnCourse'
  BY <1>6, AdmitKeepsCourse
<1>7. CASE Tick
  BY <1>7, TickKeepsCourse
<1> QED
  BY <1>1, <1>2, <1>3, <1>4, <1>5, <1>6, <1>7 DEF Next

\* On course, nobody waits beyond the bound.
LEMMA CourseBound ==
  ASSUME SaleRuns, IInv, Crew, SaleOpen, OnCourse
  PROVE  ServedInTime
<1>1. TypeOK /\ Stamps
  BY DEF IInv, Line
<1>2. SUFFICES ASSUME NEW u \in Queued PROVE now <= arrived[u] + MaxWait
  BY DEF ServedInTime
<1>3. /\ now \in Nat /\ queue[u] \in Int /\ arrived[u] \in Int /\ queue[u] <= arrived[u]
      /\ MaxLag \in Nat /\ SessionTtl \in Nat /\ LeaderTtl \in Nat
  BY <1>1, Constants DEF TypeOK, Stamps, SaleOpen, Queued
<1>4. Spent \in Nat /\ Spent <= (Cardinality(Workers) - 1) * LeaderTtl
  BY <1>1, SpentBound
<1>5. Cardinality(Users) \in Nat /\ Cardinality(Users) - 1 \in Nat
  <2>1. Cardinality(Users) \in Nat /\ Cardinality(Users) # 0
    BY PeopleAssumption, FS_CardinalityType, FS_EmptySet DEF Queued
  <2> QED
    BY <2>1
<1>6. Rounds \in Nat /\ Rounds * SessionTtl \in Nat
  <2>1. Rounds \in Nat
    BY <1>5, GroupBound DEF Rounds
  <2> QED
    BY <1>3, <2>1, Products
<1>7. (Cardinality(Workers) - 1) * LeaderTtl \in Int
  BY <1>3, Finite
<1> DEFINE leases == (Cardinality(Workers) - 1) * LeaderTtl
           rounds == Rounds * SessionTtl
<1>8. MaxWait = MaxLag + 1 + leases + rounds
  BY DEF MaxWait
<1> HIDE DEF leases, rounds
<1>9. CASE now < Begin(u)
  BY <1>3, <1>4, <1>6, <1>7, <1>8, <1>9 DEF Begin, leases, rounds
<1>10. CASE ~(now < Begin(u))
  <2>1. now >= Begin(u)
    BY <1>3, <1>10 DEF Begin
  <2>2. PICK x, j \in Nat : Course(u, x, j)
    BY <2>1 DEF OnCourse
  <2>3. Group * j <= Cardinality(Users) - 1 /\ Group * j \in Nat
    <3>1. /\ Cardinality(Place(u)) \in Nat /\ Cardinality(Busy(x)) \in Nat
      BY Finite DEF Place, Busy, Queued
    <3>2. Group * j \in Nat
      BY GroupBound, Products
    <3> QED
      BY <1>5, <2>2, <3>1, <3>2 DEF Course
  <2>4. j <= Rounds
    BY <1>5, <2>3, GroupBound, Quotient DEF Rounds
  <2>5. j * SessionTtl \in Nat /\ j * SessionTtl <= Rounds * SessionTtl
    BY <1>3, <1>6, <2>4, Products
  <2>6. now <= queue[u] + MaxLag + 1 + Spent + j * SessionTtl
    BY <1>3, <1>4, <2>2, <2>5 DEF Course, Begin
  <2> QED
    BY <1>3, <1>4, <1>6, <1>7, <1>8, <2>5, <2>6 DEF leases, rounds
<1> QED
  BY <1>9, <1>10

\* An account waits for the sale no longer than the next tick, a lease per leader that
\* dies and a session per group ahead of it, whoever joins again, leaves or times out,
\* when the sale opens, tickets stay and a worker is left whose timer keeps time.
THEOREM ServedWithinBound == SaleRuns => (Spec => []ServedInTime)
<1> SUFFICES ASSUME SaleRuns PROVE Spec => []ServedInTime
  OBVIOUS
<1> DEFINE Served == Crew /\ SaleOpen /\ Leads /\ OnCourse
<1>1. Init => Served
  <2> SUFFICES ASSUME Init PROVE Served
    OBVIOUS
  <2>1. Queued = {} /\ now \in Nat /\ now = Start
    BY Constants DEF Init, Queued
  <2>2. Crew
    BY <2>1, Constants DEF Init, Crew, Gone, NoLock, Idle, Dead, SaleRuns
  <2>3. SaleOpen /\ Leads /\ OnCourse
    BY <2>1 DEF Init, SaleOpen, Leads, Admitting, Idle, OnCourse
  <2> QED
    BY <2>2, <2>3
<1>2. IInv /\ IInv' /\ Served /\ [Next]_vars => Served'
  <2> SUFFICES ASSUME IInv, IInv', Served, [Next]_vars PROVE Served'
    OBVIOUS
  <2>1. TypeOK
    BY DEF IInv
  <2>2. Crew'
    BY <2>1, CrewKept
  <2>3. SaleOpen'
    BY <2>1, SaleOpenKept
  <2>4. Leads'
    BY <2>1, LeadsKept DEF SaleRuns
  <2>5. OnCourse'
    BY CourseKept
  <2> QED
    BY <2>2, <2>3, <2>4, <2>5
<1>3. IInv /\ Served => ServedInTime
  BY CourseBound
<1> QED
  BY <1>1, <1>2, <1>3, SpecIInv, PTL DEF Spec
=============================================================================
