-------------------------- MODULE EventStatusProofs --------------------------
(***************************************************************************)
(* For any number of workers, any schedules and any sequence of edits,     *)
(* pauses, failures and losses of the key: a job that was not overtaken    *)
(* opens no sale early unless it resumes a pause, undoes no pause, reopens *)
(* nothing sold out and calls nothing sold out that is not.                *)
(*                                                                         *)
(* The inductive invariant says what a job that was not overtaken knows:   *)
(* what it is about to write follows from the key and the schedule as they *)
(* are now.                                                                *)
(***************************************************************************)
EXTENDS EventStatus, TLAPS

\* What a writer may be about to write over k.
Opened == now >= row.plan.saleOpensAt
Sound(next, k) ==
  /\ next = "OPEN" => k # "PAUSED"
  /\ next = "SOLD_OUT" => k = "SOLD_OUT"
  /\ k = "SOLD_OUT" => next \in {"SOLD_OUT", "CLOSED"}

SyncSoundOf(p) ==
  <<p, "sync">> \notin behind =>
    /\ sync[p].at = "read" => (sync[p].scheduled = "OPEN" => Opened) /\ sync[p].scheduled # "SOLD_OUT"
    /\ sync[p].at = "write" => (sync[p].next = "OPEN" => Opened) /\ Sound(sync[p].next, key)

AdmitSoundOf(w) ==
  <<w, "admit">> \notin behind =>
    /\ admit[w].at = "reload" => admit[w].current = key
    /\ admit[w].at = "write" => (admit[w].next = "OPEN" => Opened) /\ Sound(admit[w].next, key)
    /\ admit[w].at = "close" => soldOut

SyncSound  == \A p \in Syncers : SyncSoundOf(p)
AdmitSound == \A w \in Workers : AdmitSoundOf(w)

ControlSound ==
  control # Idle /\ <<Api, "control">> \notin behind =>
    key = (IF control.next = "PAUSED" THEN "OPEN" ELSE "PAUSED")

IInv == TypeOK /\ SyncSound /\ AdmitSound /\ ControlSound

LEMMA Constants ==
  /\ Api \notin Workers /\ Horizon \in Nat /\ Budget \in Nat /\ First \in Plans
  /\ Plans \subseteq [preQueueAt : Nat, saleOpensAt : Nat, startsAt : Nat]
BY EventAssumption

\* The status a schedule asks for is open only once the sale opens, and never sold out.
LEMMA ScheduledFacts ==
  ASSUME NEW meta \in Row, NEW t \in Nat
  PROVE  /\ ScheduledQueueStatus(meta, t) \in QueueStatus
         /\ ScheduledQueueStatus(meta, t) # "SOLD_OUT"
         /\ ScheduledQueueStatus(meta, t) = "OPEN" => t >= meta.plan.saleOpensAt
BY Constants DEF ScheduledQueueStatus, Row, QueueStatus

\* The next status reopens neither a pause nor a sold-out event, and closes none as
\* sold out by itself.
LEMMA NextFacts ==
  ASSUME NEW current, NEW scheduled \in QueueStatus
  PROVE  LET next == NextQueueStatus(current, scheduled)
         IN /\ next \in QueueStatus
            /\ next = "OPEN" => scheduled = "OPEN" /\ current # "PAUSED"
            /\ next = "SOLD_OUT" => "SOLD_OUT" \in {current, scheduled}
            /\ current = "SOLD_OUT" => next \in {"SOLD_OUT", "CLOSED"}
BY DEF NextQueueStatus, QueueStatus

LEMMA RowStatusFacts ==
  ASSUME NEW q \in QueueStatus, NEW s \in RowStatus
  PROVE  EventStatusFor(q, s) \in RowStatus
BY DEF EventStatusFor, QueueStatus, RowStatus

LEMMA RowAfterFacts ==
  ASSUME NEW p, NEW q \in QueueStatus, NEW s \in RowStatus
  PROVE  RowAfter(p, s, q) \in RowStatus \cup {Stays}
BY RowStatusFacts DEF RowAfter

LEMMA RowStepFacts ==
  ASSUME NEW then \in RowStatus \cup {Stays}
  PROVE  RowStep(then) \in SyncJob /\ RowStep(then).at \in {"idle", "row"}
BY DEF RowStep, SyncJob, Idle

LEMMA InFlightTyped ==
  InFlight \subseteq (Syncers \X {"sync"}) \cup (Workers \X {"admit"}) \cup {<<Api, "control">>}
BY DEF InFlight

\* A step leaves behind only jobs in flight.
LEMMA BehindTyped ==
  ASSUME TypeOK, NEW j,
         Forget \/ Overtakes(j) \/ behind' = InFlight'
  PROVE  behind' \subseteq (Syncers \X {"sync"}) \cup (Workers \X {"admit"}) \cup {<<Api, "control">>}
BY DEF Forget, Overtakes, InFlight, TypeOK
-----------------------------------------------------------------------------
(* Types *)

LEMMA TypeInit == Init => TypeOK
<1> SUFFICES ASSUME Init PROVE TypeOK
  OBVIOUS
<1> USE DEF Init
<1>1. row \in Row
  BY Constants DEF Row, RowStatus
<1>2. sync \in [Syncers -> SyncJob] /\ admit \in [Workers -> AdmitJob] /\ control \in ControlJob
  BY DEF SyncJob, AdmitJob, ControlJob
<1>3. cache \in [Workers -> {Unknown} \cup Row]
  OBVIOUS
<1>4. now \in 0 .. Horizon /\ spent \in 0 .. Budget
  BY Constants
<1> QED BY <1>1, <1>2, <1>3, <1>4 DEF TypeOK

LEMMA CachedFacts ==
  ASSUME NEW meta \in Row
  PROVE  Cached(meta) \in Row
BY DEF Cached, Row, RowStatus

LEMMA TypeSync ==
  ASSUME TypeOK, NEW p \in Syncers, SyncLoop(p) \/ JobFails(p)
  PROVE  TypeOK'
<1> USE DEF TypeOK
<1>0. Idle \in SyncJob /\ Idle \in AdmitJob /\ Idle \in ControlJob
  BY DEF SyncJob, AdmitJob, ControlJob, Idle
<1>1. CASE p \in Workers /\ SyncSelects(p)
  <2>1. [at |-> "load"] \in SyncJob
    BY DEF SyncJob
  <2> QED BY <1>1, <2>1, BehindTyped DEF SyncSelects, Syncs, KeepKey
<1>2. CASE p \in Workers /\ SyncFollows(p)
  <2>1. sync[p] \in SyncJob /\ sync[p].at = "row"
    BY <1>2 DEF SyncFollows
  <2>2. sync[p].then \in RowStatus
    BY <2>1 DEF SyncJob, Idle
  <2>3. row' \in Row
    BY <1>2, <2>2 DEF SyncFollows, Row
  <2> QED BY <1>0, <1>2, <2>3, BehindTyped DEF SyncFollows, Syncs, KeepKey
<1>3. CASE SyncLoads(p)
  <2>1. ScheduledQueueStatus(row, now) \in QueueStatus /\ row.status \in RowStatus
    BY ScheduledFacts, Constants DEF Row
  <2>2. sync'[p] \in SyncJob
    BY <1>3, <2>1 DEF SyncLoads, Syncs, SyncJob
  <2>3. cache' \in [Workers -> {Unknown} \cup Row]
    BY <1>3, CachedFacts DEF SyncLoads
  <2> QED BY <1>3, <2>2, <2>3, BehindTyped DEF SyncLoads, Syncs, KeepKey
<1>4. CASE SyncReads(p)
  <2>1. sync[p] \in SyncJob /\ sync[p].at = "read"
    BY <1>4 DEF SyncReads
  <2>2. sync[p].scheduled \in QueueStatus /\ sync[p].status \in RowStatus
    BY <2>1 DEF SyncJob, Idle
  <2> DEFINE next == NextQueueStatus(key, sync[p].scheduled)
             then == RowAfter(p, sync[p].status, next)
  <2>3. next \in QueueStatus
    BY <2>2, NextFacts
  <2>4. then \in RowStatus \cup {Stays}
    BY <2>2, <2>3, RowAfterFacts
  <2> HIDE DEF next, then
  <2>5. RowStep(then) \in SyncJob
    BY <2>4, RowStepFacts
  <2>6. [at |-> "write", next |-> next, then |-> then] \in SyncJob
    BY <2>3, <2>4 DEF SyncJob
  <2>7. sync' \in [Syncers -> SyncJob]
    BY <1>4, <2>5, <2>6 DEF SyncReads, Syncs, next, then
  <2> QED BY <1>4, <2>7, BehindTyped DEF SyncReads, KeepKey
<1>5. CASE SyncWrites(p)
  <2>1. sync[p] \in SyncJob /\ sync[p].at = "write"
    BY <1>5 DEF SyncWrites
  <2>2. sync[p].next \in QueueStatus /\ sync[p].then \in RowStatus \cup {Stays}
    BY <2>1 DEF SyncJob, Idle
  <2>3. RowStep(sync[p].then) \in SyncJob
    BY <2>2, RowStepFacts
  <2>4. behind' \subseteq (Syncers \X {"sync"}) \cup (Workers \X {"admit"}) \cup {<<Api, "control">>}
    BY <1>5, BehindTyped DEF SyncWrites, WriteKey
  <2> QED BY <1>5, <2>2, <2>3, <2>4 DEF SyncWrites, Syncs, WriteKey
<1>6. CASE JobFails(p)
  BY <1>0, <1>6, BehindTyped, Constants DEF JobFails, Syncs, Admits, KeepKey, Spend
<1> QED BY <1>1, <1>2, <1>3, <1>4, <1>5, <1>6 DEF SyncLoop

LEMMA TypeTick ==
  ASSUME TypeOK, NEW w \in Workers, TickLoop(w) \/ WorkerRestarts(w)
  PROVE  TypeOK'
<1> USE DEF TypeOK
<1>0. Idle \in SyncJob /\ Idle \in AdmitJob /\ w \in Syncers
  BY DEF SyncJob, AdmitJob, Idle, Syncers
<1>1. CASE TickReads(w)
  <2>1. key # NoKey => [at |-> "reload", current |-> key] \in AdmitJob
    BY DEF AdmitJob
  <2>2. [at |-> "check"] \in AdmitJob
    BY DEF AdmitJob
  <2>3. admit' \in [Workers -> AdmitJob]
    BY <1>1, <2>1, <2>2 DEF TickReads, Admits
  <2> QED BY <1>1, <2>3, BehindTyped DEF TickReads, KeepKey
<1>2. CASE TickReloads(w)
  <2>1. ScheduledQueueStatus(row, now) \in QueueStatus
    BY ScheduledFacts, Constants
  <2>2. Confirmed(w) \in QueueStatus
    BY <2>1, NextFacts DEF Confirmed, Fresh
  <2>3. [at |-> "write", next |-> Confirmed(w)] \in AdmitJob /\ [at |-> "check"] \in AdmitJob
    BY <2>2 DEF AdmitJob
  <2>4. admit' \in [Workers -> AdmitJob]
    BY <1>2, <2>3 DEF TickReloads, Admits
  <2>5. cache' \in [Workers -> {Unknown} \cup Row]
    BY <1>2, CachedFacts DEF TickReloads, Fresh
  <2> QED BY <1>2, <2>4, <2>5, BehindTyped DEF TickReloads, KeepKey
<1>3. CASE TickWrites(w)
  <2>1. admit[w] \in AdmitJob /\ admit[w].at = "write"
    BY <1>3 DEF TickWrites
  <2>2. admit[w].next \in QueueStatus /\ [at |-> "check"] \in AdmitJob
    BY <2>1 DEF AdmitJob, Idle
  <2>3. behind' \subseteq (Syncers \X {"sync"}) \cup (Workers \X {"admit"}) \cup {<<Api, "control">>}
    BY <1>3, BehindTyped DEF TickWrites, WriteKey
  <2> QED BY <1>3, <2>2, <2>3 DEF TickWrites, Admits, WriteKey
<1>4. CASE CheckSkipped(w) \/ CheckReads(w) \/ CheckCounts(w)
  <2>1. [at |-> "count"] \in AdmitJob /\ [at |-> "close"] \in AdmitJob
    BY DEF AdmitJob
  <2> QED BY <1>0, <1>4, <2>1, BehindTyped DEF CheckSkipped, CheckReads, CheckCounts, Admits, KeepKey
<1>5. CASE CheckCloses(w)
  <2>1. [at |-> "row"] \in AdmitJob /\ "SOLD_OUT" \in QueueStatus
    BY DEF AdmitJob, QueueStatus
  <2>2. behind' \subseteq (Syncers \X {"sync"}) \cup (Workers \X {"admit"}) \cup {<<Api, "control">>}
    BY <1>5, BehindTyped DEF CheckCloses, WriteKey
  <2> QED BY <1>5, <2>1, <2>2 DEF CheckCloses, Admits, WriteKey
<1>6. CASE CheckFollows(w)
  <2>1. row' \in Row
    BY <1>6 DEF CheckFollows, Row, RowStatus
  <2> QED BY <1>0, <1>6, <2>1, BehindTyped DEF CheckFollows, Admits, KeepKey
<1>7. CASE WorkerRestarts(w)
  BY <1>0, <1>7, BehindTyped, Constants DEF WorkerRestarts, Syncs, Admits, KeepKey, Spend
<1> QED BY <1>1, <1>2, <1>3, <1>4, <1>5, <1>6, <1>7 DEF TickLoop

LEMMA TypeElsewhere ==
  ASSUME TypeOK, AdminStep \/ LastTicketSold \/ Tick \/ KeyLost
  PROVE  TypeOK'
<1> USE DEF TypeOK
<1>1. CASE \E status \in {"DRAFT", "SCHEDULED"}, plan \in Plans, more \in BOOLEAN :
             EditCommits(status, plan, more)
  <2> PICK status \in {"DRAFT", "SCHEDULED"}, plan \in Plans, more \in BOOLEAN :
             EditCommits(status, plan, more)
    BY <1>1
  <2>1. row' \in Row
    BY DEF EditCommits, Row, RowStatus
  <2>2. sync' \in [Syncers -> SyncJob]
    BY DEF EditCommits, Syncs, SyncJob
  <2>3. soldOut' \in BOOLEAN
    BY DEF EditCommits
  <2> QED BY <2>1, <2>2, <2>3, BehindTyped, Constants DEF EditCommits, Spend
<1>2. CASE \E act \in {"pause", "resume"} : ControlReads(act)
  <2> PICK act \in {"pause", "resume"} : ControlReads(act)
    BY <1>2
  <2>1. control' \in ControlJob
    BY DEF ControlReads, ControlJob, Turn
  <2> QED BY <2>1, BehindTyped, Constants DEF ControlReads, KeepKey, Spend
<1>3. CASE ControlWrites
  <2>1. control.next \in QueueStatus /\ Idle \in ControlJob
    BY <1>3 DEF ControlWrites, ControlJob, QueueStatus
  <2>2. behind' \subseteq (Syncers \X {"sync"}) \cup (Workers \X {"admit"}) \cup {<<Api, "control">>}
    BY <1>3, BehindTyped DEF ControlWrites, WriteKey
  <2> QED BY <1>3, <2>1, <2>2 DEF ControlWrites, WriteKey
<1>4. CASE LastTicketSold
  BY <1>4, BehindTyped DEF LastTicketSold, KeepKey, jobs
<1>5. CASE Tick
  BY <1>5, BehindTyped, Constants DEF Tick, KeepKey, jobs
<1>6. CASE KeyLost
  BY <1>6, BehindTyped, Constants DEF KeyLost, jobs, Spend
<1> QED BY <1>1, <1>2, <1>3, <1>4, <1>5, <1>6 DEF AdminStep

LEMMA TypeStep == TypeOK /\ [Next]_vars => TypeOK'
<1>1. TypeOK /\ UNCHANGED vars => TypeOK'
  BY DEF TypeOK, vars, jobs
<1> QED BY <1>1, TypeSync, TypeTick, TypeElsewhere DEF Next

\* Every variable stays in its type.
THEOREM EventTypeCorrect == Spec => []TypeOK
BY TypeInit, TypeStep, PTL DEF Spec
-----------------------------------------------------------------------------
(* What jobs know *)

\* A step that leaves key and schedule alone, adds no tickets and overtakes nobody.
Quiet ==
  key' = key /\ row'.plan = row.plan /\ now' >= now /\ (soldOut => soldOut') /\ Forget

LEMMA OpenedStays ==
  ASSUME TypeOK, TypeOK', Quiet, Opened
  PROVE  Opened'
BY Constants DEF TypeOK, Quiet, Opened, Row

LEMMA NotIdle ==
  ASSUME NEW job, job.at # "idle"
  PROVE  job # Idle
BY DEF Idle

\* In a quiet step, a job that did not move knows what it knew.
LEMMA SyncKept ==
  ASSUME TypeOK, TypeOK', NEW p \in Syncers, SyncSoundOf(p), Quiet, sync'[p] = sync[p]
  PROVE  SyncSoundOf(p)'
<1>1. CASE sync[p].at = "idle"
  BY <1>1 DEF SyncSoundOf
<1>2. CASE sync[p].at # "idle"
  <2>1. <<p, "sync">> \in InFlight'
    BY <1>2, NotIdle DEF InFlight
  <2>2. <<p, "sync">> \in behind <=> <<p, "sync">> \in behind'
    BY <2>1 DEF Quiet, Forget
  <2> QED BY <2>2, OpenedStays DEF SyncSoundOf, Quiet
<1> QED BY <1>1, <1>2

LEMMA AdmitKept ==
  ASSUME TypeOK, TypeOK', NEW w \in Workers, AdmitSoundOf(w), Quiet, admit'[w] = admit[w]
  PROVE  AdmitSoundOf(w)'
<1>1. CASE admit[w].at = "idle"
  BY <1>1 DEF AdmitSoundOf
<1>2. CASE admit[w].at # "idle"
  <2>1. <<w, "admit">> \in InFlight'
    BY <1>2, NotIdle DEF InFlight
  <2>2. <<w, "admit">> \in behind <=> <<w, "admit">> \in behind'
    BY <2>1 DEF Quiet, Forget
  <2> QED BY <2>2, OpenedStays DEF AdmitSoundOf, Quiet
<1> QED BY <1>1, <1>2

LEMMA ControlKept ==
  ASSUME ControlSound, control' = control, key' = key, Forget
  PROVE  ControlSound'
<1>1. control # Idle => <<Api, "control">> \in InFlight'
  BY DEF InFlight
<1> QED BY <1>1 DEF ControlSound, Forget

\* After a write of the key, or an edit, only its author is not behind.
LEMMA OnlyTheAuthor ==
  ASSUME NEW j, Overtakes(j)
  PROVE  /\ \A p \in Syncers : <<p, "sync">> \notin behind' /\ sync'[p].at # "idle" => <<p, "sync">> = j
         /\ \A w \in Workers : <<w, "admit">> \notin behind' /\ admit'[w].at # "idle" => <<w, "admit">> = j
         /\ control' # Idle /\ <<Api, "control">> \notin behind' => <<Api, "control">> = j
BY NotIdle DEF Overtakes, InFlight

LEMMA SoundInit == Init => SyncSound /\ AdmitSound /\ ControlSound
BY DEF Init, SyncSound, AdmitSound, SyncSoundOf, AdmitSoundOf, ControlSound, Idle

\* A quiet step need only be checked for the job that moves.
LEMMA QuietStep ==
  ASSUME IInv, TypeOK', Quiet,
         \A p \in Syncers : sync'[p] = sync[p] \/ SyncSoundOf(p)',
         \A w \in Workers : admit'[w] = admit[w] \/ AdmitSoundOf(w)',
         control' = control \/ ControlSound'
  PROVE  IInv'
<1>1. SyncSound'
  BY SyncKept DEF IInv, SyncSound
<1>2. AdmitSound'
  BY AdmitKept DEF IInv, AdmitSound
<1>3. ControlSound'
  BY ControlKept DEF IInv, Quiet
<1> QED BY <1>1, <1>2, <1>3 DEF IInv

\* After a step that overtakes the others, their author knows nothing it could get wrong.
LEMMA LoudStep ==
  ASSUME TypeOK', NEW j, Overtakes(j),
         \A p \in Syncers : <<p, "sync">> = j => sync'[p].at \notin {"read", "write"},
         \A w \in Workers : <<w, "admit">> = j => admit'[w].at \notin {"reload", "write", "close"},
         <<Api, "control">> = j => control' = Idle
  PROVE  IInv'
<1>1. SyncSound'
  BY OnlyTheAuthor DEF SyncSound, SyncSoundOf
<1>2. AdmitSound'
  BY OnlyTheAuthor DEF AdmitSound, AdmitSoundOf
<1>3. ControlSound'
  BY OnlyTheAuthor DEF ControlSound
<1> QED BY <1>1, <1>2, <1>3 DEF IInv

LEMMA SoundSync ==
  ASSUME IInv, TypeOK', NEW p \in Syncers, SyncLoop(p) \/ JobFails(p)
  PROVE  IInv'
<1> TypeOK /\ SyncSoundOf(p) /\ sync[p] \in SyncJob
  BY DEF IInv, SyncSound, TypeOK
<1>1. CASE p \in Workers /\ SyncSelects(p)
  <2>1. sync'[p] = sync[p] \/ sync'[p] = [at |-> "load"]
    BY <1>1 DEF SyncSelects, Syncs, TypeOK
  <2>2. SyncSoundOf(p)' \/ sync'[p] = sync[p]
    BY <2>1 DEF SyncSoundOf
  <2>3. Quiet /\ \A q \in Syncers : q # p => sync'[q] = sync[q]
    BY <1>1 DEF SyncSelects, Syncs, TypeOK, KeepKey, Quiet
  <2> QED BY <1>1, <2>2, <2>3, QuietStep DEF SyncSelects
<1>2. CASE p \in Workers /\ SyncFollows(p)
  <2>1. SyncSoundOf(p)'
    BY <1>2 DEF SyncFollows, Syncs, TypeOK, SyncSoundOf, Idle
  <2>2. Quiet /\ \A q \in Syncers : q # p => sync'[q] = sync[q]
    BY <1>2 DEF SyncFollows, Syncs, TypeOK, KeepKey, Quiet, Row
  <2> QED BY <1>2, <2>1, <2>2, QuietStep DEF SyncFollows
<1>3. CASE SyncLoads(p)
  <2>1. /\ ScheduledQueueStatus(row, now) = "OPEN" => Opened'
        /\ ScheduledQueueStatus(row, now) # "SOLD_OUT"
    BY <1>3, ScheduledFacts, Constants DEF SyncLoads, TypeOK, Opened
  <2>2. SyncSoundOf(p)'
    BY <1>3, <2>1 DEF SyncLoads, Syncs, TypeOK, SyncSoundOf
  <2>3. Quiet /\ \A q \in Syncers : q # p => sync'[q] = sync[q]
    BY <1>3, Constants DEF SyncLoads, Syncs, TypeOK, KeepKey, Quiet
  <2> QED BY <1>3, <2>2, <2>3, QuietStep DEF SyncLoads
<1>4. CASE SyncReads(p)
  <2>1. sync[p].at = "read" /\ sync[p].scheduled \in QueueStatus /\ sync[p].status \in RowStatus
    BY <1>4 DEF SyncReads, SyncJob, Idle
  <2> DEFINE next == NextQueueStatus(key, sync[p].scheduled)
             then == RowAfter(p, sync[p].status, next)
  <2>2. /\ next \in QueueStatus
        /\ next = "OPEN" => sync[p].scheduled = "OPEN" /\ key # "PAUSED"
        /\ next = "SOLD_OUT" => "SOLD_OUT" \in {key, sync[p].scheduled}
        /\ key = "SOLD_OUT" => next \in {"SOLD_OUT", "CLOSED"}
    BY <2>1, NextFacts
  <2>3. then \in RowStatus \cup {Stays}
    BY <2>1, <2>2, RowAfterFacts
  <2>4. sync'[p] = IF next # key THEN [at |-> "write", next |-> next, then |-> then] ELSE RowStep(then)
    BY <1>4 DEF SyncReads, Syncs, TypeOK
  <2> HIDE DEF next, then
  <2>5. RowStep(then).at \in {"idle", "row"}
    BY <2>3, RowStepFacts
  <2>6. Quiet /\ \A q \in Syncers : q # p => sync'[q] = sync[q]
    BY <1>4, Constants DEF SyncReads, Syncs, TypeOK, KeepKey, Quiet
  <2>7. <<p, "sync">> \notin behind' => <<p, "sync">> \notin behind \/ sync'[p] = Idle
    BY <2>6, NotIdle DEF Quiet, Forget, InFlight
  <2>8. SyncSoundOf(p)'
    <3>1. CASE next = key
      BY <2>4, <2>5, <3>1 DEF SyncSoundOf
    <3>2. CASE next # key
      <4>1. sync'[p].at = "write" /\ sync'[p].next = next
        BY <2>4, <3>2
      <4>2. sync'[p] # Idle
        BY <4>1 DEF Idle
      <4> QED BY <2>1, <2>2, <2>6, <2>7, <4>1, <4>2, OpenedStays DEF SyncSoundOf, Sound, Quiet
    <3> QED BY <3>1, <3>2
  <2> QED BY <1>4, <2>6, <2>8, QuietStep DEF SyncReads
<1>5. CASE SyncWrites(p)
  <2>1. sync[p].then \in RowStatus \cup {Stays}
    BY <1>5 DEF SyncWrites, SyncJob, Idle
  <2>2. sync'[p].at \in {"idle", "row"}
    BY <1>5, <2>1, RowStepFacts DEF SyncWrites, Syncs, TypeOK
  <2> QED BY <1>5, <2>2, LoudStep DEF SyncWrites, WriteKey
<1>6. CASE JobFails(p)
  <2>1. Quiet
    BY <1>6, Constants DEF JobFails, KeepKey, Quiet, TypeOK
  <2>2. \A q \in Syncers : sync'[q] = sync[q] \/ sync'[q] = Idle
    BY <1>6 DEF JobFails, Syncs, TypeOK
  <2>3. \A w \in Workers : admit'[w] = admit[w] \/ admit'[w] = Idle
    BY <1>6 DEF JobFails, Admits, TypeOK
  <2>4. control' = control \/ control' = Idle
    BY <1>6 DEF JobFails
  <2> QED BY <2>1, <2>2, <2>3, <2>4, QuietStep DEF SyncSoundOf, AdmitSoundOf, ControlSound, Idle
<1> QED BY <1>1, <1>2, <1>3, <1>4, <1>5, <1>6 DEF SyncLoop

LEMMA SoundTick ==
  ASSUME IInv, TypeOK', NEW w \in Workers, TickLoop(w) \/ WorkerRestarts(w)
  PROVE  IInv'
<1> TypeOK /\ AdmitSoundOf(w) /\ admit[w] \in AdmitJob
  BY DEF IInv, AdmitSound, TypeOK
<1>1. CASE TickReads(w)
  <2>1. admit'[w].at \in {"reload", "check"} /\ (admit'[w].at = "reload" => admit'[w].current = key')
    BY <1>1 DEF TickReads, Admits, TypeOK, KeepKey
  <2>2. AdmitSoundOf(w)'
    BY <2>1 DEF AdmitSoundOf
  <2>3. Quiet /\ \A v \in Workers : v # w => admit'[v] = admit[v]
    BY <1>1, Constants DEF TickReads, Admits, TypeOK, KeepKey, Quiet
  <2> QED BY <1>1, <2>2, <2>3, QuietStep DEF TickReads
<1>2. CASE TickReloads(w)
  <2>1. admit[w].at = "reload" /\ admit[w].current \in QueueStatus
    BY <1>2 DEF TickReloads, AdmitJob, Idle
  <2> DEFINE scheduled == ScheduledQueueStatus(row, now)
  <2>2. scheduled \in QueueStatus \ {"SOLD_OUT"} /\ (scheduled = "OPEN" => Opened)
    BY ScheduledFacts, Constants DEF TypeOK, Opened
  <2>3. Confirmed(w) = NextQueueStatus(admit[w].current, scheduled)
    BY DEF Confirmed, Fresh
  <2>4. /\ Confirmed(w) = "OPEN" => Opened /\ admit[w].current # "PAUSED"
        /\ Confirmed(w) = "SOLD_OUT" => admit[w].current = "SOLD_OUT"
        /\ admit[w].current = "SOLD_OUT" => Confirmed(w) \in {"SOLD_OUT", "CLOSED"}
    BY <2>2, <2>3, NextFacts
  <2>5. admit'[w].at = "check" \/ (admit'[w].at = "write" /\ admit'[w].next = Confirmed(w))
    <3>1. CASE Confirmed(w) # admit[w].current
      <4>1. admit'[w] = [at |-> "write", next |-> Confirmed(w)]
        BY <1>2, <3>1 DEF TickReloads, Admits, TypeOK
      <4> DEFINE next == Confirmed(w)
      <4>2. admit'[w] = [at |-> "write", next |-> next]
        BY <4>1
      <4> HIDE DEF next
      <4>3. admit'[w].at = "write" /\ admit'[w].next = next
        BY <4>2
      <4> QED BY <4>3 DEF next
    <3>2. CASE Confirmed(w) = admit[w].current
      <4>1. admit'[w] = [at |-> "check"]
        BY <1>2, <3>2 DEF TickReloads, Admits, TypeOK
      <4> QED BY <4>1
    <3> QED BY <3>1, <3>2
  <2>6. Quiet /\ \A v \in Workers : v # w => admit'[v] = admit[v]
    BY <1>2, Constants DEF TickReloads, Admits, TypeOK, KeepKey, Quiet
  <2>7. <<w, "admit">> \notin behind' => <<w, "admit">> \notin behind
    <3>1. admit'[w] # Idle
      BY <2>5, NotIdle
    <3> QED BY <2>6, <3>1 DEF Quiet, Forget, InFlight
  <2>8. AdmitSoundOf(w)'
    BY <2>1, <2>4, <2>5, <2>6, <2>7, OpenedStays DEF AdmitSoundOf, Sound, Quiet
  <2> QED BY <1>2, <2>6, <2>8, QuietStep DEF TickReloads
<1>3. CASE TickWrites(w)
  <2>1. admit'[w].at = "check"
    BY <1>3 DEF TickWrites, Admits, TypeOK
  <2> QED BY <1>3, <2>1, LoudStep DEF TickWrites, WriteKey
<1>4. CASE CheckSkipped(w) \/ CheckReads(w) \/ CheckCounts(w)
  <2>1. admit'[w].at \in {"idle", "count", "close"}
    BY <1>4 DEF CheckSkipped, CheckReads, CheckCounts, Admits, TypeOK, Idle
  <2>2. Quiet /\ \A v \in Workers : v # w => admit'[v] = admit[v]
    BY <1>4, Constants DEF CheckSkipped, CheckReads, CheckCounts, Admits, TypeOK, KeepKey, Quiet
  <2>3. admit'[w].at = "close" => soldOut'
    BY <1>4 DEF CheckSkipped, CheckReads, CheckCounts, Admits, AllSold, TypeOK, Idle
  <2>5. AdmitSoundOf(w)'
    BY <2>1, <2>3 DEF AdmitSoundOf
  <2>4. sync' = sync /\ control' = control
    BY <1>4 DEF CheckSkipped, CheckReads, CheckCounts
  <2> QED BY <2>2, <2>4, <2>5, QuietStep
<1>5. CASE CheckCloses(w)
  <2>1. admit'[w].at = "row"
    BY <1>5 DEF CheckCloses, Admits, TypeOK
  <2> QED BY <1>5, <2>1, LoudStep DEF CheckCloses, WriteKey
<1>6. CASE CheckFollows(w)
  <2>1. AdmitSoundOf(w)'
    BY <1>6 DEF CheckFollows, Admits, TypeOK, AdmitSoundOf, Idle
  <2>2. Quiet /\ \A v \in Workers : v # w => admit'[v] = admit[v]
    BY <1>6, Constants DEF CheckFollows, Admits, TypeOK, KeepKey, Quiet, Row
  <2> QED BY <1>6, <2>1, <2>2, QuietStep DEF CheckFollows
<1>7. CASE WorkerRestarts(w)
  <2>1. Quiet
    BY <1>7, Constants DEF WorkerRestarts, KeepKey, Quiet, TypeOK
  <2>2. /\ \A q \in Syncers : sync'[q] = sync[q] \/ sync'[q] = Idle
        /\ \A v \in Workers : admit'[v] = admit[v] \/ admit'[v] = Idle
    BY <1>7 DEF WorkerRestarts, Syncs, Admits, TypeOK
  <2> QED BY <1>7, <2>1, <2>2, QuietStep DEF WorkerRestarts, SyncSoundOf, AdmitSoundOf, Idle
<1> QED BY <1>1, <1>2, <1>3, <1>4, <1>5, <1>6, <1>7 DEF TickLoop

LEMMA SoundElsewhere ==
  ASSUME IInv, TypeOK', AdminStep \/ LastTicketSold \/ Tick \/ KeyLost
  PROVE  IInv'
<1> TypeOK
  BY DEF IInv
<1>1. CASE \E status \in {"DRAFT", "SCHEDULED"}, plan \in Plans, more \in BOOLEAN :
             EditCommits(status, plan, more)
  <2> PICK status \in {"DRAFT", "SCHEDULED"}, plan \in Plans, more \in BOOLEAN :
             EditCommits(status, plan, more)
    BY <1>1
  <2>1. sync'[Api].at = "load" /\ Api \in Syncers
    BY DEF EditCommits, Syncs, TypeOK, Syncers
  <2> QED BY <2>1, LoudStep DEF EditCommits
<1>2. CASE \E act \in {"pause", "resume"} : ControlReads(act)
  <2> PICK act \in {"pause", "resume"} : ControlReads(act)
    BY <1>2
  <2>1. Quiet /\ sync' = sync /\ admit' = admit
    BY Constants DEF ControlReads, KeepKey, Quiet, TypeOK
  <2>2. ControlSound'
    BY DEF ControlReads, Turn, ControlSound, KeepKey
  <2> QED BY <2>1, <2>2, QuietStep
<1>3. CASE ControlWrites
  BY <1>3, LoudStep DEF ControlWrites, WriteKey
<1>4. CASE LastTicketSold \/ Tick
  <2>1. Quiet /\ UNCHANGED jobs
    BY <1>4, Constants DEF LastTicketSold, Tick, KeepKey, Quiet, TypeOK
  <2> QED BY <2>1, QuietStep DEF jobs
<1>5. CASE KeyLost
  <2>1. behind' = InFlight'
    BY <1>5 DEF KeyLost
  <2>2. SyncSound' /\ AdmitSound'
    BY <2>1, NotIdle DEF SyncSound, AdmitSound, SyncSoundOf, AdmitSoundOf, InFlight
  <2>3. ControlSound'
    BY <2>1 DEF ControlSound, InFlight
  <2> QED BY <2>2, <2>3 DEF IInv
<1> QED BY <1>1, <1>2, <1>3, <1>4, <1>5 DEF AdminStep

LEMMA IInvStep == IInv /\ [Next]_vars => IInv'
<1>1. IInv /\ UNCHANGED vars => IInv'
  BY DEF IInv, TypeOK, SyncSound, AdmitSound, SyncSoundOf, AdmitSoundOf, ControlSound, Opened, vars, jobs
<1>2. IInv /\ Next => TypeOK'
  BY TypeStep DEF IInv
<1> QED BY <1>1, <1>2, SoundSync, SoundTick, SoundElsewhere DEF Next

LEMMA IInvAlways == Spec => []IInv
<1>1. Init => IInv
  BY TypeInit, SoundInit DEF IInv
<1> QED BY <1>1, IInvStep, PTL DEF Spec
-----------------------------------------------------------------------------
(* What a step may do to the key *)

\* A write by a job that was not overtaken.
LEMMA WriteSync ==
  ASSUME IInv, NEW p \in Syncers, SyncWrites(p), ~LateStep
  PROVE  (key' = "OPEN" => Opened) /\ Sound(key', key)
<1>1. sync[p].at = "write" /\ key' = sync[p].next
  BY DEF SyncWrites, WriteKey
<1>2. sync[p] \in SyncJob /\ sync' = [sync EXCEPT ![p] = RowStep(sync[p].then)]
  BY DEF SyncWrites, Syncs, IInv, TypeOK
<1>3. sync[p].then \in RowStatus \cup {Stays}
  BY <1>1, <1>2 DEF SyncJob, Idle
<1>4. sync'[p].at # "write"
  BY <1>2, <1>3, RowStepFacts DEF IInv, TypeOK
<1>5. Moves(<<p, "sync">>)
  BY <1>1, <1>4 DEF Moves
<1>6. <<p, "sync">> \notin behind
  BY <1>5 DEF LateStep
<1> QED BY <1>1, <1>6 DEF IInv, SyncSound, SyncSoundOf

LEMMA WriteTick ==
  ASSUME IInv, NEW w \in Workers, TickWrites(w), ~LateStep
  PROVE  (key' = "OPEN" => Opened) /\ Sound(key', key)
<1>1. admit[w].at = "write" /\ key' = admit[w].next
  BY DEF TickWrites, WriteKey
<1>2. admit'[w].at = "check"
  BY DEF TickWrites, Admits, IInv, TypeOK
<1>3. Moves(<<w, "admit">>)
  BY <1>1, <1>2 DEF Moves
<1>4. <<w, "admit">> \notin behind
  BY <1>3 DEF LateStep
<1> QED BY <1>1, <1>4 DEF IInv, AdmitSound, AdmitSoundOf

LEMMA WriteControl ==
  ASSUME IInv, ControlWrites, ~LateStep
  PROVE  control' # control /\ key \in {"OPEN", "PAUSED"} /\ (key' = "OPEN" => key = "PAUSED")
<1>1. control # Idle /\ control' = Idle /\ key' = control.next
  BY DEF ControlWrites, WriteKey
<1>2. <<Api, "control">> \notin behind
  BY <1>1 DEF LateStep, Moves
<1> QED BY <1>1, <1>2 DEF IInv, ControlSound

\* The sold-out check of a tick that was not overtaken.
LEMMA WriteCheck ==
  ASSUME IInv, NEW w \in Workers, CheckCloses(w), ~LateStep
  PROVE  soldOut
<1>1. admit[w].at = "close" /\ admit'[w].at = "row"
  BY DEF CheckCloses, Admits, IInv, TypeOK
<1>2. Moves(<<w, "admit">>)
  BY <1>1 DEF Moves
<1>3. <<w, "admit">> \notin behind
  BY <1>2 DEF LateStep
<1> QED BY <1>1, <1>3 DEF IInv, AdmitSound, AdmitSoundOf

\* Every step of which the key is not just kept.
LEMMA KeySteps ==
  ASSUME Next
  PROVE  \/ key' = key \/ key' = NoKey
         \/ \E p \in Syncers : SyncWrites(p)
         \/ \E w \in Workers : TickWrites(w) \/ (CheckCloses(w) /\ key' = "SOLD_OUT")
         \/ ControlWrites
<1> USE DEF KeepKey
<1>1. ASSUME NEW p \in Syncers, SyncLoop(p) \/ JobFails(p), ~SyncWrites(p)
      PROVE  key' = key
  BY <1>1 DEF SyncLoop, SyncSelects, SyncFollows, SyncLoads, SyncReads, JobFails
<1>2. ASSUME NEW w \in Workers, TickLoop(w) \/ WorkerRestarts(w), ~TickWrites(w), ~CheckCloses(w)
      PROVE  key' = key
  BY <1>2 DEF TickLoop, WorkerRestarts, TickReads, TickReloads, CheckSkipped, CheckReads,
              CheckCounts, CheckFollows
<1>3. ASSUME NEW w \in Workers, CheckCloses(w)
      PROVE  key' = "SOLD_OUT"
  BY <1>3 DEF CheckCloses, WriteKey
<1>4. ASSUME AdminStep \/ LastTicketSold \/ Tick \/ KeyLost, ~ControlWrites
      PROVE  key' = key \/ key' = NoKey
  BY <1>4 DEF AdminStep, EditCommits, ControlReads, LastTicketSold, Tick, KeyLost
<1> QED BY <1>1, <1>2, <1>3, <1>4 DEF Next

\* The sale opens when the schedule says so: of the jobs that were not overtaken none
\* opens it early, though a worker may hold the old schedule (jobs.ts:204), but for a
\* resume, which opens a paused queue whatever the schedule says (admin.ts:139).
THEOREM NoEarlyOpening == Spec => NeverOpensEarly
<1>1. IInv /\ [Next]_vars
        => [Opens /\ ~LateStep =>
              now >= row.plan.saleOpensAt \/ (key = "PAUSED" /\ control' # control)]_vars
  <2> SUFFICES ASSUME IInv, Next, Opens, ~LateStep
               PROVE  Opened \/ (key = "PAUSED" /\ control' # control)
    BY DEF Opened
  <2> QED BY KeySteps, WriteSync, WriteTick, WriteControl DEF Opens, NoKey
<1> QED BY <1>1, IInvAlways, PTL DEF Spec, NeverOpensEarly

\* A pause holds until it is resumed, the schedule goes back, or a writer that
\* had read the key before overwrites it.
THEOREM PauseKept == Spec => PauseHolds
<1>1. IInv /\ [Next]_vars => [Opens /\ key = "PAUSED" => control' # control \/ LateStep]_vars
  <2> SUFFICES ASSUME IInv, Next, Opens, key = "PAUSED", ~LateStep
               PROVE  control' # control
    OBVIOUS
  <2> QED BY KeySteps, WriteSync, WriteTick, WriteControl DEF Opens, NoKey, Sound
<1> QED BY <1>1, IInvAlways, PTL DEF Spec, PauseHolds

\* For every job that was not overtaken sold out is final, and true when it is written.
THEOREM SoldOutKept == Spec => SoldOutHolds
<1>1. IInv /\ [Next]_vars
        => [~LateStep => /\ key = "SOLD_OUT" => key' \in {"SOLD_OUT", "CLOSED", NoKey}
                         /\ key # "SOLD_OUT" /\ key' = "SOLD_OUT" => soldOut]_vars
  <2> SUFFICES ASSUME IInv, Next, ~LateStep
               PROVE  /\ key = "SOLD_OUT" => key' \in {"SOLD_OUT", "CLOSED", NoKey}
                      /\ key # "SOLD_OUT" /\ key' = "SOLD_OUT" => soldOut
    OBVIOUS
  <2>1. CASE key' = key \/ key' = NoKey
    BY <2>1 DEF NoKey
  <2>2. ASSUME NEW p \in Syncers, SyncWrites(p)
        PROVE  Sound(key', key)
    BY <2>2, WriteSync
  <2>3. ASSUME NEW w \in Workers, TickWrites(w)
        PROVE  Sound(key', key)
    BY <2>3, WriteTick
  <2>4. ASSUME NEW w \in Workers, CheckCloses(w)
        PROVE  soldOut
    BY <2>4, WriteCheck
  <2>5. CASE ControlWrites
    <3>1. key \in {"OPEN", "PAUSED"} /\ key' \in {"OPEN", "PAUSED"}
      BY <2>5, WriteControl DEF ControlWrites, WriteKey, IInv, TypeOK, ControlJob, Idle
    <3> QED BY <3>1
  <2> QED BY <2>1, <2>2, <2>3, <2>4, <2>5, KeySteps DEF Sound
<1> QED BY <1>1, IInvAlways, PTL DEF Spec, SoldOutHolds
=============================================================================
