---------------------------- MODULE EventStatus ----------------------------
(***************************************************************************)
(* The status of one event, kept twice: Event.status in PostgreSQL and the *)
(* key status:{event} in Redis.  Three loops and two admin requests read   *)
(* one of them, decide, and write one of them, with nothing in between     *)
(* that keeps the others out:                                              *)
(*                                                                         *)
(*   sync     Worker.syncEvents (jobs.ts) and the end of upsertEvent       *)
(*            (admin.ts), both through syncEventToRedis (events.ts)        *)
(*   admit    the status part of Worker.admitEvent, and checkSoldOut       *)
(*   control  controlQueue (admin.ts): pause and resume                    *)
(*                                                                         *)
(* One variable per loop says how far each process has come and what it    *)
(* holds.  The lease that lets one worker at a time tick is the            *)
(* WaitingRoom's subject; a tick may outlive it, so ticks overlap here.    *)
(***************************************************************************)
EXTENDS Naturals, FiniteSets

CONSTANTS
  Workers,     \* worker processes
  Api,         \* the process that serves admin requests
  Plans,       \* schedules an admin may give: [preQueueAt, saleOpensAt, startsAt]
  AdminActs,   \* what admins do: "pause", "resume", "reschedule", "extend", "draft", "raise"
  Horizon,     \* bound: the clock stops here
  First,       \* the schedule the event is published with
  Budget       \* bound: admin acts, jobs that fail half-way and losses of the key

ASSUME EventAssumption ==
  /\ Api \notin Workers
  /\ {Horizon, Budget} \subseteq Nat /\ First \in Plans
  /\ Plans \subseteq [preQueueAt : Nat, saleOpensAt : Nat, startsAt : Nat]

QueueStatus == {"SCHEDULED", "PREQUEUE", "OPEN", "PAUSED", "SOLD_OUT", "CLOSED"}
RowStatus   == {"DRAFT", "SCHEDULED", "ON_SALE", "SOLD_OUT", "ENDED"}
Row         == [status : RowStatus, plan : Plans]

VARIABLES
  now,      \* the clock
  row,      \* the event in PostgreSQL
  key,      \* status:{event}, or NoKey
  soldOut,  \* whether sold = quota in every category
  cache,    \* Worker.events: the row each worker knows, or Unknown
  sync,     \* per process: where syncEvents or upsertEvent is
  admit,    \* per worker: where the admission tick is
  control,  \* where controlQueue is
  spent,
  behind    \* history: jobs that began before the latest decision

jobs == <<sync, admit, control>>
vars == <<now, row, key, soldOut, cache, jobs, spent, behind>>

NoKey   == "NONE"
Unknown == [status |-> "unknown"]

\* What a tick reads of a cached row: the schedule, and whether the row is live.
Cached(meta) == IF meta.status \in {"DRAFT", "ENDED"} THEN meta ELSE [meta EXCEPT !.status = "SCHEDULED"]

Idle    == [at |-> "idle"]
Stays   == "stays"   \* the row is left as it is

Syncers == Workers \cup {Api}
SyncJob ==
  {Idle} \cup [at : {"load"}] \cup [at : {"read"}, status : RowStatus, scheduled : QueueStatus]
         \cup [at : {"write"}, next : QueueStatus, then : RowStatus \cup {Stays}]
         \cup [at : {"row"}, then : RowStatus]
AdmitJob ==
  {Idle} \cup [at : {"reload"}, current : QueueStatus] \cup [at : {"write"}, next : QueueStatus]
         \cup [at : {"check", "count", "close", "row"}]
ControlJob == {Idle} \cup [at : {"write"}, next : {"PAUSED", "OPEN"}]

TypeOK ==
  /\ now \in 0 .. Horizon
  /\ row \in Row
  /\ key \in QueueStatus \cup {NoKey}
  /\ soldOut \in BOOLEAN
  /\ cache \in [Workers -> {Unknown} \cup Row]
  /\ sync \in [Syncers -> SyncJob]
  /\ admit \in [Workers -> AdmitJob]
  /\ control \in ControlJob
  /\ spent \in 0 .. Budget
  /\ behind \subseteq (Syncers \X {"sync"}) \cup (Workers \X {"admit"}) \cup {<<Api, "control">>}
-----------------------------------------------------------------------------
(* What the schedule, the key and the row say of each other. *)

ScheduledQueueStatus(meta, t) ==
  CASE meta.status \in {"DRAFT", "ENDED"} \/ t >= meta.plan.startsAt -> "CLOSED"
    [] OTHER -> IF t < meta.plan.preQueueAt THEN "SCHEDULED"
                ELSE IF t < meta.plan.saleOpensAt THEN "PREQUEUE" ELSE "OPEN"

\* Mutant: the schedule reopens a paused queue.
NextForgettingPause(current, scheduled) ==
  IF scheduled # "CLOSED" /\ current = "SOLD_OUT" THEN "SOLD_OUT" ELSE scheduled

\* Mutant: the schedule reopens a sold-out queue.
NextForgettingSoldOut(current, scheduled) ==
  IF current = "PAUSED" /\ scheduled = "OPEN" THEN "PAUSED" ELSE scheduled

\* A pause survives while the sale is open; a sold-out event stays so until it closes.
NextQueueStatus(current, scheduled) ==
  CASE scheduled = "CLOSED" -> "CLOSED"
    [] scheduled # "CLOSED" /\ current = "SOLD_OUT" -> "SOLD_OUT"
    [] current = "PAUSED" /\ scheduled = "OPEN" -> "PAUSED"
    [] OTHER -> scheduled

EventStatusFor(queueStatus, current) ==
  CASE current = "DRAFT" -> "DRAFT"
    [] OTHER -> CASE queueStatus \in {"OPEN", "PAUSED"} -> "ON_SALE"
                  [] queueStatus = "SOLD_OUT" -> "SOLD_OUT"
                  [] queueStatus = "CLOSED" -> "ENDED"
                  [] queueStatus \in {"SCHEDULED", "PREQUEUE"} -> "SCHEDULED"

\* Mutant: an event is left alone once it is sold out.
FollowedUntilSoldOut == {"SCHEDULED", "ON_SALE"}

\* The rows syncEvents selects.
Followed == {"SCHEDULED", "ON_SALE", "SOLD_OUT"}
-----------------------------------------------------------------------------
(* Who is overtaken: a job that began before the last write of the key or  *)
(* the last change of the schedule decides on what no longer holds.        *)

InFlight ==
  {<<p, "sync">> : p \in {q \in Syncers : sync[q] # Idle}}
    \cup {<<w, "admit">> : w \in {v \in Workers : admit[v] # Idle}}
    \cup (IF control # Idle THEN {<<Api, "control">>} ELSE {})

Forget       == behind' = behind \cap InFlight'
Overtakes(j) == behind' = InFlight' \ {j}

WriteKey(s, j) == key' = s /\ Overtakes(j)
KeepKey        == UNCHANGED key /\ Forget

Spend == spent < Budget /\ spent' = spent + 1

Init ==
  /\ now = 0 /\ key = NoKey /\ soldOut = FALSE
  /\ row = [status |-> "SCHEDULED", plan |-> First]
  /\ cache = [w \in Workers |-> Unknown]
  /\ sync = [p \in Syncers |-> Idle]
  /\ admit = [w \in Workers |-> Idle]
  /\ control = Idle
  /\ spent = 0 /\ behind = {}
-----------------------------------------------------------------------------
(* syncEvents and syncEventToRedis. *)

Syncs(p, job) == sync' = [sync EXCEPT ![p] = job]

\* The rows are selected first and loaded one by one afterwards.
SyncSelects(w) ==
  /\ sync[w] = Idle
  /\ IF row.status \in Followed
       THEN Syncs(w, [at |-> "load"]) /\ UNCHANGED cache
       ELSE UNCHANGED sync /\ cache' = [cache EXCEPT ![w] = Unknown]
  /\ UNCHANGED <<now, row, soldOut, admit, control, spent>>
  /\ KeepKey

SyncLoads(p) ==
  /\ sync[p].at = "load"
  /\ Syncs(p, [at |-> "read", status |-> row.status, scheduled |-> ScheduledQueueStatus(row, now)])
  /\ cache' = IF p \in Workers THEN [cache EXCEPT ![p] = Cached(row)] ELSE cache
  /\ UNCHANGED <<now, row, soldOut, admit, control, spent>>
  /\ KeepKey

\* What becomes of the row: only the workers bring it along.
RowAfter(p, status, next) ==
  IF p \in Workers /\ EventStatusFor(next, status) # status THEN EventStatusFor(next, status) ELSE Stays

RowStep(then) == IF then = Stays THEN Idle ELSE [at |-> "row", then |-> then]

SyncReads(p) ==
  /\ sync[p].at = "read"
  /\ LET next == NextQueueStatus(key, sync[p].scheduled)
         then == RowAfter(p, sync[p].status, next)
     IN Syncs(p, IF next # key THEN [at |-> "write", next |-> next, then |-> then]
                               ELSE RowStep(then))
  /\ UNCHANGED <<now, row, soldOut, cache, admit, control, spent>>
  /\ KeepKey

SyncWrites(p) ==
  /\ sync[p].at = "write"
  /\ Syncs(p, RowStep(sync[p].then))
  /\ UNCHANGED <<now, row, soldOut, cache, admit, control, spent>>
  /\ WriteKey(sync[p].next, <<p, "sync">>)

SyncFollows(w) ==
  /\ sync[w].at = "row"
  /\ row' = [row EXCEPT !.status = sync[w].then]
  /\ Syncs(w, Idle)
  /\ UNCHANGED <<now, soldOut, cache, admit, control, spent>>
  /\ KeepKey
-----------------------------------------------------------------------------
(* admitEvent: the status part, then checkSoldOut when no stock is left.   *)

Admits(w, job) == admit' = [admit EXCEPT ![w] = job]

\* The tick uses the row the worker cached; after an early return of the status
\* part comes the sold-out check.
TickReads(w) ==
  /\ admit[w] = Idle /\ cache[w] # Unknown
  /\ LET next == NextQueueStatus(key, ScheduledQueueStatus(cache[w], now))
     IN Admits(w, IF key # NoKey /\ next # key THEN [at |-> "reload", current |-> key]
                                                ELSE [at |-> "check"])
  /\ UNCHANGED <<now, row, soldOut, cache, sync, control, spent>>
  /\ KeepKey

\* Mutant: the tick confirms with the row it had cached.
FreshFromCache(w) == cache[w]

\* The cached schedule may be old: only the row decides.
Fresh(w) == row

Confirmed(w) == NextQueueStatus(admit[w].current, ScheduledQueueStatus(Fresh(w), now))

TickReloads(w) ==
  /\ admit[w].at = "reload"
  /\ Admits(w, IF Confirmed(w) # admit[w].current
                 THEN [at |-> "write", next |-> Confirmed(w)] ELSE [at |-> "check"])
  /\ cache' = [cache EXCEPT ![w] = Cached(Fresh(w))]
  /\ UNCHANGED <<now, row, soldOut, sync, control, spent>>
  /\ KeepKey

TickWrites(w) ==
  /\ admit[w].at = "write"
  /\ Admits(w, [at |-> "check"])
  /\ UNCHANGED <<now, row, soldOut, cache, sync, control, spent>>
  /\ WriteKey(admit[w].next, <<w, "admit">>)

\* Stock is left in Redis, or the last check is less than SOLD_OUT_CHECK_MS old.
CheckSkipped(w) ==
  /\ admit[w].at = "check"
  /\ Admits(w, Idle)
  /\ UNCHANGED <<now, row, soldOut, cache, sync, control, spent>>
  /\ KeepKey

\* Mutant: a paused event is not looked at.
ClosableWhenOpen == {"OPEN"}

Closable == {"OPEN", "PAUSED"}

CheckReads(w) ==
  /\ admit[w].at = "check"
  /\ Admits(w, IF key \in Closable THEN [at |-> "count"] ELSE Idle)
  /\ UNCHANGED <<now, row, soldOut, cache, sync, control, spent>>
  /\ KeepKey

\* The decision is PostgreSQL's: every ticket of every category is sold.
AllSold == soldOut

CheckCounts(w) ==
  /\ admit[w].at = "count"
  /\ Admits(w, IF AllSold THEN [at |-> "close"] ELSE Idle)
  /\ UNCHANGED <<now, row, soldOut, cache, sync, control, spent>>
  /\ KeepKey

CheckCloses(w) ==
  /\ admit[w].at = "close"
  /\ Admits(w, [at |-> "row"])
  /\ UNCHANGED <<now, row, soldOut, cache, sync, control, spent>>
  /\ WriteKey("SOLD_OUT", <<w, "admit">>)

CheckFollows(w) ==
  /\ admit[w].at = "row"
  /\ row' = [row EXCEPT !.status = "SOLD_OUT"]
  /\ Admits(w, Idle)
  /\ UNCHANGED <<now, soldOut, cache, sync, control, spent>>
  /\ KeepKey
-----------------------------------------------------------------------------
(* What admins do. *)

\* upsertEvent gives every event it saves the status of the form: DRAFT or SCHEDULED.
EditCommits(status, plan, more) ==
  /\ sync[Api] = Idle /\ Spend
  /\ status = "DRAFT" => "draft" \in AdminActs
  /\ plan # row.plan => "reschedule" \in AdminActs
  /\ now >= row.plan.startsAt => "extend" \in AdminActs
  /\ more => "raise" \in AdminActs
  /\ row' = [status |-> status, plan |-> plan]
  /\ soldOut' = (soldOut /\ ~more)
  /\ Syncs(Api, [at |-> "load"])
  /\ UNCHANGED <<now, cache, admit, control>>
  /\ UNCHANGED key /\ Overtakes(<<Api, "sync">>)

\* controlQueue: a pause of an open queue, a resume of a paused one.
Turn(act) == IF act = "pause" THEN <<"OPEN", "PAUSED">> ELSE <<"PAUSED", "OPEN">>

\* The budget counts the pauses; each is resumed at most once.
ControlReads(act) ==
  /\ act \in AdminActs /\ control = Idle /\ key = Turn(act)[1]
  /\ IF act = "pause" THEN Spend ELSE UNCHANGED spent
  /\ control' = [at |-> "write", next |-> Turn(act)[2]]
  /\ UNCHANGED <<now, row, soldOut, cache, sync, admit>>
  /\ KeepKey

ControlWrites ==
  /\ control # Idle
  /\ control' = Idle
  /\ UNCHANGED <<now, row, soldOut, cache, sync, admit, spent>>
  /\ WriteKey(control.next, <<Api, "control">>)
-----------------------------------------------------------------------------
(* The environment: buyers, the clock, errors and crashes. *)

LastTicketSold ==
  /\ ~soldOut /\ soldOut' = TRUE
  /\ \E plan \in Plans : now >= plan.saleOpensAt
  /\ UNCHANGED <<now, row, cache, jobs, spent>>
  /\ KeepKey

Tick ==
  /\ now < Horizon /\ now' = now + 1
  /\ UNCHANGED <<row, soldOut, cache, jobs, spent>>
  /\ KeepKey

\* Redis or PostgreSQL answers with an error, or the API process dies.
JobFails(p) ==
  /\ Spend
  /\ \/ sync[p] # Idle /\ Syncs(p, Idle) /\ UNCHANGED <<admit, control>>
     \/ p \in Workers /\ admit[p] # Idle /\ Admits(p, Idle) /\ UNCHANGED <<sync, control>>
     \/ p = Api /\ control # Idle /\ control' = Idle /\ UNCHANGED <<sync, admit>>
  /\ UNCHANGED <<now, row, soldOut, cache>>
  /\ KeepKey

\* A worker that starts again knows no event until it has synced.
WorkerRestarts(w) ==
  /\ Spend
  /\ Syncs(w, Idle) /\ Admits(w, Idle) /\ cache' = [cache EXCEPT ![w] = Unknown]
  /\ UNCHANGED <<now, row, soldOut, control>>
  /\ KeepKey

KeyLost ==
  /\ Spend
  /\ UNCHANGED <<now, row, soldOut, cache, jobs>>
  /\ key' = NoKey /\ behind' = InFlight'

SyncLoop(p) ==
  \/ p \in Workers /\ (SyncSelects(p) \/ SyncFollows(p))
  \/ SyncLoads(p) \/ SyncReads(p) \/ SyncWrites(p)

TickLoop(w) ==
  \/ TickReads(w) \/ TickReloads(w) \/ TickWrites(w)
  \/ CheckSkipped(w) \/ CheckReads(w) \/ CheckCounts(w) \/ CheckCloses(w) \/ CheckFollows(w)

AdminStep ==
  \/ \E status \in {"DRAFT", "SCHEDULED"}, plan \in Plans, more \in BOOLEAN :
       EditCommits(status, plan, more)
  \/ \E act \in {"pause", "resume"} : ControlReads(act)
  \/ ControlWrites

Next ==
  \/ \E p \in Syncers : SyncLoop(p) \/ JobFails(p)
  \/ \E w \in Workers : TickLoop(w) \/ WorkerRestarts(w)
  \/ AdminStep \/ LastTicketSold \/ Tick \/ KeyLost

\* The loops run for ever, and a job goes on once it has begun.  Once everything is
\* sold no stock is left in Redis, where StockSync heals what drifted, and of the
\* sold-out check, which most ticks skip, one is made every SOLD_OUT_CHECK_MS.
\* Admins, buyers, the clock and the faults may stop at any point.
Fairness ==
  /\ \A p \in Syncers : WF_vars(SyncLoop(p))
  /\ \A w \in Workers : WF_vars(TickLoop(w))
  /\ WF_vars(ControlWrites)
  /\ SF_vars(soldOut /\ \E w \in Workers : CheckReads(w))

Spec == Init /\ [][Next]_vars /\ Fairness
-----------------------------------------------------------------------------
(* Properties. *)

Moves(j) ==
  CASE j[2] = "sync" -> sync'[j[1]] # sync[j[1]]
    [] j[2] = "admit" -> admit'[j[1]] # admit[j[1]]
    [] j[2] = "control" -> control' # control

\* The step of a job that was overtaken by an edit or by a write of the key.
LateStep == \E j \in behind : Moves(j)

Opens == key' = "OPEN" /\ key # "OPEN"

\* The sale opens when the schedule says so, also after the opening was put off and
\* the workers still hold the old schedule (jobs.ts:204 reloads before it writes).
\* Two writes open it early: that of a job that was overtaken, and a resume, which
\* opens a paused queue without a look at the schedule (admin.ts:139), so that a sale
\* put off while it is paused is open again before its time.
NeverOpensEarly ==
  [][Opens /\ ~LateStep =>
       now >= row.plan.saleOpensAt \/ (key = "PAUSED" /\ control' # control)]_vars

\* A paused queue is opened by a resume and by nothing else, unless the schedule
\* itself went back to an earlier phase, or the writer had read the key before the
\* pause.  A pause is kept in the key alone: when Redis loses the key, the queue is
\* no longer paused, and the next sync opens it as the schedule says.
PauseHolds ==
  [][Opens /\ key = "PAUSED" => control' # control \/ LateStep]_vars

\* The queue is closed as sold out only while every ticket is sold, and that is
\* final: only a job that was overtaken, by a raised quota or by a write of the key
\* after it had read it, closes it with tickets left or leads from it to anything but
\* the end of the event.  Redis may lose the key.
SoldOutHolds ==
  [][~LateStep => /\ key = "SOLD_OUT" => key' \in {"SOLD_OUT", "CLOSED", NoKey}
                  /\ key # "SOLD_OUT" /\ key' = "SOLD_OUT" => soldOut]_vars

\* Key and row agree with the schedule and with each other.
Settled ==
  LET scheduled == ScheduledQueueStatus(row, now)
  IN CASE row.status = "DRAFT" -> TRUE
       [] row.status = "ENDED" -> now >= row.plan.startsAt
       [] OTHER -> /\ scheduled # "CLOSED"
                   /\ key = NextQueueStatus(key, scheduled)
                   /\ row.status = EventStatusFor(key, row.status)

\* However sync, ticks and admins overwrite each other, and whatever fails in
\* between, once they leave the event alone it follows its schedule.
FollowsTheSchedule == <>[]Settled

\* An event that is sold out while it is on sale is closed to the queue in the end.
ClosedWhenSoldOut ==
  <>[](soldOut /\ row.status # "DRAFT" /\ ScheduledQueueStatus(row, now) = "OPEN" => key = "SOLD_OUT")
=============================================================================
