----------------------------- MODULE WaitingRoom -----------------------------
(***************************************************************************)
(* The virtual queue of one event: the Redis keys queue, hb, active,       *)
(* admitted and lock:admission, the Lua scripts join, status, admit,       *)
(* cleanup and leader (packages/lua/scripts), getQueueState and leaveQueue *)
(* (packages/core/src/queue.ts), the queue tokens (apps/api/src/auth.ts)   *)
(* and the admission job of the workers (apps/worker/src/jobs.ts).         *)
(*                                                                         *)
(* A script is one atomic step.  The clock advances in units of the        *)
(* admission interval.  A script is given the time its caller read before  *)
(* sending it, so it may work with a time up to MaxLag old; Redis expires  *)
(* keys by its own clock, which is now.                                    *)
(*                                                                         *)
(* The status key and the stock belong to other parts of the system and    *)
(* change here as an environment.                                          *)
(***************************************************************************)
EXTENDS Integers, FiniteSets

CONSTANTS
  Users,        \* accounts, as numbers: ties in a sorted set go by member
  Workers,      \* worker processes
  Lots,         \* random scores of the waiting room, below every timestamp
  Start,        \* first time of a run
  Horizon,      \* bound: the clock stops here
  MaxLag,       \* age of the time a script is given
  SessionTtl,   \* CoreSettings.sessionTtlMs
  HbTimeout,    \* CoreSettings.heartbeatTimeoutMs
  LeaderTtl,    \* LEADER_TTL_MS
  Grain,        \* clock units per second of a token's exp
  Rate,         \* config admitPerSec
  MaxActive,    \* config maxActive
  Stocks,       \* values the sum of the stock keys takes
  StatusMoves,  \* changes <<from, to>> of the status key
  Stalls        \* whether a worker may be late, or stop for good

QueueStatuses == {"SCHEDULED", "PREQUEUE", "OPEN", "PAUSED", "SOLD_OUT", "CLOSED"}

ASSUME PeopleAssumption ==
  /\ Users \subseteq Nat /\ IsFiniteSet(Users)
  /\ IsFiniteSet(Workers)
ASSUME TimeAssumption ==
  /\ {Start, Horizon, MaxLag} \subseteq Nat
  /\ {SessionTtl, HbTimeout, LeaderTtl, Grain} \subseteq Nat \ {0}
  /\ MaxLag <= Start /\ Start <= Horizon
  /\ Lots \subseteq Nat
  /\ \A lot \in Lots : lot < Start - MaxLag
ASSUME ConfigAssumption ==
  /\ {Rate, MaxActive} \subseteq Nat \ {0}
  /\ Stocks \subseteq Nat
  /\ StatusMoves \subseteq QueueStatuses \X QueueStatuses
  /\ Stalls \in BOOLEAN

VARIABLES
  now,        \* the clock
  status,     \* status:{event}
  stock,      \* sum of stock:{event}:{cat}
  queue, hb,  \* sorted sets queue:{event} and hb:{event}: score per member
  active,     \* sorted set active:{event}: end of session per member
  admitted,   \* when admitted:{event}:{user} expires
  token,      \* exp of the latest queue token each account was given
  lock,       \* lock:admission:{event}: owner and expiry
  worker,     \* per worker: what its admission job does, and when it last ran
  arrived,    \* history: when each waiting account entered the queue
  drew,       \* history: waiting accounts that entered by lot
  seen,       \* history: when each waiting account was last heard of
  left        \* history: accounts that left after their latest token

lineVars    == <<queue, hb>>
sessionVars == <<active, admitted>>
envVars     == <<status, stock>>
history     == <<arrived, drew, seen>>
vars == <<now, envVars, lineVars, sessionVars, token, lock, worker, history, left>>

Absent == -1
NoLock == [owner |-> "nobody", until |-> 0]
Idle   == [step |-> "idle"]
Dead   == [step |-> "dead"]
Jobs   == {Idle, Dead} \cup [step : {"admit"}, from : Nat]

Queued  == {u \in Users : queue[u] # Absent}
Members == {u \in Users : active[u] # Absent}

\* Order of the members of the sorted set queue:{event}.
Ahead(u, v) == queue[u] < queue[v] \/ (queue[u] = queue[v] /\ u < v)

\* The admitted key of u exists.
Marked(u) == admitted[u] > now

\* getQueueState would call u ADMITTED.
InSession(u) == Marked(u) /\ active[u] > now

Recent == (now - MaxLag) .. now

Init ==
  /\ now = Start
  /\ status = "SCHEDULED" /\ stock \in Stocks
  /\ queue = [u \in Users |-> Absent] /\ hb = queue
  /\ active = queue /\ admitted = [u \in Users |-> 0]
  /\ token = [u \in Users |-> 0]
  /\ lock = NoLock
  /\ worker = [w \in Workers |-> [job |-> Idle, ran |-> Start - 1]]
  /\ arrived = queue /\ drew = {} /\ seen = queue /\ left = {}
-----------------------------------------------------------------------------
(* Accounts *)

\* What the histories keep of accounts that are no longer in the queue.
Forget(S) ==
  /\ arrived' = [u \in Users |-> IF u \in S THEN Absent ELSE arrived[u]]
  /\ seen' = [u \in Users |-> IF u \in S THEN Absent ELSE seen[u]]
  /\ drew' = drew \ S

\* Mutant: without NX.
EnterLineAnew(u, t, score) ==
  /\ queue' = [queue EXCEPT ![u] = score]
  /\ hb' = [hb EXCEPT ![u] = t]

\* The ZADD NX of the queue and the ZADD of the heartbeat.
EnterLine(u, t, score) ==
  /\ queue' = [queue EXCEPT ![u] = IF @ = Absent THEN score ELSE @]
  /\ hb' = [hb EXCEPT ![u] = t]

\* Mutant: asked only while the sale runs.
NeedNotQueueWhileOpen(u) == status = "OPEN" /\ Marked(u) /\ active[u] # Absent

\* join.lua takes u for admitted and leaves the queue alone.
NeedNotQueue(u) == Marked(u) /\ active[u] # Absent

\* POST /events/:id/queue with a status that lets accounts in.
Join(u) ==
  /\ status \in {"PREQUEUE", "OPEN", "PAUSED"}
  /\ ~NeedNotQueue(u)
  /\ \E t \in Recent :
       \E score \in IF status = "PREQUEUE" THEN Lots ELSE {t} : EnterLine(u, t, score)
  /\ IF queue[u] = Absent
     THEN /\ arrived' = [arrived EXCEPT ![u] = now]
          /\ drew' = IF status = "PREQUEUE" THEN drew \cup {u} ELSE drew
     ELSE UNCHANGED <<arrived, drew>>
  /\ seen' = [seen EXCEPT ![u] = now]
  /\ UNCHANGED <<now, envVars, sessionVars, token, lock, worker, left>>

\* Mutant: rounded up.
TokenEndRoundedUp(score) == ((score + Grain - 1) \div Grain) * Grain

\* Expiry a signed token carries: whole seconds, rounded down.
TokenEnd(score) == (score \div Grain) * Grain

\* getQueueState for GET status, an SSE push, or the answer of a join: the
\* script's heartbeat (XX), then the token for a session that still runs.
Status(u) ==
  \E t \in Recent :
    /\ hb' = [hb EXCEPT ![u] = IF queue[u] # Absent THEN t ELSE @]
    /\ seen' = [seen EXCEPT ![u] = IF queue[u] # Absent THEN now ELSE @]
    /\ IF status # "SOLD_OUT" /\ Marked(u) /\ active[u] > t
       THEN /\ token' = [token EXCEPT ![u] = TokenEnd(active[u])]
            /\ left' = left \ {u}
       ELSE UNCHANGED <<token, left>>
    /\ UNCHANGED <<now, envVars, queue, sessionVars, lock, worker, arrived, drew>>

\* leaveQueue: DELETE /events/:id/queue, or a settled payment.
Leave(u) ==
  /\ queue' = [queue EXCEPT ![u] = Absent] /\ hb' = [hb EXCEPT ![u] = Absent]
  /\ active' = [active EXCEPT ![u] = Absent] /\ admitted' = [admitted EXCEPT ![u] = 0]
  /\ Forget({u}) /\ left' = left \cup {u}
  /\ UNCHANGED <<now, envVars, token, lock, worker>>
-----------------------------------------------------------------------------
(* Workers *)

\* Mutants: SET without asking who holds it, and without an expiry.
LockUnasked(w) == TRUE
LockWithoutExpiry(w) == lock.owner \in {w, NoLock.owner}

\* leader.lua for worker w: the lock is free, expired or its own.
LockFor(w) == lock.owner = w \/ lock.until <= now

\* A tick of admitEvent begins: acquireLeader, and the end of the tick for
\* a worker that does not lead.
Acquire(w) ==
  /\ worker[w].job = Idle /\ worker[w].ran < now
  /\ IF LockFor(w)
     THEN /\ lock' = [owner |-> w, until |-> now + LeaderTtl]
          /\ worker' = [worker EXCEPT ![w] = [job |-> [step |-> "admit", from |-> now], ran |-> now]]
     ELSE /\ worker' = [worker EXCEPT ![w].ran = now]
          /\ UNCHANGED lock
  /\ UNCHANGED <<now, envVars, lineVars, sessionVars, token, history, left>>

\* admit.lua at time t finds these sessions after its purge.
Running(t) == {u \in Users : active[u] > t}

\* Mutant: the limit of sessions forgotten.
SlotsByRateOnly(t) == IF stock < Rate THEN stock ELSE Rate

\* Seats admit.lua may fill.
Slots(t) ==
  LET free == MaxActive - Cardinality(Running(t))
      few  == IF Rate < free THEN Rate ELSE free
  IN IF stock < few THEN stock ELSE few

\* Mutant: ZPOPMAX.
PoppedLast(S, n) ==
  /\ S \subseteq Queued
  /\ Cardinality(S) = IF Cardinality(Queued) < n THEN Cardinality(Queued) ELSE n
  /\ \A u \in S : \A v \in Queued \ S : Ahead(v, u)

\* ZPOPMIN queue n: S are the first n members of the queue, or all of them.
PoppedFirst(S, n) ==
  /\ S \subseteq Queued
  /\ Cardinality(S) = IF Cardinality(Queued) < n THEN Cardinality(Queued) ELSE n
  /\ \A u \in S : \A v \in Queued \ S : Ahead(u, v)

\* Mutant: ZREM of the heartbeat forgotten.
SeatKeepingHeartbeat(S, t) ==
  /\ active' = [u \in Users |-> IF u \in S THEN t + SessionTtl
                                ELSE IF active[u] > t THEN active[u] ELSE Absent]
  /\ admitted' = [u \in Users |-> IF u \in S THEN now + SessionTtl ELSE admitted[u]]
  /\ queue' = [u \in Users |-> IF u \in S THEN Absent ELSE queue[u]]
  /\ hb' = hb

\* The writes of admit.lua at time t, which seats S.
Seat(S, t) ==
  /\ active' = [u \in Users |-> IF u \in S THEN t + SessionTtl
                                ELSE IF active[u] > t THEN active[u] ELSE Absent]
  /\ admitted' = [u \in Users |-> IF u \in S THEN now + SessionTtl ELSE admitted[u]]
  /\ queue' = [u \in Users |-> IF u \in S THEN Absent ELSE queue[u]]
  /\ hb' = [u \in Users |-> IF u \in S THEN Absent ELSE hb[u]]

\* The rest of the tick: admit.lua, with a time read after the lock was taken.
Admit(w) ==
  /\ worker[w].job.step = "admit"
  /\ \E t \in worker[w].job.from .. now :
       \E S \in SUBSET Queued :
         /\ IF status = "OPEN" /\ Slots(t) > 0 THEN PoppedFirst(S, Slots(t)) ELSE S = {}
         /\ Seat(S, t)
         /\ Forget(S)
  /\ worker' = [worker EXCEPT ![w].job = Idle]
  /\ UNCHANGED <<now, envVars, token, lock, left>>

\* The worker process dies and is not started again.
WorkerDies(w) ==
  /\ Stalls \/ \E other \in Workers \ {w} : worker[other].job # Dead
  /\ worker[w].job # Dead
  /\ worker' = [worker EXCEPT ![w].job = Dead]
  /\ UNCHANGED <<now, envVars, lineVars, sessionVars, token, lock, history, left>>

\* Mutants: a unit too early, and with the timeout subtracted a second time.
SilentTooEarly(cutoff) == {u \in Users : hb[u] # Absent /\ hb[u] <= cutoff + 1}
SilentForTwice(cutoff) == {u \in Users : hb[u] # Absent /\ hb[u] <= cutoff - HbTimeout}

\* Members whose heartbeat is not younger than the cutoff.
Silent(cutoff) == {u \in Users : hb[u] # Absent /\ hb[u] <= cutoff}

\* cleanup.lua, as cleanupTick calls it until a batch is not full.
Cleanup ==
  /\ \E t \in Recent :
       LET gone == Silent(t - HbTimeout) IN
         /\ gone # {}
         /\ queue' = [u \in Users |-> IF u \in gone THEN Absent ELSE queue[u]]
         /\ hb' = [u \in Users |-> IF u \in gone THEN Absent ELSE hb[u]]
         /\ Forget(gone)
  /\ UNCHANGED <<now, envVars, sessionVars, token, lock, worker, left>>
-----------------------------------------------------------------------------
(* Environment *)

\* The status key as the schedule, the admin and the sold-out check write it.
StatusChanges ==
  /\ \E s \in QueueStatuses : <<status, s>> \in StatusMoves /\ status' = s
  /\ UNCHANGED <<now, stock, lineVars, sessionVars, token, lock, worker, history, left>>

\* Reservations and releases.
StockChanges ==
  /\ stock' \in Stocks \ {stock}
  /\ UNCHANGED <<now, status, lineVars, sessionVars, token, lock, worker, history, left>>

\* A unit of time passes.  Workers that do not stall have run their tick.
Tick ==
  /\ now < Horizon
  /\ Stalls \/ \A w \in Workers :
       worker[w].job = Dead \/ (worker[w].job = Idle /\ worker[w].ran = now)
  /\ now' = now + 1
  /\ UNCHANGED <<envVars, lineVars, sessionVars, token, lock, worker, history, left>>

Next ==
  \/ \E u \in Users : Join(u) \/ Status(u) \/ Leave(u)
  \/ \E w \in Workers : Acquire(w) \/ Admit(w) \/ WorkerDies(w)
  \/ Cleanup \/ StatusChanges \/ StockChanges \/ Tick

Spec == Init /\ [][Next]_vars

\* The timers of a worker that is alive go on firing, and so does the clock.
FairSpec ==
  /\ Spec /\ WF_vars(Cleanup) /\ WF_vars(Tick)
  /\ \A w \in Workers : WF_vars(Acquire(w)) /\ WF_vars(Admit(w))
-----------------------------------------------------------------------------
(* Properties *)

\* No session and no token is granted for longer than a session lasts.
OneSessionLong ==
  \A u \in Users : active[u] <= now + SessionTtl /\ token[u] <= now + SessionTtl

\* The shape of the state, and that sessions and tokens end (PRD:114, "Masa
\* berlaku access token | 10 menit").
TypeOK ==
  /\ now \in Start .. Horizon /\ status \in QueueStatuses /\ stock \in Stocks
  /\ queue \in [Users -> Int] /\ hb \in [Users -> Int]
  /\ active \in [Users -> Int] /\ admitted \in [Users -> Nat]
  /\ token \in [Users -> Nat]
  /\ lock \in [owner : Workers \cup {NoLock.owner}, until : Nat]
  /\ worker \in [Workers -> [job : Jobs, ran : Int]]
  /\ arrived \in [Users -> Int] /\ seen \in [Users -> Int]
  /\ drew \subseteq Users /\ left \subseteq Users
  /\ OneSessionLong

\* The queue and the heartbeats name the same accounts through joins, polls,
\* admissions, departures and cleanups: a member without a heartbeat would
\* hold its place for ever, since cleanup.lua finds members by heartbeat.
QueueWatched == \A u \in Users : queue[u] = Absent <=> hb[u] = Absent

\* Nobody waits in the queue while the session it was admitted to still runs,
\* although the admitted key, the active entry and the callers' clocks expire
\* at different moments (join.lua asks for key and entry, lines 18-21).
NeverBoth == \A u \in Queued : ~InSession(u)

\* However late or many the workers that admit, the sessions stay within
\* maxActive (admit.lua purges and counts in the step that admits).
ActiveLimit == Cardinality(Members) <= MaxActive

\* Accounts that can check out with their latest token, apart from those that
\* left, are within maxActive: the token, which no script can revoke, never
\* outlives the session whose seat admit.lua gives away.
CheckoutLimit == Cardinality({u \in Users \ left : token[u] > now}) <= MaxActive

\* The step moves u from the queue to a session.
Seated(u) == u \in Queued /\ queue'[u] = Absent /\ active'[u] \notin {Absent, active[u]}

\* Whoever is admitted before somebody who keeps waiting arrived before it, up
\* to the age of the times the scripts are given, or is ahead by lot; repeated
\* joins, heartbeats and cleanups in between change nobody's place.
NobodyOvertaken ==
  [][\A u, v \in Users :
       Seated(u) /\ v \in Queued /\ queue'[v] # Absent =>
         \/ u \in drew
         \/ v \notin drew /\ arrived[u] <= arrived[v] + MaxLag]_vars

\* Whoever arrived after the sale opened is served in order of arrival, behind
\* those that drew lots before it arrived and before everybody else.
FifoAfterOpening ==
  [][\A u, v \in Users :
       Seated(u) /\ v \in Queued \ drew /\ queue'[v] # Absent =>
         arrived[u] <= arrived[v] + MaxLag]_vars

\* The cleanup drops nobody the API heard of within the timeout: concurrent
\* polls of two tabs with older times, or a cleanup with an older cutoff,
\* shorten the grace by no more than the age of those times.
DropsOnlyTheSilent ==
  [][Cleanup => \A u \in Queued :
       queue'[u] = Absent => seen[u] <= now - HbTimeout + MaxLag]_vars

\* Whichever worker admits, no other has led since it took the lease, unless it
\* stood still between acquireLeader and admit.lua for as long as a lease lasts:
\* nobody takes the lock away earlier, and only such a worker admits beside the
\* leader (jobs.ts:60, "admission per event hanya dijalankan leader").
AdmitsUnderLease ==
  [][\A w \in Workers :
       Admit(w) => \/ lock.owner = w /\ lock.until > now
                   \/ now >= worker[w].job.from + LeaderTtl]_vars

\* Time an account may wait when sales are open, tickets are left and one
\* worker is alive: while others may still get ahead, until the next tick, the
\* leases of the leaders that die, and a session for each group ahead.
Group    == IF Rate < MaxActive THEN Rate ELSE MaxActive
Rounds   == (Cardinality(Users) - 1) \div Group
MaxWait  == MaxLag + 1 + (Cardinality(Workers) - 1) * LeaderTtl + Rounds * SessionTtl

\* Nobody waits longer, whoever else joins again, leaves or times out and
\* whenever a leader dies between taking the lease and admitting.
ServedInTime == \A u \in Queued : now <= arrived[u] + MaxWait

\* An account that stopped polling leaves the queue, provided its timeout
\* falls before the clock stops.
GhostsLeave ==
  \A u \in Users :
    (u \in Queued /\ hb[u] + HbTimeout <= Horizon)
      ~> (u \notin Queued \/ hb[u] + HbTimeout > Horizon)
=============================================================================
