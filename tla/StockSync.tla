------------------------------ MODULE StockSync ------------------------------
(***************************************************************************)
(* The stock of one category, kept twice: quota - sold - reserved in       *)
(* PostgreSQL and the counter stock:{event}:{cat} in Redis.  Checkouts and *)
(* releases move one and then the other; syncEventToRedis (events.ts) sets *)
(* the counter where there is none, upsertEvent and resetEventForLoadTest  *)
(* (admin.ts) change it after PostgreSQL, and reconcileStock               *)
(* (reconcile.ts) corrects a difference seen three times in a row.         *)
(*                                                                         *)
(* A call takes or returns one ticket.  What a checkout decides, and what  *)
(* an order may become, is the Inventory's subject: here it only matters   *)
(* in which order the two numbers move.                                    *)
(***************************************************************************)
EXTENDS Integers, FiniteSets

CONSTANTS
  Workers,    \* workers, by their reconciliation job
  Syncers,    \* workers, by their synchronisation job: the two run independently
  None,       \* no counter; no sighting
  Api,        \* the process that serves admin requests
  Callers,    \* checkouts and releases that may be under way together
  Quotas,     \* quotas an admin may set
  Resets,     \* whether the event may be reset for a load test
  MaxCalls,   \* bound: number of calls
  Budget      \* bound: admin requests and faults other than their own

ASSUME StockAssumption ==
  /\ None \notin Int \cup Workers /\ Api \notin Syncers /\ IsFiniteSet(Callers)
  /\ Quotas \subseteq Nat /\ Quotas # {} /\ Resets \in BOOLEAN
  /\ MaxCalls \in Nat /\ Budget \in Nat

\* HEAL_AFTER_RUNS
HealAfterRuns == 3

VARIABLES
  quota, taken,  \* TicketCategory: quota, and sold + reserved
  stock,         \* stock:{event}:{cat}, or NoStock
  tracker,       \* reconcile:{event}:{cat}: the last difference and how often it was seen
  call,          \* per caller: which of the two numbers it has moved
  sync,          \* per process: where syncEventToRedis is
  edit,          \* where the admin request is
  recon, lock,   \* per worker: where reconcileStock is; owner of lock:job:reconcile
  calls, spent,
  read,          \* history: the differences judged since the last correction, newest first
  disturbed      \* history: a fault, or a correction of what was no drift

numbers == <<quota, taken, stock>>
vars == <<quota, taken, stock, tracker, call, sync, edit, recon, lock, calls, spent, read, disturbed>>

NoStock == None
Fresh   == [diff |-> 0, runs |-> 0]
Idle    == [at |-> "idle"]
Nobody  == None
Unseen  == [i \in 1 .. HealAfterRuns |-> None]
Synchronising == Syncers \cup {Api}

Available == quota - taken

\* Calls that moved one number and not yet the other: whether it takes or
\* returns its ticket, the counter is one lower than PostgreSQL.
Underway == {c \in Callers : call[c] # "idle"}

\* A new quota that is committed and not yet passed on.
Pending == IF edit.at = "delta" THEN edit.delta ELSE 0

Drift == stock - (Available - Cardinality(Underway) - Pending)

Resetting == edit.at \in {"delete", "quota", "set"}

\* INCRBY, which creates the key when it is absent.
Incremented(n) == (IF stock = NoStock THEN 0 ELSE stock) + n

ReconJob ==
  {Idle} \cup [at : {"stock"}, available : Int] \cup [at : {"tracker", "heal"}, diff : Int]
         \cup [at : {"note"}, diff : Int, runs : 1 .. HealAfterRuns - 1] \cup [at : {"same", "clear"}]
EditJob ==
  {Idle} \cup [at : {"delta"}, delta : Int] \cup [at : {"delete", "quota"}] \cup [at : {"set"}, quota : Nat]

TypeOK ==
  /\ quota \in Quotas /\ taken \in 0 .. quota
  /\ stock \in Int \cup {NoStock}
  /\ tracker \in [diff : Int, runs : 0 .. HealAfterRuns - 1]
  /\ call \in [Callers -> {"idle", "reserved", "returning"}]
  /\ sync \in [Synchronising -> {Idle} \cup [at : {"load"}] \cup [at : {"set"}, available : Nat]]
  /\ edit \in EditJob
  /\ recon \in [Workers -> ReconJob]
  /\ lock \in Workers \cup {Nobody}
  /\ read \in [1 .. HealAfterRuns -> Int \cup {None}]
  /\ calls \in 0 .. MaxCalls /\ spent \in 0 .. Budget
  /\ disturbed \in BOOLEAN

Init ==
  /\ quota \in Quotas /\ taken = 0 /\ stock = NoStock /\ tracker = Fresh
  /\ call = [c \in Callers |-> "idle"]
  /\ sync = [p \in Synchronising |-> Idle] /\ edit = Idle
  /\ recon = [w \in Workers |-> Idle] /\ lock = Nobody
  /\ calls = 0 /\ spent = 0 /\ read = Unseen /\ disturbed = FALSE

Spend == spent < Budget /\ spent' = spent + 1

(***************************************************************************)
(* Checkouts and releases                                                  *)
(***************************************************************************)

Begins(c, at) ==
  /\ call[c] = "idle" /\ calls < MaxCalls
  /\ calls' = calls + 1 /\ call' = [call EXCEPT ![c] = at]

Moves(c, from, to) == call[c] = from /\ call' = [call EXCEPT ![c] = to]

\* reserve.lua, which refuses a counter that is absent or too low.  What is
\* reserved during a reset is wiped out with the rest.
Reserve(c) ==
  /\ stock # NoStock /\ stock >= 1
  /\ Begins(c, "reserved")
  /\ stock' = stock - 1
  /\ disturbed' = (disturbed \/ Resetting)
  /\ UNCHANGED <<quota, taken, tracker, sync, edit, recon, lock, spent, read>>

\* The transaction of createOrder, guarded by the CHECK on the row.
Commit(c) ==
  /\ taken < quota
  /\ Moves(c, "reserved", "idle")
  /\ taken' = taken + 1
  /\ UNCHANGED <<quota, stock, tracker, sync, edit, recon, lock, calls, spent, read, disturbed>>

\* The transaction fails: refused by the row, by a twin of the order, by the
\* database being away.
Refused(c) ==
  /\ Moves(c, "reserved", "returning")
  /\ UNCHANGED <<quota, taken, stock, tracker, sync, edit, recon, lock, calls, spent, read, disturbed>>

\* releaseOrder: PostgreSQL first ...
Release(c) ==
  /\ taken > 0
  /\ Begins(c, "returning")
  /\ taken' = taken - 1
  /\ UNCHANGED <<quota, stock, tracker, sync, edit, recon, lock, spent, read, disturbed>>

\* ... and then release.lua, as after a failed transaction.
Return(c) ==
  /\ Moves(c, "returning", "idle")
  /\ stock' = Incremented(1)
  /\ UNCHANGED <<quota, taken, tracker, sync, edit, recon, lock, calls, spent, read, disturbed>>

\* The process dies between the two: the counter keeps the ticket.
CallDies(c) ==
  /\ Spend /\ call[c] # "idle"
  /\ call' = [call EXCEPT ![c] = "idle"]
  /\ disturbed' = TRUE
  /\ UNCHANGED <<numbers, tracker, sync, edit, recon, lock, calls, read>>

(***************************************************************************)
(* syncEventToRedis: by every worker at its interval, by the API server    *)
(* after an edit                                                           *)
(***************************************************************************)

SyncLoads(p) ==
  /\ sync[p].at = "load" \/ (p \in Syncers /\ sync[p] = Idle)
  /\ sync' = [sync EXCEPT ![p] = [at |-> "set", available |-> Available]]
  /\ UNCHANGED <<numbers, tracker, call, edit, recon, lock, calls, spent, read, disturbed>>

\* SET NX of max(0, available); available is never negative, by the CHECK.
Initialized(available) == IF stock = NoStock THEN available ELSE stock

SyncSets(p) ==
  /\ sync[p].at = "set"
  /\ stock' = Initialized(sync[p].available)
  /\ sync' = [sync EXCEPT ![p] = Idle]
  /\ UNCHANGED <<quota, taken, tracker, call, edit, recon, lock, calls, spent, read, disturbed>>

(***************************************************************************)
(* The administrator: a new quota, a reset for the load test               *)
(***************************************************************************)

\* upsertEvent: the transaction; the CHECK keeps the quota from sinking below
\* what is taken.  An increment of an absent counter creates a wrong one.
EditCommits ==
  /\ Spend /\ edit = Idle /\ sync[Api] = Idle
  /\ \E q \in Quotas \ {quota} :
       /\ q >= taken
       /\ quota' = q
       /\ edit' = [at |-> "delta", delta |-> q - quota]
  /\ disturbed' = (disturbed \/ stock = NoStock)
  /\ UNCHANGED <<taken, stock, tracker, call, sync, recon, lock, calls, read>>

EditPassesOn ==
  /\ edit.at = "delta"
  /\ stock' = Incremented(edit.delta)
  /\ edit' = Idle /\ sync' = [sync EXCEPT ![Api] = [at |-> "load"]]
  /\ UNCHANGED <<quota, taken, tracker, call, recon, lock, calls, spent, read, disturbed>>

\* resetEventForLoadTest: the orders are deleted, then the keys ...
ResetCommits ==
  /\ Resets /\ Spend /\ edit = Idle /\ sync[Api] = Idle
  /\ taken' = 0
  /\ edit' = [at |-> "delete"]
  /\ disturbed' = (disturbed \/ Underway # {})
  /\ UNCHANGED <<quota, stock, tracker, call, sync, recon, lock, calls, read>>

ResetDeletes ==
  /\ edit.at = "delete"
  /\ stock' = NoStock /\ tracker' = Fresh
  /\ edit' = [at |-> "quota"]
  /\ UNCHANGED <<quota, taken, call, sync, recon, lock, calls, spent, read, disturbed>>

ResetLoads ==
  /\ edit.at = "quota"
  /\ edit' = [at |-> "set", quota |-> quota]
  /\ UNCHANGED <<numbers, tracker, call, sync, recon, lock, calls, spent, read, disturbed>>

\* Mutant: the reset leaves a counter that is there, like the synchronisation.
ResetToIfAbsent(q) == IF stock = NoStock THEN q ELSE stock

\* ... and the counter is set outright: a worker may have written the old
\* value in the meantime.
ResetTo(q) == q

ResetSets ==
  /\ edit.at = "set"
  /\ stock' = ResetTo(edit.quota)
  /\ edit' = Idle /\ sync' = [sync EXCEPT ![Api] = [at |-> "load"]]
  /\ UNCHANGED <<quota, taken, tracker, call, recon, lock, calls, spent, read, disturbed>>

\* The API server dies in the middle: at most once for each request, so that it needs
\* no bound of its own.
EditFails ==
  /\ edit # Idle
  /\ edit' = Idle /\ disturbed' = TRUE
  /\ UNCHANGED <<numbers, tracker, call, sync, recon, lock, calls, spent, read>>

(***************************************************************************)
(* reconcileStock                                                          *)
(***************************************************************************)

Working == {w \in Workers : recon[w] # Idle}

\* Mutant: the job does not ask who holds the lock.
MayReconcileUnasked(w) == TRUE

\* acquireLeader.  The lease of a worker that does nothing may have ended.
MayReconcile(w) == lock \in Working => lock = w

ReconTo(w, job) == recon' = [recon EXCEPT ![w] = job]

ReconLoads(w) ==
  /\ recon[w] = Idle /\ MayReconcile(w)
  /\ lock' = w
  /\ ReconTo(w, [at |-> "stock", available |-> Available])
  /\ UNCHANGED <<numbers, tracker, call, sync, edit, calls, spent, read, disturbed>>

\* An absent counter is passed over.
ReconReads(w) ==
  /\ recon[w].at = "stock"
  /\ ReconTo(w, IF stock = NoStock THEN Idle
                ELSE IF stock = recon[w].available THEN [at |-> "same"]
                ELSE [at |-> "tracker", diff |-> stock - recon[w].available])
  /\ read' = IF stock = recon[w].available THEN Unseen ELSE read
  /\ UNCHANGED <<numbers, tracker, call, sync, edit, lock, calls, spent, disturbed>>

ReconForgets(w) ==
  /\ recon[w].at = "same"
  /\ tracker' = Fresh /\ ReconTo(w, Idle)
  /\ UNCHANGED <<numbers, call, sync, edit, lock, calls, spent, read, disturbed>>

\* Mutant: the number of sightings is kept instead of raised.
RunsKept(diff) == IF tracker.runs > 0 /\ tracker.diff = diff THEN tracker.runs ELSE 1

\* How often in a row this difference has been seen.
Runs(diff) == IF tracker.runs > 0 /\ tracker.diff = diff THEN tracker.runs + 1 ELSE 1

Heals(runs) == runs >= HealAfterRuns

ReconJudges(w) ==
  /\ recon[w].at = "tracker"
  /\ LET diff == recon[w].diff
         runs == Runs(diff)
     IN /\ ReconTo(w, IF Heals(runs) THEN [at |-> "heal", diff |-> diff]
                      ELSE [at |-> "note", diff |-> diff, runs |-> runs])
        /\ read' = [i \in 1 .. HealAfterRuns |-> IF i = 1 THEN diff ELSE read[i - 1]]
  /\ UNCHANGED <<numbers, tracker, call, sync, edit, lock, calls, spent, disturbed>>

ReconNotes(w) ==
  /\ recon[w].at = "note"
  /\ tracker' = [diff |-> recon[w].diff, runs |-> recon[w].runs]
  /\ ReconTo(w, Idle)
  /\ UNCHANGED <<numbers, call, sync, edit, lock, calls, spent, read, disturbed>>

\* The same difference seen three times may still have been three calls under
\* way, one at each look: the correction is then itself a disturbance.
ReconHeals(w) ==
  /\ recon[w].at = "heal"
  /\ stock' = Incremented(-recon[w].diff)
  /\ ReconTo(w, [at |-> "clear"])
  /\ disturbed' = (disturbed \/ stock = NoStock \/ recon[w].diff # Drift)
  /\ read' = Unseen
  /\ UNCHANGED <<quota, taken, tracker, call, sync, edit, lock, calls, spent>>

ReconClears(w) ==
  /\ recon[w].at = "clear"
  /\ tracker' = Fresh /\ ReconTo(w, Idle)
  /\ UNCHANGED <<numbers, call, sync, edit, lock, calls, spent, read, disturbed>>

(***************************************************************************)
(* What else happens                                                       *)
(***************************************************************************)

\* A job throws, or the worker dies.  A tracker left as it was brings the next
\* correction forward.
ReconFails(w) ==
  /\ Spend /\ recon[w] # Idle
  /\ ReconTo(w, Idle)
  /\ disturbed' = (disturbed \/ recon[w].at \in {"same", "note", "clear"})
  /\ UNCHANGED <<numbers, tracker, call, sync, edit, lock, calls, read>>

SyncFails(p) ==
  /\ Spend /\ sync[p] # Idle
  /\ sync' = [sync EXCEPT ![p] = Idle]
  /\ UNCHANGED <<numbers, tracker, call, edit, recon, lock, calls, read, disturbed>>

\* The lease ends while its holder is at work: two workers may correct.
LeaseEnds ==
  /\ Spend /\ lock \in Working
  /\ lock' = Nobody /\ disturbed' = TRUE
  /\ UNCHANGED <<numbers, tracker, call, sync, edit, recon, calls, read>>

\* The tracker expires when the rounds stop for ten minutes.
TrackerExpires ==
  /\ Spend /\ tracker # Fresh
  /\ tracker' = Fresh
  /\ UNCHANGED <<numbers, call, sync, edit, recon, lock, calls, read, disturbed>>

\* Redis restarts empty.
KeysLost ==
  /\ Spend /\ stock # NoStock
  /\ stock' = NoStock /\ tracker' = Fresh /\ disturbed' = TRUE
  /\ UNCHANGED <<quota, taken, call, sync, edit, recon, lock, calls, read>>

CallEnds(c) == Commit(c) \/ Refused(c) \/ Return(c)
SyncStep(p) == SyncLoads(p) \/ SyncSets(p)
EditStep    == EditPassesOn \/ ResetDeletes \/ ResetLoads \/ ResetSets
ReconStep(w) ==
  ReconReads(w) \/ ReconForgets(w) \/ ReconJudges(w) \/ ReconNotes(w) \/ ReconHeals(w) \/ ReconClears(w)
Faults == EditFails \/ LeaseEnds \/ TrackerExpires \/ KeysLost

Next ==
  \/ \E c \in Callers : Reserve(c) \/ Release(c) \/ CallEnds(c) \/ CallDies(c)
  \/ \E w \in Workers : ReconLoads(w) \/ ReconStep(w) \/ ReconFails(w)
  \/ \E p \in Synchronising : SyncStep(p) \/ SyncFails(p)
  \/ EditCommits \/ ResetCommits \/ EditStep \/ Faults

\* A request that is running ends, and each job goes on in one worker at least.
Spec ==
  /\ Init /\ [][Next]_vars
  /\ \A c \in Callers : WF_vars(CallEnds(c))
  /\ WF_vars(EditStep)
  /\ WF_vars(\E p \in Synchronising : SyncStep(p))
  /\ WF_vars(\E w \in Workers : ReconLoads(w) \/ ReconStep(w))

(***************************************************************************)
(* Properties                                                              *)
(***************************************************************************)

\* Synchronisation, quota edits, resets and calls, in any order, leave the
\* counter exactly where PostgreSQL and the calls under way put it: only a
\* fault, or a correction of what was no drift, makes the two differ.
OnlyFaultsDrift == (~disturbed /\ stock # NoStock /\ ~Resetting) => Drift = 0

\* A correction is made when the last three rounds, with no round without a
\* difference and no other correction among them, saw this very difference.
Persistent(w) == \A i \in 1 .. HealAfterRuns : read[i] = recon[w].diff
HealsOnlyWhatPersists == [][\A w \in Workers : (ReconHeals(w) /\ ~disturbed) => Persistent(w)]_vars

\* Whatever happened to the counter, once calls and faults stop it is again
\* what PostgreSQL says, and stays so.
HealsInTheEnd == <>[](stock # NoStock /\ Drift = 0)
=============================================================================
