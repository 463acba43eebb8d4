# Verification of antretix

antretix sells concert tickets behind a virtual queue. This directory holds TLA+
models of its core logic, TLC configurations that check them on small instances,
and theorems that TLAPS proves for every instance. Every definition is translated
from the code; `PROJECT.json` gives the lines.

    tlc -workers 2 -config inventory_ledgers.cfg MCInventory.tla
    tlc -workers 2 -config claim_transitions.cfg InventoryClaims.tla
    tlapm InventoryProofs.tla
    tlapm PromiseProofs.tla
    tlc -workers 2 -config room_order.cfg MCWaitingRoom.tla
    tlapm WaitingRoomProofs.tla
    tlc -workers 2 -config event_status.cfg MCEventStatus.tla
    tlc -workers 2 -config stock_sync.cfg StockSync.tla
    tlc -workers 2 -config rate_limit.cfg MCRateLimiter.tla
    tlc -workers 2 -config buyer_tab.cfg MCBuyerTab.tla

## 1. The system

| Part | Where | State it keeps |
| --- | --- | --- |
| Orders, holds, payments | `packages/core/src/orders.ts`, `payments.ts`, `apps/api/src/routes/orders.ts`, migrations | PostgreSQL: `TicketCategory.reserved/sold`, `Order.status/expiresAt/idempotencyKey`, `Ticket` |
| Fast filter | `reserve.lua`, `release.lua` | Redis: `stock:{event}:{cat}`, `bought:{event}:{user}` |
| Expiry job | `apps/worker/src/jobs.ts`, `expireDueOrders` | none but the batch it is working on |
| Virtual queue | `join/status/admit/cleanup.lua`, `queue.ts`, `auth.ts` | Redis: `queue`, `hb`, `active`, `admitted`; queue tokens (JWT) |
| Schedule and queue status | `events.ts`, `admin.ts`, `jobs.ts` | Redis `status`, `config`; `Event.status` and its times |
| Stock sync and reconciliation | `events.ts` (`syncEventToRedis`), `reconcile.ts`, `admin.ts` (`upsertEvent`) | Redis `stock`, the drift tracker |
| Leader locks | `leader.lua`, `jobs.ts` | Redis locks with a TTL |
| Rate limiter | `ratelimit.lua`, `protection.ts` | Redis sliding window logs |
| Web client | `apps/web/lib/queue.ts`, `QueueWatcher.tsx`, the event, queue and checkout pages | SSE connection, polling and retry timers, the stored queue token, the idempotency key |

### How the parts interact

* **API processes** serve `POST /events/:id/orders`. `createOrder` looks the
  idempotency key up in PostgreSQL, takes units out of Redis with `reserve.lua`,
  inserts the order with `antretix_reserve_order`, and on any failure gives the
  units back with `release.lua`. Between these calls any other process may run.
* **A payment provider** (mocked in the API) delivers signed notifications to
  `POST /payments/webhook`, again and again until it gets a 2xx answer.
* **Two worker processes** run timers: schedule sync, admission, heartbeat cleanup,
  order expiry and reconciliation, some of them under a leader lock in Redis.
* **Users** join the queue, poll or stream their status, are admitted by the
  worker, get a token, and check out with it. Paying or leaving frees their slot.
  Their browser opens a stream, polls while it is broken, goes to the page each
  answer belongs to, and places the order with a key of its own making.
* **Administrators** pause the queue, change limits, quotas and times.

PostgreSQL is the source of truth; Redis is a filter which may be wrong, lost and
rebuilt. There are no distributed transactions: correctness rests on conditional
updates (`WHERE status = 'PENDING'`, `sold + reserved + qty <= quota`), a unique
index, an advisory lock per account and atomic Lua scripts.

### What is hard here

Interleavings of expiry, cancel, failed payment and settlement over one order;
failures and crashes between the Redis and the PostgreSQL step of one call;
repeated calls with one idempotency key; late and repeated notifications; values
read from one store and written to the other later; leases that run out; a status
decided from a row or key that somebody has changed since; answers that arrive in
the wrong order or not at all, and timers that fire too late. Each place is listed, with its line and the property aimed at it, under `hazards` in
`PROJECT.json`.

### What makes each part correct

* Orders: the quota and the limit per account are never exceeded; an order's
  tickets move once; money taken is paid for with tickets or refunded; a hold ends.
* Filter: a unit taken from Redis comes back once; Redis and PostgreSQL agree in
  the end; Redis lets nothing through that PostgreSQL refuses.
* Queue: nobody is overtaken; the active limit holds; nobody is lost.
* Schedule: the status follows the schedule in the end; pause and sold out last.
* Stock sync: only faults make the counter wrong, only a lasting difference is
  corrected, and every one is in the end.
* Rate limiter: at most `limit` requests in any window; waiting as told is enough.
* Web client: one connection, never deaf while waiting, silent afterwards; the turn
  is shown; one attempt places one order.

## 2. Modules

| Module | Models |
| --- | --- |
| `TicketLedger` | abstract: what a buyer is promised, without Redis, counters or processes: the life of an order, quota, limit, one order per key, nothing sold or refunded that was not charged |
| `Inventory` | orders, holds, payments and expiry over PostgreSQL and Redis |
| `MCInventory` | its TLC instances |
| `InventoryClaims` | statements of docs, comments and tests that the code does not keep |
| `UnitLemmas`, `InventoryProofs` | theorems about `Inventory`: counters, limits, quotas, keys |
| `PromiseProofs` | theorems about `Inventory`: settlements, twins, Redis, and that it implements `TicketLedger` |
| `WaitingRoom` | the virtual queue, its sessions, tokens and leader lease, with a clock |
| `MCWaitingRoom` | its TLC instances |
| `WaitingRoomProofs` | theorems about `WaitingRoom` |
| `EventStatus` | the status of an event in PostgreSQL and Redis, and the three loops that write it |
| `MCEventStatus` | its TLC instance |
| `EventStatusProofs` | theorems about `EventStatus` |
| `StockSync` | the stock counter, its synchronisation, edits, resets and reconciliation |
| `StockSyncProofs` | theorems about `StockSync` |
| `RateLimiter` | the sliding-window limiter with late stamps |
| `MCRateLimiter` | its TLC instance |
| `RateLimiterProofs` | theorems about `RateLimiter` |
| `BuyerTab` | one browser tab: connection, pages, join, checkout |
| `MCBuyerTab` | its TLC instance |
| `BuyerTabProofs` | theorems about `BuyerTab` |

The modules meet at the stores. `WaitingRoom` takes the changes of the status, which
`EventStatus` makes, and of the stock, which `Inventory` and `StockSync` make, as an
environment that may do more than they do. `Inventory` knows the counter as the first
sync leaves it and says who may take a ticket; `StockSync` knows calls only by the
order in which they move the two numbers. `BuyerTab` takes what `WaitingRoom`'s
`Status` would answer, and whether `Inventory` accepts an order, as a choice.

### Inventory

A call of `POST /orders` is an element of `Requests`; the order it inserts has the
same name, since the code draws a fresh UUID per call. `at[r]` is where the call is
between two awaits. A handler (`task[h]`) executes a cancel or a notification, a
worker (`task[w]`, `batch[w]`) the expiry job. One SQL function, Lua script or query
is one action:

| Code | Action |
| --- | --- |
| `findByIdempotencyKey` and the checks after it | `Lookup` |
| `reserve.lua` | `Reserve` |
| `antretix_reserve_order` | `InsertOrder`, `InsertFails` (not committed), then `ReadBack` / `ReadBackFails` |
| the catch block: `lua.release`, then the twin | `Undo`, `FindTwin` |
| cancel route | `CancelRead`, `HandlerRelease`, `GiveBack` |
| `handlePaymentNotification` | `ReadForPayment`, then `Pay` / `Refund` / `HandlerRelease`, `Acknowledge` |
| expiry job | `ExpirySelect`, `ExpiryRelease`, `GiveBack` |
| `antretix_release_order`, its loop over items | `ReleaseOrder`, `GiveBack` |
| first sync of a category | `SyncStock` |
| time passes `expiresAt` | `HoldElapses` |

`UnitsOf` turns orders into a set with one element per ticket, so that sums of
quantities are cardinalities. Faults are chosen per run: `crash` (a process dies
between two steps), `insertFails` (the statement fails without committing),
`readBackFails` (it commits and the next query, or its answer, fails).
`settled` and `leaked` record what the provider was told and what a crash forgot;
they influence nothing.

`TicketLedger` has a state for each `Order.status`, and `LedgerState` maps them one to
one. Its moves are those of `ORDER_TRANSITIONS` (policy.ts:22) that the code makes, and
one that the table does not list: `RefundCancelled`, since `handlePaymentNotification`
gives back the money of an order cancelled meanwhile. `claim_transitions` shows the
disagreement.

Abstractions: one event; an order has one item, as `createOrder` makes it; prices,
codes, signatures and the amount check are left out (the API signs the amount it
read); the provider's retries are `Deliver` at any time, any number of times;
`expiryTick` takes the whole batch (the code takes `EXPIRY_BATCH`, 500, at a time).
`antretix_reserve_order` is one step: its advisory lock (migration.sql:25) serialises two
inserts of one account, and that PostgreSQL keeps the lock is assumed. Left out: what the
cancel route answers; a failure of `recordStat` after the commit (orders.ts:221), which
answers an error to a caller whose order stays, to be found by a repeated call or to
expire.

### WaitingRoom

One event. Each Redis key of the queue is a variable; a sorted set is a function from
accounts to scores, `Absent` for no member, a key with a TTL the time at which it
expires. One script, or one `MULTI`, is one action:

| Code | Action |
| --- | --- |
| `POST /events/:id/queue`, `join.lua` | `Join` (a refusal changes nothing), then `Status` for its answer |
| `getQueueState`, `status.lua`, the token: a poll, an SSE push | `Status` |
| `leaveQueue`: by the user, or after a payment | `Leave` |
| `admitEvent`: `leader.lua` | `Acquire` |
| `admitEvent`: config, `admit.lua` | `Admit` |
| `cleanupTick`, `cleanup.lua` | `Cleanup` |
| schedule, admin, sold-out check | `StatusChanges` (environment) |
| reservations and releases | `StockChanges` (environment) |
| a worker dies for good | `WorkerDies` |

Time. A unit of the clock is the admission interval (1 s); the TTLs are scaled down
to one to three units and only their order matters: a session, a heartbeat timeout
and a lease each outlast one interval. A script does not ask the time but is given
it, so `Join`, `Status`, `Cleanup` and `Admit` choose a time up to `MaxLag` old (for
`Admit`, read after the lease was taken, so that in a stalled worker it is as old as
the stall). Key TTLs count from Redis's own clock, `now`. `Grain` is the number of
units in a second of a token's `exp`; at 2 it makes the rounding visible.

`arrived`, `drew`, `seen` and `left` are histories for the properties: when a waiting
account entered, whether by lot, when it was last heard of, who left after its latest
token. No guard reads them.

Abstractions: the random score is a member of `Lots`, below every timestamp, and two
accounts may draw the same; only the account's latest token is kept (earlier ones of
the same session end at the same time, those of an earlier session before it began);
the job lock and the batches of the cleanup are left out (the cleanup may run at any
time, whole); rate and `maxActive` do not change.

### EventStatus

One event; `row` is the row in PostgreSQL, `key` the Redis key. A loop stops at every
await, and its variable says what it holds there:

| Code | Actions, in order |
| --- | --- |
| `syncEvents`, `syncEventToRedis` | `SyncSelects` (ids), `SyncLoads` (the row), `SyncReads` (the key), `SyncWrites`, `SyncFollows` (`row.update`) |
| `admitEvent`, status part | `TickReads` (key, cached row), `TickReloads`, `TickWrites` |
| `checkSoldOut` | `CheckSkipped`, or `CheckReads`, `CheckCounts`, `CheckCloses`, `CheckFollows` |
| `upsertEvent` | `EditCommits`, then `SyncLoads` to `SyncWrites` in the API process |
| `controlQueue`: pause, resume | `ControlReads`, `ControlWrites` |
| errors, crashes, restarts, a lost key | `JobFails`, `WorkerRestarts`, `KeyLost` |

`cache` is the `Worker.events` map. `behind` is a history: the jobs that began before
the latest write of the key or edit of the row. It separates what the code promises
(a job that was not overtaken keeps every rule) from what a job can do that was.

Abstractions: an edit is a change of schedule, of the row's status or a larger quota;
a smaller quota that sells the event out is a `LastTicketSold`. Two workers are one
worker whose tick and sync interleave: the lease of the tick may lapse, and sync
takes none. Rate and `maxActive` are left out, and so is the status that
`resetEventForLoadTest` writes. The tick calls `checkSoldOut` when Redis has no stock
left (jobs.ts:258), at most once per `SOLD_OUT_CHECK_MS`: the stock is not in this
module, so whether the check runs is a choice (`CheckSkipped`), constrained only by
fairness (section 3).

### StockSync

One category. `call[c]` says which of the two numbers a checkout or a release has
moved; `sync[p]`, `edit`, `recon[w]` say where the other jobs are, each await being a
step. `Drift` is the counter less what it should be: available tickets, less one for
each call under way, less the delta of an edit that is committed and not passed on.

| Code | Actions |
| --- | --- |
| `reserve.lua`, then the insert | `Reserve`, then `Commit`, or `Refused` and `Return` |
| `releaseOrder` | `Release`, `Return` |
| `syncEventToRedis` | `SyncLoads`, `SyncSets` (SET NX) |
| `upsertEvent` | `EditCommits`, `EditPassesOn`, then the sync |
| `resetEventForLoadTest` | `ResetCommits`, `ResetDeletes`, `ResetLoads`, `ResetSets` |
| `reconcileStock` | `ReconLoads` (under the lock), `ReconReads`, then `ReconForgets`, or `ReconJudges` and `ReconNotes` or `ReconHeals`, `ReconClears` |
| faults | `CallDies`, `SyncFails`, `EditFails`, `ReconFails`, `LeaseEnds`, `TrackerExpires`, `KeysLost` |

`disturbed` is a history: a fault has hit the counter or the tracker, a delta was added
to a counter that was not there, or a correction hit what was no drift. `read` holds
the differences judged since the last correction. Abstractions: a call moves one
ticket; the lease of an idle worker may have ended at any time; `deleteByPattern`, which
scans and unlinks in several steps, removes the category's one key in one.

### RateLimiter

`Accept` and `Reject` are one request each: `rateLimitRulesFor` (`Rules`), then
`ratelimit.lua` (`Record`), then the answer. The stamp is chosen up to `MaxLag` before
its arrival, since the API server takes it and Redis gets it later; `Tick` moves
Redis's clock and drops keys that expired. `told` is a history: when the wait last told
to a request ends, forgotten once somebody who shares a rule was let in.

### BuyerTab

`sse`, `phase`, `ticker`, `retry` and `polls` are the locals of `useQueueState`'s
effect, `going` the page the router is on its way to, `reading` and `wire` the server's
end of each stream.

| Code | Actions |
| --- | --- |
| the effect and its cleanup, a page change | `Navigate`, `BuyerGoes` |
| the stream's `open`, `status`, `error`; `retryTimer` | `Opens`, `StatusArrives`, `Breaks`, `RetryFires` |
| `push` on the server, before and after its await | `PushReads`, `PushWrites` |
| `poll`, `pollTimer`, `GET /queue/status` | `PollTick`, `PollServed`, `PollAnswered`, `PollFails` |
| `join`, `POST /queue` | `JoinAsks`, `JoinServed`, `JoinReads`, `JoinAnswered` |
| `leave` | `LeaveServed` |
| `loadStock` | `LoadAsks`, `LoadServed`, `LoadAnswered` |
| `submit`, `POST /orders` | `Submit`, `OrderServed` or `AnswerLost`, `OrderAnswered` |
| the account's state, the end of its session | `AccountMoves`, `SessionEnds` |

`apply`, the router call of `useQueuePage` and `saveQueueToken` are part of the action
in which the answer arrives (`Shows`, `Finish`, `SaveToken`). Answers to two polls may
overtake each other, pushes of one stream may too (`setInterval` does not wait), events
on one stream do not. `kept` is the token as the page has parsed it, `token` what
sessionStorage holds. `visit`, `orders` and `failed` are histories of the checkout page.

Abstractions: one tab; the bounds `Polls`, `MaxReads` and `MaxWire` stop a further call
or push while so many are on their way; `Restless = FALSE` keeps the buyer on a page
while its own join, stock or order call runs. Left out: the pay page, login and its
redirects, texts, Turnstile, the countdown that disables the button.

## 3. Runs

Unless said otherwise: categories `c1` (quota 2) and `c2` (quota 1), two accounts,
limit 2, quantities up to 3. Two tickets and a limit of two are the smallest values
with competition, an exact fit and a refusal. Deadlock is not checked: when all calls are
answered and all holds have ended the system really stops.

| Run | Shows | Bounds and faults |
| --- | --- | --- |
| `inventory_ledgers` | `TypeOK`; `RedisLedger`: each unit taken from Redis is accounted for, in the stock and in the account's counter; `LayersAgree`: Redis lets nothing through that PostgreSQL refuses; `HoldsEnd`; `StoresAgree`: in the end the stores differ only by what crashes forgot | 2 calls for two categories, 1 handler, 1 worker, 1 notification; crashes, failing inserts; fairness, no symmetry |
| `inventory_last_guard` | `NoOversell`, `AccountLimit`, `QuotaLedger` while Redis stock is too high; `SettlementHonoured`: an acknowledged settlement is paid or refunded; `TicketsMatchPaid`; `TwinsResolved`: one order per account and key, and each call ends with that order or a refusal that leaves none; `KeepsThePromise`: Inventory implements TicketLedger | quota 2 in each of two categories, so that an account can exceed its limit over both; repeated keys, an unknown category, too large a quantity; 2 calls, 2 handlers, 1 worker, 1 notification; committed inserts whose read-back fails |

Fairness (`Fairness`): weak fairness of each call's, handler's and worker's next
step, of time reaching `expiresAt`, and of the first stock sync; and processes do not
crash for ever (`<>[][~Crash]_vars`). A started JavaScript handler goes on when its
await returns, and `Worker.every` runs each job again at its interval. Clients owe
nothing: no fairness for submitting, cancelling, clicking or delivering. What a crash
between Redis and PostgreSQL forgets is `leaked`; `StoresAgree` says that nothing else
is missing. Lost units come back by the reconciliation (`StockSync`), the account's
counter does not.

`TwinsResolved` does not say that a repeated call always gets its order. A twin that
passed the lookup before its sibling inserted may be refused for the units its sibling
took (orders.ts:187-196), and then nobody looks for the order, since the refusal is an
`AppError` (orders.ts:210). The property forbids every other bad end: an error, a
refusal that leaves an order behind, an answer without an order.

For the queue: rate 1, one seat and two accounts are the smallest competition with a
place to lose and a seat to wait for: with a session of two units the second account
meets a full event at the next tick. `Horizon` stops the clock.

| Run | Shows | Bounds and faults |
| --- | --- | --- |
| `room_order` | `TypeOK`, with: sessions and tokens end; `QueueWatched`; `NeverBoth`; `NobodyOvertaken`, `FifoAfterOpening`, `DropsOnlyTheSilent` | 2 accounts, lag 1, lots with ties, pauses; 3 units of time: sessions, heartbeats and leases all run out |
| `room_served` | `ServedInTime` | 2 workers, one may die at any step, none stalls; time for the whole bound |
| `room_stalls` | `ActiveLimit`; `CheckoutLimit`: no usable token outlives its seat; `GhostsLeave`; `AdmitsUnderLease`: a worker admits beside the leader only after standing still for a whole lease | 2 accounts, 2 workers that may stall past their leases or die; stock 0 or 2; 2 units of time, so that a lease taken in the first runs out, another worker leads and both admit; fairness, no symmetry |

`ServedInTime` is a bounded response: an account that has waited `MaxWait` does not
exist. It is an invariant and not a leads-to because its truth does not rest on
fairness but on the interval of the workers, which `Tick` keeps when `Stalls` is FALSE:
the clock does not pass a unit in which a living worker has not run its tick. Its bound
adds the tick, a lease for each worker but the one that survives (every leader that dies
leaves its lease behind), and a session for each group ahead. A
run with stalls has no such bound, and the runs about safety have them where it
matters (`room_stalls`).

Fairness (`FairSpec`): weak fairness of the cleanup, of each worker's tick and of the
clock; `setInterval` fires again after every run (`Worker.every`). Users owe nothing:
they may join, poll and leave at will, or never again. `GhostsLeave` speaks of timeouts
that fall before `Horizon`, since the clock stops there.

`room_served` uses symmetry of the workers, which are interchangeable; accounts are
numbers, because Redis breaks ties by name, and are never permuted.

### Schedule, stock, limiter, tab

| Run | Shows | Bounds and faults |
| --- | --- | --- |
| `event_status` | `NeverOpensEarly`, `PauseHolds`, `SoldOutHolds`: what a job that was not overtaken never does; `FollowsTheSchedule`, `ClosedWhenSoldOut` | 1 worker, the API, 2 schedules, clock to 2; 2 of: edits of the schedule, raises of the quota, pauses, failing jobs, restarts, losses of the key; resumes are free |
| `stock_sync` | `OnlyFaultsDrift`; `HealsOnlyWhatPersists`; `HealsInTheEnd` | 2 reconcilers, 1 synchroniser, 2 callers with 2 calls, quota 1 or 2; 1 of: edits, resets, faults; an edit or reset may also die half-way |
| `rate_limit` | `NeverTooMany`, `RefusedIsFree`, `RetryHonoured` | 3 kinds of request on 4 rules, limits 2 and 1, window 4, second 2, lag 1, clock to 7 |
| `buyer_tab` | `TypeOK`, with: no stored token reads as usable after its session; `OneStream`, `Listening`, `Quiet`, `OneOrderPerVisit`; `TurnIsShown` | 2 streams, 2 polls, 2 keys; the account's ordinary moves, any link, failures at any step |

The type invariants of `EventStatus`, `StockSync` and `RateLimiter` are proved (section 4)
and not checked by the runs.

`event_status`: one worker suffices for every race, since its tick and its sync run
independently and the API syncs too; two units of time reach every phase of the first
schedule, and the second is in its pre-queue when the first opens. A budget of two lets a
fault meet an edit, and a pause be followed by a put-off and a resume: the sale then
opens before its time, which is the exception `NeverOpensEarly` names. With `"extend"` among `AdminActs` (an edit of an event that has
started) `FollowsTheSchedule` fails: a worker that loaded the row before writes ENDED
after, and ended rows are not followed; so the run leaves it out and says so here.

`stock_sync`: two callers suffice for a difference to be seen three times without a
drift; one fault may fall between any two steps. `rate_limit`: the clock passes one
window and the lag after the first request, so that entries are trimmed, keys expire and
waits end. `buyer_tab`: a second stream is what `OneStream` forbids; two polls are what
overtaking needs; two keys suffice for a second order.

Fairness. `EventStatus`: weak for every loop (`Worker.every`, a started job goes on) and
for a begun pause; strong for the sold-out check while every ticket is sold, which a
tick skips when the last is younger than `SOLD_OUT_CHECK_MS`, but which cannot be skipped
for ever at a tick per second. That Redis then shows no stock (jobs.ts:258), where it may
show too much until the reconciliation heals it, is assumed here and checked by
`stock_sync` (`HealsInTheEnd`). Without tickets sold out the check is owed nothing. Admins, buyers, clock and faults owe nothing. `StockSync`: weak for each call
once begun, for the admin request, and for each job in one worker at least, which is
what the lock leaves. `BuyerTab` (`FairSpec`): weak for the router, timers, pushes and
the wire; strong for a stream opening and for a poll being served and answered, because
a network that may fail at any time does not fail every time. The buyer, the account
and the checkout owe nothing. `RateLimiter` has no liveness.

### Statements the code does not keep

| Run | Statement | What TLC finds |
| --- | --- | --- |
| `claim_transitions` | `policy.ts:26` and `domain.test.ts:50`: an order changes its status along `ORDER_TRANSITIONS` only, which ends with CANCELLED | a settlement is delivered after a cancel: `handlePaymentNotification` (payments.ts:87, as its comment at :58 says) takes the order from CANCELLED to REFUNDED; nobody asks `canTransition` |
| `claim_returned_once` | `README.md:30`: stock is returned exactly once | the read-back of a committed insert fails: `createOrder` and later the expiry job both return the units; Redis stock exceeds the quota (PostgreSQL still refuses to oversell) |
| `claim_network_retry` | `checkout/page.tsx:36`: neither a double click nor a retry after a network error places a second order | the answer to a successful order is lost; the page draws a new key for NETWORK_ERROR as for a refusal, and the retry places a second order |

Also seen while modelling, and not among the runs:

* a cancel that loses to a payment is answered CANCELLED (`routes/orders.ts:128` ignores
  what `releaseOrder` returns);
* a repeated call that passed the lookup before its twin inserted is refused for stock or
  limit that its own first call took (`orders.ts:187-196`; `orders.ts:162` calls a retry
  safe);
* a crash after `reserve.lua` leaves `bought` too high for good (`RedisLedger` counts it as taken);
* an account that left or paid keeps a token that checkout accepts until it ends
  (`CheckoutLimit` excludes such accounts, PRD:113 does not);
* a resume opens a paused queue without a look at the schedule (admin.ts:139): a sale put
  off while it is paused is open before its time (`NeverOpensEarly` excepts it);
* a pause is kept in the Redis key alone: when the key is lost, the next sync opens the
  queue as the schedule says (`PauseHolds`);
* when the quota is raised between the count of `checkSoldOut` and its write
  (jobs.ts:284-293), the event is SOLD_OUT with tickets left, and nothing opens it again
  (`SoldOutHolds` exempts the overtaken write);
* when an admin moves the opening of a running sale into the future, `nextQueueStatus`
  returns to PREQUEUE and late joiners draw lots below the timestamps of those who wait
  (PRD:112 promises order of arrival; `FifoAfterOpening` holds for schedules that are
  not moved back);
* a worker that stalls past its lease admits without it, beside the new leader (jobs.ts:60;
  `AdmitsUnderLease` says that nobody else does, and `ActiveLimit` holds all the same);
* an account whose session has ended, but whose key and entry still exist, is turned
  away by `join.lua:19` and answered NOT_IN_QUEUE, until the next tick or the key's end;
* a worker's `row.update` (jobs.ts:161) may overwrite the status of a row an admin saved
  after it was loaded: a new draft goes on sale;
* three calls that happen to be under way at three looks of the reconciler make the same
  difference three times and are "healed" (reconcile.ts:20 means to exclude this); the
  correction is itself a drift, found and undone later (`HealsInTheEnd`);
* an edit of the quota while the counter is absent adds to an absent key, so that the
  counter is the delta alone until it is healed (admin.ts:214).

## 4. Proofs

`InventoryProofs` proves, for every finite set of requests, every set of accounts,
categories and processes, every quota and limit, and under every fault:

* `TypeCorrect` (`TypeOK`), `LedgerExact` (`QuotaLedger`), `LimitKept`
  (`AccountLimit`), `TicketsExact` (`TicketsMatchPaid`), `KeysUnique`
  (`OneOrderPerKey`) and `NeverOversold` (`NoOversell`).

Assumptions: those of `Inventory` (finitely many requests, bodies typed, quantities
in `1 .. MaxQty`, a natural quota and a positive limit); all are evaluated by TLC.

The argument. `IInv` is `TypeOK` with `Whereabouts` and `Books`. The books alone are
not inductive: `reserved` could go negative if a task returned units of an order in
an unknown category, or an insert could revive a row. `Whereabouts` excludes this: a
call before its INSERT has no row, a row and a reservation name a category of the
event, a task that returns units has a row, a refund saw a released order.
`DbStepCases` reduces every step to "rows unchanged" or one of four transitions of
one order (insert, release, pay, refund), so the ledger is shown once per transition
instead of once per action. The arithmetic is in `UnitLemmas`: what the number of
tickets in given statuses becomes when one order enters or leaves them.

`PromiseProofs` proves, about the same module and with the same assumptions:

* `MoneyAccounted` (`SettlementHonoured`) and `PromiseKept` (`KeepsThePromise`, the
  refinement of `TicketLedger`), under every fault;
* `TwinsAnswered` (`TwinsResolved`), if no statement fails without committing
  (`insertFails`): the caller of such a statement is answered with the error;
* `RedisExact` (`RedisLedger`) and `LayersInStep` (`LayersAgree`), if no committed insert
  has its read-back fail (`readBackFails`): `claim_returned_once` shows that the units
  are then returned twice. Crashes and failing statements are allowed.

The arguments. A settlement: what a handler knows when it refunds or acknowledges stays
true whatever others do (`Reached`), because the conditional updates let a released order
only stay as it is or be refunded, and paid and refunded orders stay so (`FinalStay`).
Twins: a call that reached the catch block and looks for its twin has lost to a row, or
has placed one, and rows are never deleted (`TwinKnown`, `TwinFound`); a refusal is
answered only to a call without a row (`Ended`). The refinement: the transitions of
`DbStepCases` are steps of the ledger, their guards follow from the exact books of `IInv`,
and every other step leaves the rows alone; that only what was charged is sold or
refunded needs that every handler of a settlement answers to a notification that was sent
(`Charged`). Redis: `RedisLedger` alone is not inductive, since a unit might be given
back by two callers. `Custody` says where each unit is: with the call before and after its
reservation, with the row, with the one task that won its release, or lost in a crash.
`CustodyStepCases` reduces every step to ten ways in which units change hands, and
`UnitStepCases` says of each what it does to stock and `bought`. With `Filter`
(`reserve.lua` never goes below zero or above the limit), whatever Redis lets through
fits the quota and the limit that PostgreSQL checks.

`WaitingRoomProofs` proves, for every finite set of accounts and of workers,
all lags, TTLs, rates, limits and stocks, every change of the status, and with workers
that stall and die: `RoomTypeCorrect` (`TypeOK`), `EveryMemberWatched`
(`QueueWatched`), `NeverQueuedAndAdmitted` (`NeverBoth`), `SessionsLimited`
(`ActiveLimit`), `CheckoutLimited` (`CheckoutLimit`), `NoOvertaking`
(`NobodyOvertaken`), `OnlySilentDropped` (`DropsOnlyTheSilent`) and `LeaderAdmits`
(`AdmitsUnderLease`). Assumptions: those
of `WaitingRoom` (times are natural, TTLs and limits positive, lots lie below every
timestamp); TLC evaluates them.

The argument. `IInv` is `TypeOK`, `Limits` and `Line`. `CheckoutLimit` is not
inductive: why may `admit.lua` give a seat away? Because the tokens of purged entries
have ended, which needs that a token is backed by the entry it was made from; that
entry can change only when its account is admitted again, for which it must have
queued; and `join.lua` lets nobody queue whose key and entry exist. So `Limits` adds
that the admitted key outlives the session, that a queued account has no running
session, and that a token that is still good is backed by an entry. `Line` relates the
scores to the histories: a lot is below all timestamps, a timestamp is at most
`MaxLag` older than the arrival. `StepCases` reduces a step to joins, seats and drops,
so that each part is shown once per kind of change. For the lease the invariant is that a
worker about to admit holds the whole lease it took until the time it ends (`Leased`):
`leader.lua` gives the lock to another only after that.

Two more theorems there hold under a condition that the code alone does not ensure,
which the theorem names:

* `FirstComeFirstServed` (`FifoAfterOpening`), if the status leads out of SCHEDULED and
  into PREQUEUE once (`OpensOnce`): a schedule moved back lets late joiners draw lots
  (section 3). Then all that drew lots arrived before all that did not (`LotsFirst`).
* `ServedWithinBound` (`ServedInTime`), if the sale opens and stays open, tickets are
  left for a group at a time, and workers do not stall, whichever of them die
  (`SaleRuns`): a paused or sold out sale admits nobody, and a late worker costs what it
  is late. A lease then outlasts the tick in which it was taken (`Leads`).

The runs that check these properties (`room_order`, `room_served`) are instances of the
conditions.

The last is a bound on real time, proved as an invariant. `Course` gives each account
that waits, once nobody can get ahead of it any more (`Begin`), a time `x` and a number
`j`: at `x` at the latest the next group is admitted, and `j` groups were before. Two
quantities measure the progress. Those ahead, the sessions that still run at `x`, and `j`
groups are together less than the accounts, so `j` is bounded (`Quotient`): at `x` no
session of an earlier group runs, and the seats and the rate let in a whole group
(`SeatsAGroup`). And `x` moves with the clock only while a dead leader's lease runs on,
which `Spent` pays for (`TickSpends`): at most one lease per death. `Crew` says why a
tick always finds a lease to blame or a leader that admitted.

`EventStatusProofs` proves, for any workers, schedules and budgets: `EventTypeCorrect`
(`TypeOK`), `NoEarlyOpening` (`NeverOpensEarly`), `PauseKept` (`PauseHolds`) and
`SoldOutKept` (`SoldOutHolds`). The invariant says what a job knows that was not
overtaken: the phase it computed has come, the key it read is the key, and so what it is
about to write is allowed over what is there. `behind` makes this inductive: every write
puts all other jobs behind. What remains open early is the resume, and the theorem says
so; what is written as sold out by a check that was not overtaken is sold out, because only a raise
of the quota ends that, and a raise puts the check behind.

`StockSyncProofs` proves, for any workers, callers and quotas: `StockTypeCorrect`
(`TypeOK`), `CounterExact` (`OnlyFaultsDrift`) and `CorrectionsPersist`
(`HealsOnlyWhatPersists`). `OnlyFaultsDrift` says nothing while the counter is absent or
a reset runs; the invariant adds that then nothing is taken and nobody is under way, so
that a synchronisation holds the quota. For the corrections it adds that one worker is at
the job (the lock) and that the tracker counts no more sightings than `read` has.

`RateLimiterProofs` proves, for any requests, limits, window and lag: `LimiterTypeCorrect`
(`TypeOK`), `LimitHolds` (`NeverTooMany`), `RefusalsFree` (`RefusedIsFree`) and
`WaitSuffices` (`RetryHonoured`). The invariant: a key lives a window longer than any
arrival it logged, so what is too recent to be trimmed is still in the log (trimming goes
by stamps, expiry by arrivals); and at the end of a wait that was told every rule of that
request has fewer entries left than its limit.

`BuyerTabProofs` proves, for any streams, polls, keys, moves of the account, and a
restless buyer: `TabTypeCorrect` (`TypeOK`), `OneStreamOnly` (`OneStream`),
`AlwaysListening` (`Listening`), `QuietAfterwards` (`Quiet`), `OneOrderAVisit`
(`OneOrderPerVisit`). The invariant of the connection: a stream excludes a planned retry
(so that a retry finds no stream), a handle without a timer is left behind only by the
last answer (so that an error always starts the polling), and what listens belongs to a
queue's page. Of the checkout: the one order of the visit that no error was told of has
the key in use.

Assumptions: those of the four modules (natural bounds, positive limits and window, an
API that is not a worker); TLC evaluates them.

Every safety property of the runs is proved in general, some under the conditions named
above. Only model-checked are the liveness properties (`GhostsLeave`, `HoldsEnd`,
`StoresAgree`, `FollowsTheSchedule`, `ClosedWhenSoldOut`, `HealsInTheEnd`,
`TurnIsShown`), since liveness under fairness is out of the prover's reach, and the three
statements the code does not keep, which runs refute.

## 5. Not modelled, and the plan

Left out for good:

* accounts, login and signatures: single statements or stateless;
* views, metrics, logging, the pages that only show: nothing is decided from them;
* `EventMetaCache`: a read-only copy, one TTL old at most (the worker's cache, from
  which statuses are written, is part of `EventStatus`);
* the Lua runner (EVALSHA, NOSCRIPT, parsing): a script is an atomic step of the models;
* load tests and infrastructure: not part of the running system;
* the lint rules, kept twice under `tools/oxlint` and `.agents`: pure functions of a
  syntax tree.

These make up most of the repository's lines: the part with state that several actors
change, which is what these models are about, is a few files of `packages/core`,
`packages/lua`, the migrations, `jobs.ts`, the routes, and the client's queue and
checkout.

Planned, in this order:

1. Composition of Inventory and WaitingRoom: a payment frees the slot, and
   `leaveQueue` may fail after the payment is committed (payments.ts:121).
2. WaitingRoom: changes of rate and `maxActive` (an event over its limit admits nobody
   until sessions end), the cleanup's job lock and batches.
3. The pay page: its polling of the order against a settlement, an expiry and a cancel.
