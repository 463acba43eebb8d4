------------------------------ MODULE Inventory ------------------------------
(***************************************************************************)
(* Tickets of one event: the rows PostgreSQL keeps (packages/db            *)
(* migrations), the fast filter in Redis (reserve.lua, release.lua) and    *)
(* the code that moves between the two: createOrder and releaseOrder       *)
(* (packages/core/src/orders.ts), handlePaymentNotification                *)
(* (packages/core/src/payments.ts), the order routes of the API and the    *)
(* expiry job of the worker.                                               *)
(*                                                                         *)
(* One SQL function, one Lua script, one query is one atomic step; between *)
(* two of them every other process may run.  A call of POST /orders is     *)
(* named by an element of Requests, and the order it inserts carries the   *)
(* same name (the code draws a fresh UUID for each call).                  *)
(***************************************************************************)
EXTENDS Integers, FiniteSets

CONSTANTS
  Users,            \* accounts
  Keys,             \* Idempotency-Key header values
  Categories,       \* ticket categories of the event
  OtherCategories,  \* category ids a client may send that the event has not
  Asks,             \* bodies of POST /orders that clients send
  Requests,         \* calls of POST /orders, and the orders they insert
  Handlers,         \* concurrent executions of the cancel and webhook routes
  Workers,          \* processes running the expiry job
  Quota,            \* Quota[c]: tickets of category c
  MaxPerUser,       \* Event.maxPerUser
  MaxQty,           \* largest quantity createOrderSchema lets through (10)
  Faults,           \* what may go wrong: a subset of FaultKinds
  MaxSent           \* bound: notifications the provider is ever asked to send

FaultKinds == {"crash", "insertFails", "readBackFails"}

ASSUME UniverseAssumption ==
  /\ IsFiniteSet(Requests)
  /\ Categories \cap OtherCategories = {}
  /\ Handlers \cap Workers = {}
ASSUME AsksAssumption ==
  /\ Asks \subseteq [user : Users, cat : Categories \cup OtherCategories,
                     qty : 1 .. MaxQty, key : Keys]
  /\ Asks # {}
ASSUME LimitsAssumption ==
  /\ Quota \in [Categories -> Nat]
  /\ MaxPerUser \in Nat \ {0} /\ MaxQty \in Nat \ {0}
  /\ Faults \subseteq FaultKinds
  /\ MaxSent \in Nat

VARIABLES
  reserved, sold,   \* TicketCategory columns, per category
  status, due,      \* Order.status per order; the orders past expiresAt
  tickets,          \* Ticket rows <<order, n>>
  stock, present,   \* stock:{event}:{cat}, and the categories whose key exists
  bought,           \* bought:{event}:{user}; 0 also when the key is absent
  at, ask, reply,   \* per call of POST /orders: where it is, its body, its answer
  task, batch,      \* per handler or worker: what it does; per worker: ids selected
  sent,             \* notifications the payment provider has to deliver
  settled,          \* orders with a settlement notification answered 2xx
  leaked            \* history: orders whose Redis units a crash forgot

dbVars      == <<reserved, sold, status, tickets>>
redisVars   == <<stock, present, bought>>
callVars    == <<at, ask, reply>>
outcomeVars == <<settled, leaked>>
vars == <<dbVars, due, redisVars, callVars, task, batch, sent, outcomeVars>>

Actors   == Handlers \cup Workers
Statuses == {"NONE", "PENDING", "PAID", "EXPIRED", "CANCELLED", "REFUNDED"}
Released == {"EXPIRED", "CANCELLED"}

\* Answers thrown as an AppError; "ERROR" is any other exception.
AppErrors == {"OUT_OF_STOCK", "LIMIT_EXCEEDED", "QUEUE_NOT_OPEN", "NOT_FOUND"}
Replies   == {"none", "CREATED", "REPLAY", "ERROR"} \cup AppErrors
Points    == {"unsent", "lookup", "reserve", "insert", "readBack", "undo",
              "twin", "done", "crashed"}

Idle     == [step |-> "idle"]
Tasks    == [step  : {"read", "release", "pay", "refund", "giveBack", "ack"},
             order : Requests,
             kind  : {"settlement", "failed", "cancel", "expiry"},
             seen  : Statuses]
Messages == [order : Requests, kind : {"settlement", "failed"}]

-----------------------------------------------------------------------------
(* What the rows say. *)

Holds(o) == status[o] \in {"PENDING", "PAID"}

\* The tickets asked for by a set of orders, one element per ticket.
UnitsOf(orders, body) == UNION {{o} \X (1 .. body[o].qty) : o \in orders}
Units(orders) == UnitsOf(orders, ask)

InCategory(c, orders) == {o \in orders : ask[o].cat = c}
OfUser(u, orders)     == {o \in orders : ask[o].user = u}
WithStatus(S)         == {o \in Requests : status[o] \in S}

HeldBy(u) == Cardinality(Units(OfUser(u, WithStatus({"PENDING", "PAID"}))))

\* Idempotency keys are unique per account.
SameKey(o, r) == ask[o].user = ask[r].user /\ ask[o].key = ask[r].key

KeyTaken(r) == \E o \in Requests : status[o] # "NONE" /\ SameKey(o, r)

-----------------------------------------------------------------------------
Init ==
  /\ reserved = [c \in Categories |-> 0]
  /\ sold = [c \in Categories |-> 0]
  /\ status = [o \in Requests |-> "NONE"]
  /\ due = {}
  /\ tickets = {}
  /\ stock = [c \in Categories |-> 0]
  /\ present = {}
  /\ bought = [u \in Users |-> 0]
  /\ at = [r \in Requests |-> "unsent"]
  /\ ask = [r \in Requests |-> CHOOSE a \in Asks : TRUE]
  /\ reply = [r \in Requests |-> "none"]
  /\ task = [a \in Actors |-> Idle]
  /\ batch = [w \in Workers |-> {}]
  /\ sent = {}
  /\ settled = {}
  /\ leaked = {}

-----------------------------------------------------------------------------
(* createOrder *)

Answer(r, code) ==
  /\ at' = [at EXCEPT ![r] = "done"]
  /\ reply' = [reply EXCEPT ![r] = code]

Fails(r, code) ==
  /\ at' = [at EXCEPT ![r] = "undo"]
  /\ reply' = [reply EXCEPT ![r] = code]

Goes(r, point) ==
  /\ at' = [at EXCEPT ![r] = point]
  /\ UNCHANGED reply

Submit(r) ==
  /\ at[r] = "unsent"
  /\ \E a \in Asks : ask' = [ask EXCEPT ![r] = a]
  /\ Goes(r, "lookup")
  /\ UNCHANGED <<dbVars, due, redisVars, task, batch, sent, outcomeVars>>

\* findByIdempotencyKey and the checks that need no store.
Lookup(r) ==
  /\ at[r] = "lookup"
  /\ \/ KeyTaken(r) /\ Answer(r, "REPLAY")
     \/ ~KeyTaken(r) /\ ask[r].cat \notin Categories /\ Answer(r, "NOT_FOUND")
     \/ /\ ~KeyTaken(r)
        /\ ask[r].cat \in Categories
        /\ ask[r].qty > MaxPerUser
        /\ Answer(r, "LIMIT_EXCEEDED")
     \/ /\ ~KeyTaken(r)
        /\ ask[r].cat \in Categories
        /\ ask[r].qty <= MaxPerUser
        /\ Goes(r, "reserve")
  /\ UNCHANGED <<dbVars, due, redisVars, ask, task, batch, sent, outcomeVars>>

\* reserve.lua
OverLimitInRedis(r) == bought[ask[r].user] + ask[r].qty > MaxPerUser
\* Mutant: off by one.
ShortOffByOne(r) == stock[ask[r].cat] + 1 < ask[r].qty
ShortInRedis(r) == stock[ask[r].cat] < ask[r].qty

TakeFromRedis(r) ==
  /\ stock' = [stock EXCEPT ![ask[r].cat] = @ - ask[r].qty]
  /\ bought' = [bought EXCEPT ![ask[r].user] = @ + ask[r].qty]
  /\ UNCHANGED present

Refuse(r, code) == Answer(r, code) /\ UNCHANGED redisVars

Reserve(r) ==
  LET ready == ask[r].cat \in present IN
  /\ at[r] = "reserve"
  /\ \/ ~ready /\ Refuse(r, "QUEUE_NOT_OPEN")
     \/ ready /\ OverLimitInRedis(r) /\ Refuse(r, "LIMIT_EXCEEDED")
     \/ ready /\ ~OverLimitInRedis(r) /\ ShortInRedis(r) /\ Refuse(r, "OUT_OF_STOCK")
     \/ /\ ready /\ ~OverLimitInRedis(r) /\ ~ShortInRedis(r)
        /\ TakeFromRedis(r)
        /\ Goes(r, "insert")
  /\ UNCHANGED <<dbVars, due, ask, task, batch, sent, outcomeVars>>

\* Mutant: the account counter is not lowered.
ReturnStockOnly(o) ==
  /\ stock' = [stock EXCEPT ![ask[o].cat] = @ + ask[o].qty]
  /\ present' = present \cup {ask[o].cat}
  /\ UNCHANGED bought

\* release.lua for one order item; INCRBY creates a missing stock key.
ReturnToRedis(o) ==
  LET c == ask[o].cat
      u == ask[o].user
      left == bought[u] - ask[o].qty
  IN
  /\ stock' = [stock EXCEPT ![c] = @ + ask[o].qty]
  /\ present' = present \cup {c}
  /\ bought' = [bought EXCEPT ![u] = IF left <= 0 THEN 0 ELSE left]

\* Mutants: paid orders alone count; tickets on hold do not.
OverLimitCountingPaid(r) ==
  Cardinality(Units(OfUser(ask[r].user, WithStatus({"PAID"})))) + ask[r].qty > MaxPerUser
FitsIgnoringReserved(r) == sold[ask[r].cat] + ask[r].qty <= Quota[ask[r].cat]

\* antretix_reserve_order: one statement, serialised per account.
OverLimitInDb(r) == HeldBy(ask[r].user) + ask[r].qty > MaxPerUser
Fits(r) == LET c == ask[r].cat IN sold[c] + reserved[c] + ask[r].qty <= Quota[c]

InsertOrder(r) ==
  /\ at[r] = "insert"
  /\ \/ OverLimitInDb(r) /\ Fails(r, "LIMIT_EXCEEDED") /\ UNCHANGED dbVars
     \/ ~OverLimitInDb(r) /\ ~Fits(r) /\ Fails(r, "OUT_OF_STOCK") /\ UNCHANGED dbVars
     \* the unique index on idempotencyKey aborts the whole statement
     \/ /\ ~OverLimitInDb(r) /\ Fits(r) /\ KeyTaken(r)
        /\ Fails(r, "ERROR")
        /\ UNCHANGED dbVars
     \/ /\ ~OverLimitInDb(r) /\ Fits(r) /\ ~KeyTaken(r)
        /\ reserved' = [reserved EXCEPT ![ask[r].cat] = @ + ask[r].qty]
        /\ status' = [status EXCEPT ![r] = "PENDING"]
        /\ UNCHANGED <<sold, tickets>>
        /\ Goes(r, "readBack")
  /\ UNCHANGED <<due, redisVars, ask, task, batch, sent, outcomeVars>>

\* The statement fails without committing (no free connection, a timeout).
InsertFails(r) ==
  /\ "insertFails" \in Faults
  /\ at[r] = "insert"
  /\ Fails(r, "ERROR")
  /\ UNCHANGED <<dbVars, due, redisVars, ask, task, batch, sent, outcomeVars>>

\* findUniqueOrThrow, still inside the try block, then recordStat and the answer.
ReadBack(r) ==
  /\ at[r] = "readBack"
  /\ Answer(r, "CREATED")
  /\ UNCHANGED <<dbVars, due, redisVars, ask, task, batch, sent, outcomeVars>>

\* The row is committed, and the query that reads it back (or the answer of the
\* insert itself) fails.
ReadBackFails(r) ==
  /\ "readBackFails" \in Faults
  /\ at[r] = "readBack"
  /\ Fails(r, "ERROR")
  /\ UNCHANGED <<dbVars, due, redisVars, ask, task, batch, sent, outcomeVars>>

\* Mutant: the catch block throws again without lua.release.
UndoForgetsRedis(r) ==
  /\ at[r] = "undo"
  /\ Goes(r, IF reply[r] \in AppErrors THEN "done" ELSE "twin")
  /\ UNCHANGED <<dbVars, due, redisVars, ask, task, batch, sent, outcomeVars>>

\* The catch block: lua.release, and an AppError is thrown again.
Undo(r) ==
  /\ at[r] = "undo"
  /\ ReturnToRedis(r)
  /\ Goes(r, IF reply[r] \in AppErrors THEN "done" ELSE "twin")
  /\ UNCHANGED <<dbVars, due, ask, task, batch, sent, outcomeVars>>

\* Mutant: the catch block does not look for a twin.
FindTwinNever(r) ==
  /\ at[r] = "twin"
  /\ Answer(r, "ERROR")
  /\ UNCHANGED <<dbVars, due, redisVars, ask, task, batch, sent, outcomeVars>>

\* Any other error: perhaps a twin with the same key won the unique index.
FindTwin(r) ==
  /\ at[r] = "twin"
  /\ Answer(r, IF KeyTaken(r) THEN "REPLAY" ELSE "ERROR")
  /\ UNCHANGED <<dbVars, due, redisVars, ask, task, batch, sent, outcomeVars>>

\* The API process dies while the call runs.
CallCrash(r) ==
  /\ "crash" \in Faults
  /\ at[r] \notin {"unsent", "done", "crashed"}
  /\ Goes(r, "crashed")
  /\ leaked' = leaked \cup (IF at[r] \in {"insert", "undo"} THEN {r} ELSE {})
  /\ UNCHANGED <<dbVars, due, redisVars, ask, task, batch, sent, settled>>

-----------------------------------------------------------------------------
(* The worker's syncEventToRedis: SET NX of the stock of a category, which nobody
   can reserve before.  What a lost Redis does to this is StockSync's subject. *)

SyncStock(c) ==
  /\ c \notin present
  /\ present' = present \cup {c}
  /\ stock' = [stock EXCEPT ![c] = Quota[c] - sold[c] - reserved[c]]
  /\ UNCHANGED <<dbVars, due, bought, callVars, task, batch, sent, outcomeVars>>

-----------------------------------------------------------------------------
(* Transitions of an existing order *)

\* Mutant: the UPDATE has no condition on the status.
MayReleaseAnyStatus(o, kind) == status[o] # "NONE" /\ (kind = "expiry" => o \in due)

\* antretix_release_order: only the caller that wins the transition gets the
\* items back, and with them the duty to return them to Redis.
MayRelease(o, kind) == status[o] = "PENDING" /\ (kind = "expiry" => o \in due)

ReleaseOrder(a, o, kind) ==
  \/ /\ MayRelease(o, kind)
     /\ status' = [status EXCEPT ![o] = IF kind = "expiry" THEN "EXPIRED" ELSE "CANCELLED"]
     /\ reserved' = [reserved EXCEPT ![ask[o].cat] = @ - ask[o].qty]
     /\ task' = [task EXCEPT ![a] = [step |-> "giveBack", order |-> o,
                                     kind |-> kind, seen |-> "PENDING"]]
     /\ UNCHANGED <<sold, tickets>>
  \/ /\ ~MayRelease(o, kind)
     /\ task' = [task EXCEPT ![a] = Idle]
     /\ UNCHANGED dbVars

\* The loop of releaseOrder over the returned items, then the handler's answer.
GiveBack(a) ==
  /\ task[a].step = "giveBack"
  /\ ReturnToRedis(task[a].order)
  /\ task' = [task EXCEPT ![a] = Idle]
  /\ UNCHANGED <<dbVars, due, callVars, batch, sent, outcomeVars>>

\* POST /orders/:id/cancel: the order as read must be PENDING.
CancelRead(h, o) ==
  /\ task[h] = Idle
  /\ status[o] = "PENDING"
  /\ task' = [task EXCEPT ![h] = [step |-> "release", order |-> o,
                                  kind |-> "cancel", seen |-> "PENDING"]]
  /\ UNCHANGED <<dbVars, due, redisVars, callVars, batch, sent, outcomeVars>>

\* releaseOrder called by the cancel route or for a failed payment.
HandlerRelease(h) ==
  /\ task[h].step = "release"
  /\ ReleaseOrder(h, task[h].order, task[h].kind)
  /\ UNCHANGED <<due, redisVars, callVars, batch, sent, settled, leaked>>

\* POST /orders/:id/pay: the mock provider is told the outcome and will notify.
Click(o, kind) ==
  /\ status[o] = "PENDING"
  /\ Cardinality(sent) < MaxSent
  /\ sent' = sent \cup {[order |-> o, kind |-> kind]}
  /\ UNCHANGED <<dbVars, due, redisVars, callVars, task, batch, outcomeVars>>

\* A delivery of a notification: it may be late, repeated, and out of order.
Deliver(h, m) ==
  /\ task[h] = Idle
  /\ task' = [task EXCEPT ![h] = [step |-> "read", order |-> m.order,
                                  kind |-> m.kind, seen |-> "NONE"]]
  /\ UNCHANGED <<dbVars, due, redisVars, callVars, batch, sent, outcomeVars>>

\* handlePaymentNotification up to its first write.
ReadForPayment(h) ==
  LET t == task[h]
      s == status[t.order]
      Proceed(p) == task' = [task EXCEPT ![h].step = p, ![h].seen = s]
  IN
  /\ t.step = "read"
  /\ \/ t.kind = "failed" /\ Proceed("release")
     \/ t.kind = "settlement" /\ s = "PENDING" /\ Proceed("pay")
     \/ t.kind = "settlement" /\ s \in Released /\ Proceed("refund")
     \* ALREADY_PAID, or IGNORED because already refunded
     \/ t.kind = "settlement" /\ s \in {"PAID", "REFUNDED"} /\ Proceed("ack")
  /\ UNCHANGED <<dbVars, due, redisVars, callVars, batch, sent, outcomeVars>>

\* Mutant: the UPDATE has no condition on the status.
PayableAnyStatus(o) == status[o] # "NONE"

\* antretix_pay_order; when it answers false the notification is processed again.
Payable(o) == status[o] = "PENDING"

PayOr(h, otherwise) ==
  LET o == task[h].order
      c == ask[o].cat
      q == ask[o].qty
  IN
  /\ task[h].step = "pay"
  /\ \/ /\ Payable(o)
        /\ status' = [status EXCEPT ![o] = "PAID"]
        /\ tickets' = tickets \cup ({o} \X (1 .. q))
        /\ reserved' = [reserved EXCEPT ![c] = @ - q]
        /\ sold' = [sold EXCEPT ![c] = @ + q]
        /\ task' = [task EXCEPT ![h].step = "ack"]
     \/ /\ ~Payable(o)
        /\ task' = [task EXCEPT ![h].step = otherwise]
        /\ UNCHANGED dbVars
  /\ UNCHANGED <<due, redisVars, callVars, batch, sent, outcomeVars>>

\* Mutant: a payment that lost to expiry or cancel is acknowledged as it is.
PayGivesUp(h) == PayOr(h, "ack")

Pay(h) == PayOr(h, "read")

\* updateMany where the status is still the one that was read.
Refund(h) ==
  LET o == task[h].order IN
  /\ task[h].step = "refund"
  /\ status' = IF status[o] = task[h].seen
                 THEN [status EXCEPT ![o] = "REFUNDED"] ELSE status
  /\ task' = [task EXCEPT ![h].step = "ack"]
  /\ UNCHANGED <<reserved, sold, tickets, due, redisVars, callVars, batch, sent, outcomeVars>>

\* recordStat, leaveQueue and the 2xx answer to the provider.
Acknowledge(h) ==
  /\ task[h].step = "ack"
  /\ settled' = settled \cup {task[h].order}
  /\ task' = [task EXCEPT ![h] = Idle]
  /\ UNCHANGED <<dbVars, due, redisVars, callVars, batch, sent, leaked>>

-----------------------------------------------------------------------------
(* The expiry job *)

HoldElapses(o) ==
  /\ status[o] = "PENDING" /\ o \notin due
  /\ due' = due \cup {o}
  /\ UNCHANGED <<dbVars, redisVars, callVars, task, batch, sent, outcomeVars>>

\* Mutant: the job waits for a full batch of two.
DueFullBatch == IF Cardinality(due) < 2 THEN {} ELSE {o \in due : status[o] = "PENDING"}

DuePending == {o \in due : status[o] = "PENDING"}

ExpirySelect(w) ==
  /\ task[w] = Idle /\ batch[w] = {}
  /\ DuePending # {}
  /\ batch' = [batch EXCEPT ![w] = DuePending]
  /\ UNCHANGED <<dbVars, due, redisVars, callVars, task, sent, outcomeVars>>

ExpiryRelease(w) ==
  /\ task[w] = Idle
  /\ \E o \in batch[w] :
       /\ batch' = [batch EXCEPT ![w] = @ \ {o}]
       /\ ReleaseOrder(w, o, "expiry")
  /\ UNCHANGED <<due, redisVars, callVars, sent, settled, leaked>>

\* A handler or worker process dies; a worker comes back with nothing to do.
ActorCrash(a) ==
  /\ "crash" \in Faults
  /\ task[a] # Idle
  /\ leaked' = leaked \cup
                 (IF task[a].step = "giveBack" THEN {task[a].order} ELSE {})
  /\ task' = [task EXCEPT ![a] = Idle]
  /\ batch' = [w \in Workers |-> IF w = a THEN {} ELSE batch[w]]
  /\ UNCHANGED <<dbVars, due, redisVars, callVars, sent, settled>>

-----------------------------------------------------------------------------
CallStep(r) ==
  \/ Lookup(r) \/ Reserve(r) \/ InsertOrder(r) \/ ReadBack(r) \/ Undo(r) \/ FindTwin(r)

HandlerStep(h) ==
  \/ HandlerRelease(h) \/ GiveBack(h) \/ ReadForPayment(h)
  \/ Pay(h) \/ Refund(h) \/ Acknowledge(h)

WorkerStep(w) == ExpirySelect(w) \/ ExpiryRelease(w) \/ GiveBack(w)

Client ==
  \/ \E r \in Requests : Submit(r)
  \/ \E o \in Requests : \/ \E h \in Handlers : CancelRead(h, o)
                         \/ \E k \in {"settlement", "failed"} : Click(o, k)
  \/ \E h \in Handlers, m \in sent : Deliver(h, m)

Fault ==
  \/ \E r \in Requests : InsertFails(r) \/ ReadBackFails(r) \/ CallCrash(r)
  \/ \E a \in Actors : ActorCrash(a)

Next ==
  \/ Client
  \/ \E r \in Requests : CallStep(r)
  \/ \E h \in Handlers : HandlerStep(h)
  \/ \E o \in Requests : HoldElapses(o)
  \/ \E w \in Workers : WorkerStep(w)
  \/ \E c \in Categories : SyncStock(c)
  \/ Fault

Spec == Init /\ [][Next]_vars

Crash == (\E r \in Requests : CallCrash(r)) \/ (\E a \in Actors : ActorCrash(a))

\* A started call, handler or job goes on unless its process dies, and processes do
\* not die for ever; holds elapse with time; the expiry job runs again and again.
\* Clients owe nothing.
Fairness ==
  /\ \A r \in Requests : WF_vars(CallStep(r)) /\ WF_vars(HoldElapses(r))
  /\ \A h \in Handlers : WF_vars(HandlerStep(h))
  /\ \A w \in Workers : WF_vars(WorkerStep(w))
  /\ \A c \in Categories : WF_vars(SyncStock(c))
  /\ <>[][~Crash]_vars

FairSpec == Spec /\ Fairness
-----------------------------------------------------------------------------
(* Properties *)

\* Every variable stays in its type.
TypeOK ==
  /\ reserved \in [Categories -> Nat] /\ sold \in [Categories -> Nat]
  /\ status \in [Requests -> Statuses] /\ due \subseteq Requests
  /\ tickets \subseteq Requests \X Nat
  /\ stock \in [Categories -> Int] /\ present \subseteq Categories
  /\ bought \in [Users -> Nat]
  /\ at \in [Requests -> Points] /\ ask \in [Requests -> Asks]
  /\ reply \in [Requests -> Replies]
  /\ task \in [Actors -> Tasks \cup {Idle}] /\ batch \in [Workers -> SUBSET Requests]
  /\ sent \subseteq Messages
  /\ settled \subseteq Requests /\ leaked \subseteq Requests

Holders == WithStatus({"PENDING", "PAID"})

\* The event never promises or issues more tickets of a category than its
\* quota, whatever Redis says: the last guard of antretix_reserve_order.
NoOversell ==
  \A c \in Categories :
    /\ Cardinality(Units(InCategory(c, Holders))) <= Quota[c]
    /\ Cardinality({t \in tickets : ask[t[1]].cat = c}) <= Quota[c]

\* The counters of TicketCategory are the sums of the orders behind them: no
\* interleaving of expiry, cancel and payment moves an order's tickets twice.
QuotaLedger ==
  \A c \in Categories :
    /\ reserved[c] = Cardinality(Units(InCategory(c, WithStatus({"PENDING"}))))
    /\ sold[c] = Cardinality(Units(InCategory(c, WithStatus({"PAID"}))))

\* No account holds more than MaxPerUser tickets over all its orders.
AccountLimit == \A u \in Users : HeldBy(u) <= MaxPerUser

\* A ticket row exists exactly for each ticket of a paid order.
TicketsMatchPaid == tickets = Units(WithStatus({"PAID"}))

\* Two orders never carry the same account and idempotency key.
OneOrderPerKey ==
  \A o, p \in Requests :
    status[o] # "NONE" /\ status[p] # "NONE" /\ SameKey(o, p) => o = p

\* The units a request has out of Redis: reserved and not yet inserted, held by
\* its order, won back by a caller that has not returned them, or forgotten.
Returning(o)  == \E a \in Actors : task[a].step = "giveBack" /\ task[a].order = o
HoldsStock(r) ==
  r \in leaked \/ at[r] \in {"insert", "undo"} \/ Holds(r) \/ Returning(r)
Taken == {r \in Requests : HoldsStock(r)}

\* Redis stock is the quota less every unit taken, and the account's counter, whose
\* floor at zero never acts, counts the same units: each release returns its units
\* once and only once, in every interleaving of calls, handlers and jobs.
RedisLedger ==
  /\ \A c \in present : stock[c] = Quota[c] - Cardinality(Units(InCategory(c, Taken)))
  /\ \A u \in Users : bought[u] = Cardinality(Units(OfUser(u, Taken)))

\* Redis is a sound filter: what it lets through, PostgreSQL does not refuse.
LayersAgree == \A r \in Requests : at[r] = "insert" => Fits(r) /\ ~OverLimitInDb(r)

\* Money that was taken is accounted for: once a settlement is acknowledged, the
\* order is paid or refunded, though expiry and cancel may run at any time.
SettlementHonoured == \A o \in settled : status[o] \in {"PAID", "REFUNDED"}

\* Of twin calls one places an order.  Each call ends with that order or with a named
\* refusal that leaves no order of its own behind; losing the unique index, or the
\* read-back of an order that is placed, ends in the order and never in an error.
\* A twin that looked up its key before the order was there may be refused for want
\* of the units its sibling took: that refusal is an AppError, for which createOrder
\* does not look for the twin.
TwinsResolved ==
  /\ OneOrderPerKey
  /\ \A r \in Requests : at[r] = "done" =>
       \/ reply[r] \in AppErrors /\ status[r] = "NONE"
       \/ reply[r] \in {"CREATED", "REPLAY"} /\ KeyTaken(r)

-----------------------------------------------------------------------------
(* Refinement: what buyers are promised *)

LedgerState ==
  [o \in Requests |->
    CASE status[o] = "NONE"      -> "none"
      [] status[o] = "PENDING"   -> "held"
      [] status[o] = "PAID"      -> "sold"
      [] status[o] = "EXPIRED"   -> "expired"
      [] status[o] = "CANCELLED" -> "cancelled"
      [] OTHER                   -> "refunded"]

Ledger == INSTANCE TicketLedger WITH
  Orders  <- Requests,
  state   <- LedgerState,
  entry   <- [o \in Requests |-> IF status[o] = "NONE" THEN [user |-> "none"] ELSE ask[o]],
  charged <- {o \in Requests : [order |-> o, kind |-> "settlement"] \in sent}

\* The orders behave as TicketLedger says, under every fault: counters, conditional
\* updates and the unique index together amount to the promise made to buyers, and
\* no late or contrary notification sells or refunds what nobody was charged for.
KeepsThePromise == Ledger!Spec

-----------------------------------------------------------------------------
(* Liveness, under Fairness *)

\* A hold always ends: the order is paid, cancelled, or expired by the job.
HoldsEnd == \A o \in Requests : status[o] = "PENDING" ~> status[o] # "PENDING"

\* In the end the two stores differ only by what crashes forgot: every other unit
\* taken out of Redis is held by an order or has come back.
StoresAgree ==
  <>[](LET kept == Holders \cup leaked IN
         /\ \A c \in Categories :
              stock[c] = Quota[c] - Cardinality(Units(InCategory(c, kept)))
         /\ \A u \in Users : bought[u] = Cardinality(Units(OfUser(u, kept))))
=============================================================================
