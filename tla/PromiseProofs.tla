----------------------------- MODULE PromiseProofs -----------------------------
(***************************************************************************)
(* What Inventory owes to buyers and to its fast filter, for every value   *)
(* of the constants: money taken is paid for or given back, twin calls     *)
(* end with their order or with a refusal that leaves none, the orders     *)
(* behave as TicketLedger says, and Redis accounts for every unit and      *)
(* refuses what PostgreSQL would refuse.                                   *)
(*                                                                         *)
(* Settlements and the ledger need no assumption on the faults.  The rest  *)
(* holds for the faults it names: a statement that fails without           *)
(* committing ends its call with an error, and a committed insert whose    *)
(* read-back fails gives units back that its order still holds.            *)
(***************************************************************************)
EXTENDS InventoryProofs

-----------------------------------------------------------------------------
(* Settlements *)

\* What a handler of a settlement has reached: the order it is about to refund is
\* still the released order it saw, and the one it acknowledges is paid or refunded.
Reached(t, st) ==
  /\ t.step = "refund" => st[t.order] \in {t.seen, "REFUNDED"}
  /\ t.step = "ack" => st[t.order] \in {"PAID", "REFUNDED"}

Settles == SettlementHonoured /\ \A a \in Actors : Reached(task[a], status)

\* Paid and refunded orders stay so, and a released one is released or refunded.
LEMMA FinalStay ==
  ASSUME TypeOK, DbCases, NEW p \in Requests
  PROVE  /\ status[p] \in {"PAID", "REFUNDED"} => status'[p] = status[p]
         /\ status[p] \in Released => status'[p] \in {status[p], "REFUNDED"}
BY DEF DbCases, Still, Inserts, Releases, Pays, Refunds, Released, TypeOK, dbVars

\* What a task has reached it does not lose by what happens to the rows.
LEMMA ReachedStays ==
  ASSUME TypeOK, Whereabouts, Settles, DbCases, NEW a \in Actors
  PROVE  Reached(task[a], status')
<1>1. CASE task[a].step \in {"refund", "ack"}
  <2>1. task[a].order \in Requests
    BY <1>1, TaskTyped
  <2>2. task[a].step = "refund" => task[a].seen \in Released
    BY DEF Whereabouts, RefundSeen
  <2> QED
    BY <2>1, <2>2, FinalStay DEF Settles, Reached, Released
<1>2. CASE task[a].step \notin {"refund", "ack"}
  BY <1>2 DEF Reached
<1> QED
  BY <1>1, <1>2

\* A handler goes to its acknowledgement or its refund only with the order in the
\* state for it, whatever expiry, cancels and other deliveries did in between.
LEMMA ReachedNext ==
  ASSUME TypeOK, Whereabouts, Settles, [Next]_vars
  PROVE  \A a \in Actors : Reached(task'[a], status')
<1> DEFINE Goal == \A a \in Actors : Reached(task'[a], status')
<1>1. DbCases
  BY DbStepCases
<1>2. \A a \in Actors : Reached(task[a], status')
  BY <1>1, ReachedStays
<1>3. ASSUME NEW a \in Actors, NEW t, task' = [task EXCEPT ![a] = t], Reached(t, status')
      PROVE  Goal
  BY <1>2, <1>3 DEF TypeOK
<1>4. ASSUME NEW a \in Actors, NEW o, NEW kind, ReleaseOrder(a, o, kind) PROVE Goal
  <2> DEFINE t == [step |-> "giveBack", order |-> o, kind |-> kind, seen |-> "PENDING"]
  <2>1. task' = [task EXCEPT ![a] = t] \/ task' = [task EXCEPT ![a] = Idle]
    BY <1>4 DEF ReleaseOrder
  <2>2. Reached(t, status') /\ Reached(Idle, status')
    BY DEF Reached, Idle
  <2> QED
    BY <1>3, <2>1, <2>2
<1>5. ASSUME NEW h \in Handlers, NEW o, NEW m, CancelRead(h, o) \/ Deliver(h, m)
      PROVE  Goal
  <2> DEFINE t == [step |-> "release", order |-> o, kind |-> "cancel", seen |-> "PENDING"]
             s == [step |-> "read", order |-> m.order, kind |-> m.kind, seen |-> "NONE"]
  <2>1. task' = [task EXCEPT ![h] = t] \/ task' = [task EXCEPT ![h] = s]
    BY <1>5 DEF CancelRead, Deliver
  <2>2. Reached(t, status') /\ Reached(s, status') /\ h \in Actors
    BY DEF Reached, Actors
  <2> QED
    BY <1>3, <2>1, <2>2
<1>6. ASSUME NEW a \in Actors, GiveBack(a) \/ Acknowledge(a) \/ ActorCrash(a) PROVE Goal
  <2>1. task' = [task EXCEPT ![a] = Idle] /\ Idle.step = "idle"
    BY <1>6 DEF GiveBack, Acknowledge, ActorCrash, Idle
  <2> QED
    BY <1>3, <2>1 DEF Reached
<1>7. ASSUME NEW h \in Handlers, ReadForPayment(h) PROVE Goal
  <2> DEFINE o == task[h].order
  <2>1. task[h] \in Tasks /\ o \in Requests /\ h \in Actors
    BY <1>7, TaskTyped DEF ReadForPayment, Actors
  <2>2. PICK p \in {"release", "pay", "refund", "ack"} :
          /\ task' = [task EXCEPT ![h] = [@ EXCEPT !.step = p, !.seen = status[o]]]
          /\ p = "ack" => status[o] \in {"PAID", "REFUNDED"}
    BY <1>7, <2>1 DEF ReadForPayment, TypeOK
  <2>3. status' = status
    BY <1>7 DEF ReadForPayment, dbVars
  <2> DEFINE t == [task[h] EXCEPT !.step = p, !.seen = status[o]]
  <2>4. t.step = p /\ t.seen = status[o] /\ t.order = o
    BY <2>1 DEF Tasks
  <2>5. Reached(t, status')
    BY <2>2, <2>3, <2>4 DEF Reached
  <2>6. task' = [task EXCEPT ![h] = t]
    BY <2>1, <2>2
  <2> QED
    BY <1>3, <2>1, <2>5, <2>6
<1>8. ASSUME NEW h \in Handlers, Pay(h) PROVE Goal
  <2> DEFINE o == task[h].order
  <2>1. task[h] \in Tasks /\ o \in Requests /\ h \in Actors
    BY <1>8, TaskTyped DEF Pay, PayOr, Actors
  <2>2. PICK p \in {"ack", "read"} :
          /\ task' = [task EXCEPT ![h] = [@ EXCEPT !.step = p]]
          /\ p = "ack" => status'[o] = "PAID"
    BY <1>8, <2>1 DEF Pay, PayOr, TypeOK
  <2> DEFINE t == [task[h] EXCEPT !.step = p]
  <2>3. t.step = p /\ t.order = o
    BY <2>1 DEF Tasks
  <2>4. Reached(t, status') /\ task' = [task EXCEPT ![h] = t]
    BY <2>1, <2>2, <2>3 DEF Reached
  <2> QED
    BY <1>3, <2>1, <2>4
<1>9. ASSUME NEW h \in Handlers, Refund(h) PROVE Goal
  <2> DEFINE o == task[h].order
  <2>1. task[h] \in Tasks /\ o \in Requests /\ h \in Actors
    BY <1>9, TaskTyped DEF Refund, Actors
  <2>2. status[o] \in {task[h].seen, "REFUNDED"}
    BY <1>9, <2>1 DEF Refund, Settles, Reached
  <2>3. status'[o] = "REFUNDED"
    BY <1>9, <2>1, <2>2 DEF Refund, TypeOK
  <2> DEFINE t == [task[h] EXCEPT !.step = "ack"]
  <2>4. t.step = "ack" /\ t.order = o
    BY <2>1 DEF Tasks
  <2>5. Reached(t, status') /\ task' = [task EXCEPT ![h] = t]
    BY <1>9, <2>1, <2>3, <2>4 DEF Reached, Refund
  <2> QED
    BY <1>3, <2>1, <2>5
<1>10. ASSUME task' = task PROVE Goal
  BY <1>2, <1>10
<1> QED
  BY <1>4, <1>5, <1>6, <1>7, <1>8, <1>9, <1>10
  DEF Next, Client, CallStep, HandlerStep, WorkerStep, Fault, vars, Actors, Submit, Lookup,
      Reserve, InsertOrder, ReadBack, Undo, FindTwin, InsertFails, ReadBackFails, CallCrash,
      Click, HandlerRelease, HoldElapses, ExpirySelect, ExpiryRelease, SyncStock

\* An order is settled by an acknowledgement and by nothing else.
LEMMA SettledNext ==
  ASSUME TypeOK, Whereabouts, Settles, [Next]_vars
  PROVE  SettlementHonoured'
<1>1. DbCases
  BY DbStepCases
<1>2. \A o \in settled : status'[o] \in {"PAID", "REFUNDED"}
  BY <1>1, FinalStay DEF Settles, SettlementHonoured, TypeOK
<1>3. ASSUME NEW h \in Handlers, Acknowledge(h) PROVE SettlementHonoured'
  <2>1. Reached(task[h], status')
    BY <1>1, ReachedStays DEF Actors
  <2> QED
    BY <1>2, <1>3, <2>1 DEF Acknowledge, Reached, SettlementHonoured
<1>4. ASSUME UNCHANGED settled PROVE SettlementHonoured'
  BY <1>2, <1>4 DEF SettlementHonoured
<1> QED
  BY <1>3, <1>4
  DEF Next, Client, CallStep, HandlerStep, WorkerStep, Fault, vars, outcomeVars, Submit, Lookup,
      Reserve, InsertOrder, ReadBack, Undo, FindTwin, InsertFails, ReadBackFails, CallCrash,
      CancelRead, Click, Deliver, HandlerRelease, GiveBack, ReadForPayment, Pay, PayOr, Refund,
      HoldElapses, ExpirySelect, ExpiryRelease, SyncStock, ActorCrash

\* Money that was taken is accounted for: an acknowledged settlement is paid or
\* refunded for good, under every fault and in every race with expiry and cancel.
THEOREM MoneyAccounted == Spec => []SettlementHonoured
<1>1. Init => Settles
  BY DEF Init, Settles, SettlementHonoured, Reached, Idle
<1>2. IInv /\ Settles /\ [Next]_vars => Settles'
  BY ReachedNext, SettledNext DEF IInv, Settles
<1>3. Settles => SettlementHonoured
  BY DEF Settles
<1> QED
  BY <1>1, <1>2, <1>3, SpecIInv, PTL DEF Spec

-----------------------------------------------------------------------------
(* Twins *)

\* How a call ends: refused without an order of its own, or with the order of its key.
Ended(r) ==
  \/ reply[r] \in AppErrors /\ status[r] = "NONE"
  \/ reply[r] \in {"CREATED", "REPLAY"} /\ KeyTaken(r)

\* A call that failed for no reason of its own has a twin with a row, or is itself
\* that twin, when no statement fails without committing; one that is refused has none.
TwinKnown ==
  \A r \in Requests :
    /\ at[r] = "readBack" => status[r] # "NONE"
    /\ at[r] = "undo" /\ reply[r] \in AppErrors => status[r] = "NONE"
    /\ at[r] = "undo" /\ reply[r] \notin AppErrors => KeyTaken(r)
    /\ at[r] = "twin" => KeyTaken(r)
    /\ at[r] = "done" => Ended(r)

\* A taken key stays taken.
LEMMA KeyTakenStays ==
  ASSUME TypeOK, DbCases, NEW r \in Requests, ask'[r] = ask[r], KeyTaken(r)
  PROVE  KeyTaken(r)'
<1>1. PICK o \in Requests : status[o] # "NONE" /\ SameKey(o, r)
  BY DEF KeyTaken
<1>2. status'[o] # "NONE" /\ ask'[o] = ask[o]
  BY <1>1, RowsStay
<1> QED
  BY <1>1, <1>2 DEF KeyTaken, SameKey

\* The first failing step of a call without a reason of its own: the unique index
\* names the twin, a failed read-back the row of the call itself.
LEMMA TwinFound ==
  ASSUME "insertFails" \notin Faults, TypeOK, Whereabouts, TwinKnown, [Next]_vars
  PROVE  TwinKnown'
<1> DEFINE Good(r) ==
      /\ at'[r] = "readBack" => status'[r] # "NONE"
      /\ at'[r] = "undo" /\ reply'[r] \in AppErrors => status'[r] = "NONE"
      /\ at'[r] = "undo" /\ reply'[r] \notin AppErrors => KeyTaken(r)'
      /\ at'[r] = "twin" => KeyTaken(r)'
      /\ at'[r] = "done" => Ended(r)'
<1>1. DbCases
  BY DbStepCases
<1>0. \A r \in Requests : status[r] = "NONE" /\ status'[r] # "NONE" => at'[r] = "readBack"
  BY BornByInsert
<1>2. ASSUME NEW r \in Requests, at'[r] = at[r], reply'[r] = reply[r], ask'[r] = ask[r]
      PROVE  Good(r)
  BY <1>0, <1>1, <1>2, KeyTakenStays, RowsStay DEF TwinKnown, Ended
<1>3. ASSUME NEW q \in Requests, Good(q),
             \A p \in Requests \ {q} : at'[p] = at[p] /\ reply'[p] = reply[p] /\ ask'[p] = ask[p]
      PROVE  TwinKnown'
  <2>1. \A r \in Requests : Good(r)
    BY <1>2, <1>3
  <2> QED
    BY <2>1 DEF TwinKnown
<1> USE DEF Answer, Goes, Fails, TypeOK
<1>4. ASSUME NEW r \in Requests, Submit(r) PROVE TwinKnown'
  <2>1. Good(r)
    BY <1>4 DEF Submit
  <2> QED
    BY <1>3, <1>4, <2>1 DEF Submit
<1>5. ASSUME NEW r \in Requests, Lookup(r) PROVE TwinKnown'
  <2>1. status'[r] = "NONE"
    BY <1>5 DEF Lookup, dbVars, Whereabouts, Unborn
  <2>2. KeyTaken(r) => KeyTaken(r)'
    BY <1>1, <1>5, KeyTakenStays DEF Lookup
  <2>3. Good(r)
    BY <1>5, <2>1, <2>2 DEF Lookup, Ended, AppErrors
  <2> QED
    BY <1>3, <1>5, <2>3 DEF Lookup
<1>6. ASSUME NEW r \in Requests, Reserve(r) PROVE TwinKnown'
  <2>1. status'[r] = "NONE"
    BY <1>6 DEF Reserve, dbVars, Whereabouts, Unborn
  <2>2. Good(r)
    BY <1>6, <2>1 DEF Reserve, Refuse, Ended, AppErrors
  <2> QED
    BY <1>3, <1>6, <2>2 DEF Reserve, Refuse
<1>7. ASSUME NEW r \in Requests, InsertOrder(r) PROVE TwinKnown'
  <2>1. ask' = ask
    BY <1>7 DEF InsertOrder
  <2>2. KeyTaken(r) => KeyTaken(r)'
    BY <1>1, <2>1, KeyTakenStays
  <2>3. Good(r)
    BY <1>7, <2>2 DEF InsertOrder, AppErrors, Whereabouts, Unborn, dbVars
  <2> QED
    BY <1>3, <1>7, <2>3 DEF InsertOrder
<1>8. ASSUME NEW r \in Requests, ReadBack(r) PROVE TwinKnown'
  <2>1. status[r] # "NONE" /\ SameKey(r, r)
    BY <1>8 DEF ReadBack, TwinKnown, SameKey
  <2>2. KeyTaken(r)'
    BY <1>1, <1>8, <2>1, KeyTakenStays DEF ReadBack, KeyTaken
  <2>3. Good(r)
    BY <1>8, <2>2 DEF ReadBack, Ended
  <2> QED
    BY <1>3, <1>8, <2>3 DEF ReadBack
<1>9. ASSUME NEW r \in Requests, ReadBackFails(r) PROVE TwinKnown'
  <2>1. status[r] # "NONE" /\ SameKey(r, r)
    BY <1>9 DEF ReadBackFails, TwinKnown, SameKey
  <2>2. KeyTaken(r)'
    BY <1>1, <1>9, <2>1, KeyTakenStays DEF ReadBackFails, KeyTaken
  <2>3. Good(r)
    BY <1>9, <2>2 DEF ReadBackFails, AppErrors
  <2> QED
    BY <1>3, <1>9, <2>3 DEF ReadBackFails
<1>10. ASSUME NEW r \in Requests, Undo(r) PROVE TwinKnown'
  <2>1. reply[r] \notin AppErrors => KeyTaken(r)'
    BY <1>1, <1>10, KeyTakenStays DEF Undo, TwinKnown
  <2>2. reply[r] \in AppErrors => status'[r] = "NONE"
    BY <1>10 DEF Undo, TwinKnown, dbVars
  <2>3. Good(r)
    BY <1>10, <2>1, <2>2 DEF Undo, Ended
  <2> QED
    BY <1>3, <1>10, <2>3 DEF Undo
<1>11. ASSUME NEW r \in Requests, FindTwin(r) PROVE TwinKnown'
  <2>1. KeyTaken(r) /\ KeyTaken(r)'
    BY <1>1, <1>11, KeyTakenStays DEF FindTwin, TwinKnown
  <2>2. Good(r)
    BY <1>11, <2>1 DEF FindTwin, Ended
  <2> QED
    BY <1>3, <1>11, <2>2 DEF FindTwin
<1>12. ASSUME NEW r \in Requests, CallCrash(r) PROVE TwinKnown'
  <2>1. Good(r)
    BY <1>12 DEF CallCrash
  <2> QED
    BY <1>3, <1>12, <2>1 DEF CallCrash
<1>13. ASSUME UNCHANGED callVars PROVE TwinKnown'
  <2>1. \A r \in Requests : Good(r)
    BY <1>2, <1>13 DEF callVars
  <2> QED
    BY <2>1 DEF TwinKnown
<1> QED
  BY <1>4, <1>5, <1>6, <1>7, <1>8, <1>9, <1>10, <1>11, <1>12, <1>13
  DEF Next, Client, CallStep, HandlerStep, WorkerStep, Fault, vars, InsertFails, CancelRead,
      Click, Deliver, HandlerRelease, GiveBack, ReadForPayment, Pay, PayOr, Refund,
      Acknowledge, HoldElapses, ExpirySelect, ExpiryRelease, SyncStock, ActorCrash

\* Of twin calls one places an order, and a call ends with its key's order or with a
\* refusal that leaves none of its own, under every fault but a statement that fails
\* without committing, which may leave neither order nor reason.
THEOREM TwinsAnswered == "insertFails" \notin Faults => (Spec => []TwinsResolved)
<1> SUFFICES ASSUME "insertFails" \notin Faults PROVE Spec => []TwinsResolved
  OBVIOUS
<1>1. Init => TwinKnown
  BY DEF Init, TwinKnown
<1>2. IInv /\ TwinKnown /\ [Next]_vars => TwinKnown'
  BY TwinFound DEF IInv
<1>3. IInv /\ TwinKnown => TwinsResolved
  BY DEF IInv, Books, TwinKnown, Ended, TwinsResolved
<1> QED
  BY <1>1, <1>2, <1>3, SpecIInv, PTL DEF Spec

-----------------------------------------------------------------------------
(* Charges: a handler works on a settlement only when the provider sent one. *)

Charged == {o \in Requests : [order |-> o, kind |-> "settlement"] \in sent}

OnSettlement(t) == t.step \in {"pay", "refund"} \/ (t.step = "read" /\ t.kind = "settlement")

ChargeKnown == \A a \in Actors : OnSettlement(task[a]) => task[a].order \in Charged

\* A settlement is sent for an order that is to be paid, and stays sent.
LEMMA SentGrows ==
  ASSUME [Next]_vars
  PROVE  \/ sent' = sent
         \/ \E o \in Requests, k \in {"settlement", "failed"} :
              Click(o, k) /\ sent' = sent \cup {[order |-> o, kind |-> k]}
BY DEF Next, Client, CallStep, HandlerStep, WorkerStep, Fault, vars, Submit, Lookup, Reserve,
       InsertOrder, ReadBack, Undo, FindTwin, InsertFails, ReadBackFails, CallCrash, CancelRead,
       Click, Deliver, HandlerRelease, GiveBack, ReadForPayment, Pay, PayOr, Refund, Acknowledge,
       HoldElapses, ExpirySelect, ExpiryRelease, SyncStock, ActorCrash

\* Every step leaves the handlers with settlements that were sent.
LEMMA ChargeNext ==
  ASSUME TypeOK, ChargeKnown, [Next]_vars
  PROVE  ChargeKnown'
<1> DEFINE Good(t) == OnSettlement(t) => t.order \in Charged'
<1>1. Charged \subseteq Charged'
  BY SentGrows DEF Charged
<1>2. \A a \in Actors : Good(task[a])
  BY <1>1 DEF ChargeKnown
<1>3. ASSUME NEW a \in Actors, NEW t, task' = [task EXCEPT ![a] = t], Good(t)
      PROVE  ChargeKnown'
  BY <1>2, <1>3 DEF TypeOK, ChargeKnown
<1>4. Good(Idle)
  BY DEF OnSettlement, Idle
<1>5. ASSUME NEW a \in Actors, NEW o, NEW kind, ReleaseOrder(a, o, kind) PROVE ChargeKnown'
  <2> DEFINE t == [step |-> "giveBack", order |-> o, kind |-> kind, seen |-> "PENDING"]
  <2>1. task' = [task EXCEPT ![a] = t] \/ task' = [task EXCEPT ![a] = Idle]
    BY <1>5 DEF ReleaseOrder
  <2>2. Good(t)
    BY DEF OnSettlement
  <2> QED
    BY <1>3, <1>4, <2>1, <2>2
<1>6. ASSUME NEW h \in Handlers, NEW o, CancelRead(h, o) PROVE ChargeKnown'
  <2> DEFINE t == [step |-> "release", order |-> o, kind |-> "cancel", seen |-> "PENDING"]
  <2>1. task' = [task EXCEPT ![h] = t] /\ Good(t) /\ h \in Actors
    BY <1>6 DEF CancelRead, OnSettlement, Actors
  <2> QED
    BY <1>3, <2>1
<1>7. ASSUME NEW h \in Handlers, NEW m \in sent, Deliver(h, m) PROVE ChargeKnown'
  <2> DEFINE t == [step |-> "read", order |-> m.order, kind |-> m.kind, seen |-> "NONE"]
  <2>1. m = [order |-> m.order, kind |-> m.kind] /\ m.order \in Requests
    BY DEF TypeOK, Messages
  <2>2. m.kind = "settlement" => m.order \in Charged
    BY <2>1 DEF Charged
  <2>3. task' = [task EXCEPT ![h] = t] /\ h \in Actors
    BY <1>7 DEF Deliver, Actors
  <2>4. Good(t)
    BY <1>1, <2>2 DEF OnSettlement
  <2> QED
    BY <1>3, <2>3, <2>4
<1>8. ASSUME NEW a \in Actors, GiveBack(a) \/ Acknowledge(a) \/ ActorCrash(a)
      PROVE  ChargeKnown'
  BY <1>3, <1>4, <1>8 DEF GiveBack, Acknowledge, ActorCrash
<1>9. ASSUME NEW h \in Handlers, ReadForPayment(h) \/ Pay(h) \/ Refund(h) PROVE ChargeKnown'
  <2> DEFINE o == task[h].order
  <2>1. task[h] \in Tasks /\ h \in Actors
    BY <1>9, TaskTyped DEF ReadForPayment, Pay, PayOr, Refund, Actors
  <2>2. PICK p, s :
          /\ task' = [task EXCEPT ![h] = [@ EXCEPT !.step = p, !.seen = s]]
          /\ p \in {"pay", "refund", "read"} => o \in Charged
    <3>1. CASE ReadForPayment(h)
      <4> DEFINE s == status[o]
      <4>1. task[h].step = "read"
        BY <3>1 DEF ReadForPayment
      <4>2. PICK p \in {"release", "pay", "refund", "ack"} :
              /\ task' = [task EXCEPT ![h] = [@ EXCEPT !.step = p, !.seen = s]]
              /\ p \in {"pay", "refund"} => task[h].kind = "settlement"
        BY <2>1, <3>1 DEF ReadForPayment, TypeOK
      <4>3. p \in {"pay", "refund", "read"} => o \in Charged
        BY <2>1, <4>1, <4>2 DEF ChargeKnown, OnSettlement
      <4> QED
        BY <4>2, <4>3
    <3>2. CASE Pay(h) \/ Refund(h)
      <4>1. task[h].step \in {"pay", "refund"} /\ o \in Charged
        BY <2>1, <3>2 DEF Pay, PayOr, Refund, ChargeKnown, OnSettlement
      <4>2. PICK p : task' = [task EXCEPT ![h] = [@ EXCEPT !.step = p]]
        BY <2>1, <3>2 DEF Pay, PayOr, Refund
      <4>3. [task[h] EXCEPT !.step = p] = [task[h] EXCEPT !.step = p, !.seen = task[h].seen]
        BY <2>1 DEF Tasks
      <4> QED
        BY <4>1, <4>2, <4>3
    <3> QED
      BY <1>9, <3>1, <3>2
  <2> DEFINE t == [task[h] EXCEPT !.step = p, !.seen = s]
  <2>3. t.step = p /\ t.order = o /\ task' = [task EXCEPT ![h] = t]
    BY <2>1, <2>2 DEF Tasks
  <2>4. Good(t)
    BY <1>1, <2>2, <2>3 DEF OnSettlement
  <2> QED
    BY <1>3, <2>1, <2>3, <2>4
<1>10. ASSUME task' = task PROVE ChargeKnown'
  BY <1>2, <1>10 DEF ChargeKnown
<1> QED
  BY <1>5, <1>6, <1>7, <1>8, <1>9, <1>10
  DEF Next, Client, CallStep, HandlerStep, WorkerStep, Fault, vars, Actors, Submit, Lookup,
      Reserve, InsertOrder, ReadBack, Undo, FindTwin, InsertFails, ReadBackFails, CallCrash,
      Click, HandlerRelease, HoldElapses, ExpirySelect, ExpiryRelease, SyncStock

\* Only what was charged becomes paid or refunded.
LEMMA ChargedFirst ==
  ASSUME IInv, ChargeKnown, [Next]_vars, NEW o \in Requests, Pays(o) \/ Refunds(o)
  PROVE  o \in Charged
<1>1. TypeOK /\ status[o] \in {"PENDING"} \cup Released /\ status'[o] \in {"PAID", "REFUNDED"}
  BY DEF IInv, Pays, Refunds, TypeOK
<1>2. status' # status /\ status'[o] # status[o]
  BY <1>1 DEF Released
<1>3. ASSUME NEW h \in Handlers, Pay(h) \/ Refund(h) PROVE o \in Charged
  <2>1. h \in Actors /\ task[h].order \in Charged
    BY <1>3 DEF Pay, PayOr, Refund, ChargeKnown, OnSettlement, Actors
  <2>2. task[h].order = o
    BY <1>1, <1>2, <1>3 DEF Pay, PayOr, Refund, TypeOK, dbVars
  <2> QED
    BY <2>1, <2>2
<1>4. ASSUME NEW a \in Actors, NEW p, NEW kind, ReleaseOrder(a, p, kind) PROVE FALSE
  BY <1>1, <1>2, <1>4 DEF ReleaseOrder, TypeOK, dbVars
<1>5. ASSUME NEW r \in Requests, InsertOrder(r) PROVE FALSE
  BY <1>1, <1>2, <1>5 DEF InsertOrder, TypeOK, dbVars
<1> QED
  BY <1>2, <1>3, <1>4, <1>5
  DEF Next, Client, CallStep, HandlerStep, WorkerStep, Fault, vars, dbVars, Actors, Submit,
      Lookup, Reserve, ReadBack, Undo, FindTwin, InsertFails, ReadBackFails, CallCrash,
      CancelRead, Click, Deliver, HandlerRelease, GiveBack, ReadForPayment, Acknowledge,
      HoldElapses, ExpirySelect, ExpiryRelease, SyncStock, ActorCrash

-----------------------------------------------------------------------------
(* Refinement: every step of Inventory is a step of TicketLedger or none. *)

\* What the ledger has written down for each order.
Entry == [o \in Requests |-> IF status[o] = "NONE" THEN [user |-> "none"] ELSE ask[o]]

\* The orders that hold tickets in the ledger are those that hold them here.
LEMMA LedgerHolders ==
  ASSUME TypeOK
  PROVE  Ledger!Holders = WithStatus(Held)
BY DEF Ledger!Holders, LedgerState, WithStatus, Held, TypeOK, Statuses

\* The ledger counts the same tickets.
LEMMA LedgerCount ==
  ASSUME TypeOK, NEW X \in SUBSET WithStatus(Held)
  PROVE  Ledger!Count(X) = Cardinality(Units(X))
<1>1. \A o \in X : Entry[o] = ask[o]
  BY DEF Entry, WithStatus, Held
<1>2. UnitsOf(X, Entry) = UnitsOf(X, ask)
  BY <1>1, UnitsCongruence
<1>3. Ledger!Tickets(X) = Units(X)
  BY <1>2 DEF Ledger!Tickets, UnitsOf, Units, Entry
<1>4. \A S : Ledger!Cardinality(S) = Cardinality(S)
  BY DEF Ledger!Cardinality, Cardinality
<1> QED
  BY <1>3, <1>4 DEF Ledger!Count

\* An order of the ledger whose state is not "none" has its body as entry.
LEMMA LedgerEntries ==
  ASSUME TypeOK
  PROVE  \A p \in Requests :
           /\ (LedgerState[p] = "none") <=> (status[p] = "NONE")
           /\ status[p] # "NONE" => Entry[p] = ask[p]
BY DEF TypeOK, LedgerState, Entry, Statuses

\* antretix_reserve_order does what the ledger calls a hold, under its conditions.
LEMMA InsertHolds ==
  ASSUME IInv, NEW r \in Requests, Inserts(r), sent' = sent
  PROVE  Ledger!Hold(r)
<1> DEFINE a == ask[r]
           OfA == {p \in Ledger!Holders : Entry[p].user = a.user}
           InA == {p \in Ledger!Holders : Entry[p].cat = a.cat}
<1>1. TypeOK /\ status[r] = "NONE" /\ a \in Asks /\ a.cat \in Categories
  BY DEF IInv, Inserts, TypeOK
<1>2. \A p \in Ledger!Holders : p \in Requests /\ Entry[p] = ask[p]
  BY <1>1, LedgerHolders, LedgerEntries DEF WithStatus, Held
<1>3. \A p \in Requests : LedgerState[p] # "none" =>
        ~(Entry[p].user = a.user /\ Entry[p].key = a.key)
  BY <1>1, LedgerEntries DEF Inserts, KeyTaken, SameKey
<1>4. Ledger!Count(OfA) + a.qty <= MaxPerUser
  <2>1. OfA = OfUser(a.user, WithStatus(Held)) /\ OfA \in SUBSET WithStatus(Held)
    BY <1>1, <1>2, LedgerHolders DEF OfUser
  <2>2. Ledger!Count(OfA) = HeldBy(a.user)
    BY <1>1, <2>1, LedgerCount DEF HeldBy, Held
  <2>3. HeldBy(a.user) \in Nat /\ a.qty \in Nat /\ MaxPerUser \in Nat
    BY <1>1, LoadOfUser, LoadTypes, AskType, LimitsAssumption
  <2>4. ~(HeldBy(a.user) + a.qty > MaxPerUser)
    BY DEF Inserts, OverLimitInDb
  <2> QED
    BY <2>2, <2>3, <2>4
<1>5. Ledger!Count(InA) + a.qty <= Quota[a.cat]
  <2>1. InA = InCategory(a.cat, WithStatus(Held)) /\ InA \in SUBSET WithStatus(Held)
    BY <1>1, <1>2, LedgerHolders DEF InCategory
  <2>2. Ledger!Count(InA) = CatLoad(Held, a.cat)
    BY <1>1, <2>1, LedgerCount, LoadOfCat
  <2>3. CatLoad(Held, a.cat) = CatLoad({"PENDING"}, a.cat) + CatLoad({"PAID"}, a.cat)
    BY <1>1, LoadSplits DEF CatLoad, OfCat, TypeOK, Held
  <2>4. /\ reserved[a.cat] = CatLoad({"PENDING"}, a.cat)
        /\ sold[a.cat] = CatLoad({"PAID"}, a.cat)
        /\ reserved[a.cat] \in Nat /\ sold[a.cat] \in Nat
    BY <1>1, BooksInLoads DEF IInv, Books, TypeOK
  <2>5. sold[a.cat] + reserved[a.cat] + a.qty <= Quota[a.cat] /\ a.qty \in Nat
    BY <1>1, AskType DEF Inserts, Fits
  <2>6. Ledger!Count(InA) = reserved[a.cat] + sold[a.cat]
    BY <2>2, <2>3, <2>4
  <2> QED
    BY <2>4, <2>5, <2>6
<1>6. LedgerState' = [LedgerState EXCEPT ![r] = "held"]
  BY <1>1 DEF LedgerState, Inserts, TypeOK, Statuses
<1>7. Entry' = [Entry EXCEPT ![r] = a]
  BY <1>1 DEF Entry, Inserts, TypeOK
<1>8. LedgerState[r] = "none"
  BY <1>1, LedgerEntries
<1> QED
  BY <1>1, <1>3, <1>4, <1>5, <1>6, <1>7, <1>8 DEF Ledger!Hold, Entry

\* A transition is the ledger's Sell, Expire, Cancel, Refund or RefundCancelled.
LEMMA MoveMoves ==
  ASSUME TypeOK, NEW o \in Requests, NEW s \in Statuses, Changes(o, s), status[o] # "NONE",
         s # "NONE", sent' = sent
  PROVE  /\ Entry' = Entry
         /\ status[o] = "PENDING" /\ s = "PAID" /\ o \in Charged => Ledger!Sell(o)
         /\ status[o] = "PENDING" /\ s \in Released => Ledger!Expire(o) \/ Ledger!Cancel(o)
         /\ status[o] \in Released /\ s = "REFUNDED" /\ o \in Charged =>
              Ledger!Refund(o) \/ Ledger!RefundCancelled(o)
<1>1. Entry' = Entry /\ Charged' = Charged
  BY DEF Entry, Changes, TypeOK, Charged
<1>2. LedgerState'
        = [LedgerState EXCEPT ![o] =
             CASE s = "PENDING" -> "held" [] s = "PAID" -> "sold" [] s = "EXPIRED" -> "expired"
               [] s = "CANCELLED" -> "cancelled" [] OTHER -> "refunded"]
  BY DEF LedgerState, Changes, TypeOK, Statuses
<1>3. /\ status[o] = "PENDING" => LedgerState[o] = "held"
      /\ status[o] = "EXPIRED" => LedgerState[o] = "expired"
      /\ status[o] = "CANCELLED" => LedgerState[o] = "cancelled"
  BY DEF LedgerState
<1> QED
  BY <1>1, <1>2, <1>3
  DEF Ledger!Sell, Ledger!Expire, Ledger!Cancel, Ledger!Refund, Ledger!RefundCancelled,
      Ledger!Moves, Entry, Charged, Released

\* A click that tells the provider to settle is the ledger's Charge.
LEMMA ClickCharges ==
  ASSUME TypeOK, NEW o \in Requests, NEW k \in {"settlement", "failed"}, Click(o, k)
  PROVE  [Ledger!Next]_(Ledger!vars)
<1>1. LedgerState' = LedgerState /\ Entry' = Entry
  BY DEF Click, dbVars, callVars, LedgerState, Entry
<1>2. sent' = sent \cup {[order |-> o, kind |-> k]}
  BY DEF Click
<1>3. CASE k = "settlement"
  <2>1. Charged' = Charged \cup {o}
    BY <1>2, <1>3 DEF Charged
  <2>2. LedgerState[o] = "held"
    BY DEF Click, LedgerState
  <2>3. Ledger!Charge(o)
    BY <1>1, <2>1, <2>2 DEF Ledger!Charge, Entry, Charged
  <2> QED
    BY <2>3 DEF Ledger!Next
<1>4. CASE k = "failed"
  <2>1. Charged' = Charged
    BY <1>2, <1>4 DEF Charged
  <2> QED
    BY <1>1, <2>1 DEF Ledger!vars, Entry, Charged
<1> QED
  BY <1>3, <1>4

\* Whatever a process does, the ledger takes one step or none.
LEMMA LedgerStep ==
  ASSUME IInv, ChargeKnown, [Next]_vars
  PROVE  [Ledger!Next]_(Ledger!vars)
<1>1. TypeOK /\ DbCases
  BY DbStepCases DEF IInv
<1>2. CASE \E o \in Requests, k \in {"settlement", "failed"} : Click(o, k)
  BY <1>1, <1>2, ClickCharges
<1>3. CASE sent' = sent
  <2>1. CASE Still
    <3>1. LedgerState' = LedgerState /\ Entry' = Entry /\ Charged' = Charged
      BY <1>3, <2>1 DEF Still, dbVars, LedgerState, Entry, Charged
    <3> QED
      BY <3>1 DEF Ledger!vars, Entry, Charged
  <2>2. ASSUME NEW o \in Requests, Inserts(o) PROVE Ledger!Next
    BY <1>3, <2>2, InsertHolds DEF Ledger!Next
  <2>3. ASSUME NEW o \in Requests, Releases(o) PROVE Ledger!Next
    <3>1. PICK s \in Released : Changes(o, s)
      BY <2>3 DEF Releases, Changes
    <3>2. status[o] = "PENDING" /\ s \in Statuses /\ s # "NONE"
      BY <2>3 DEF Releases, Released, Statuses
    <3>3. Ledger!Expire(o) \/ Ledger!Cancel(o)
      BY <1>1, <1>3, <3>1, <3>2, MoveMoves
    <3> QED
      BY <3>3 DEF Ledger!Next
  <2>4. ASSUME NEW o \in Requests, Pays(o) PROVE Ledger!Next
    <3>1. Changes(o, "PAID") /\ status[o] = "PENDING" /\ "PAID" \in Statuses
      BY <2>4 DEF Pays, Changes, Statuses
    <3>2. Ledger!Sell(o)
      BY <1>1, <1>3, <2>4, <3>1, ChargedFirst, MoveMoves
    <3> QED
      BY <3>2 DEF Ledger!Next
  <2>5. ASSUME NEW o \in Requests, Refunds(o) PROVE Ledger!Next
    <3>1. /\ Changes(o, "REFUNDED") /\ status[o] \in Released
          /\ "REFUNDED" \in Statuses /\ status[o] # "NONE"
      BY <2>5 DEF Refunds, Changes, Statuses, Released
    <3>2. Ledger!Refund(o) \/ Ledger!RefundCancelled(o)
      BY <1>1, <1>3, <2>5, <3>1, ChargedFirst, MoveMoves
    <3> QED
      BY <3>2 DEF Ledger!Next
  <2> QED
    BY <1>1, <2>1, <2>2, <2>3, <2>4, <2>5 DEF DbCases
<1> QED
  BY <1>2, <1>3, SentGrows

\* The orders behave as TicketLedger says, for any number of calls, handlers and
\* workers and under every fault: counters, conditional updates, the lock per account
\* and the unique index together amount to the promise made to buyers, and only what
\* was charged is sold or refunded.
THEOREM PromiseKept == Spec => KeepsThePromise
<1>1. Init => Ledger!Init /\ ChargeKnown
  <2> SUFFICES ASSUME Init PROVE Ledger!Init /\ ChargeKnown
    OBVIOUS
  <2>1. \A o \in Requests : status[o] = "NONE"
    BY DEF Init
  <2>2. LedgerState = [o \in Requests |-> "none"]
    BY <2>1 DEF LedgerState
  <2>3. Entry = [o \in Requests |-> Ledger!None]
    BY <2>1 DEF Entry, Ledger!None
  <2>4. Charged = {}
    BY DEF Init, Charged
  <2>5. Ledger!Init
    BY <2>2, <2>3, <2>4 DEF Ledger!Init, Entry, Charged
  <2>6. ChargeKnown
    BY DEF Init, ChargeKnown, OnSettlement, Idle
  <2> QED
    BY <2>5, <2>6
<1>2. IInv /\ ChargeKnown /\ [Next]_vars => [Ledger!Next]_(Ledger!vars)
  BY LedgerStep
<1>3. IInv /\ ChargeKnown /\ [Next]_vars => ChargeKnown'
  BY ChargeNext DEF IInv
<1> QED
  BY <1>1, <1>2, <1>3, SpecIInv, PTL DEF Spec, Ledger!Spec, KeepsThePromise

-----------------------------------------------------------------------------
(* Custody: who has the units that are out of Redis *)

Gives(a, o) == task[a].step = "giveBack" /\ task[a].order = o
SameGives   == \A a \in Actors, o \in Requests : Gives(a, o)' <=> Gives(a, o)

\* Points of a call that has no row, and those where it has units in hand.
Early  == {"unsent", "lookup", "reserve", "insert", "undo"}
InHand == {"insert", "undo"}

\* Units are in one place at a time: with a call that has no row, with an order on
\* hold or paid, with the one actor that won its release, or leaked by a crash; and
\* none is out for a category whose stock Redis does not have.
Custody ==
  /\ \A r \in Requests : at[r] \in Early => status[r] = "NONE" /\ r \notin leaked
  /\ \A r \in leaked : ~Holds(r)
  /\ \A a \in Actors, o \in Requests :
       Gives(a, o) => status[o] \in Released \cup {"REFUNDED"} /\ o \notin leaked
  /\ \A a, b \in Actors, o \in Requests : Gives(a, o) /\ Gives(b, o) => a = b
  /\ \A r \in Requests : HoldsStock(r) => ask[r].cat \in present

\* The ways in which units change hands, or stay where they are.
Quiet == UNCHANGED <<at, ask, status, leaked, redisVars>> /\ SameGives

Walks(r) ==
  /\ \E p \in Points : /\ at' = [at EXCEPT ![r] = p]
                       /\ p \in Early => at[r] \in Early
                       /\ p \in InHand <=> at[r] \in InHand
  /\ at[r] # "unsent" => ask' = ask
  /\ \A q \in Requests \ {r} : ask'[q] = ask[q]
  /\ UNCHANGED <<status, leaked, redisVars>> /\ SameGives

Takes(r) ==
  /\ at[r] = "reserve" /\ ask[r].cat \in present
  /\ ~OverLimitInRedis(r) /\ ~ShortInRedis(r) /\ TakeFromRedis(r)
  /\ at' = [at EXCEPT ![r] = "insert"]
  /\ UNCHANGED <<ask, status, leaked>> /\ SameGives

Writes(r) ==
  /\ at[r] = "insert"
  /\ at' = [at EXCEPT ![r] = "readBack"]
  /\ status' = [status EXCEPT ![r] = "PENDING"]
  /\ UNCHANGED <<ask, leaked, redisVars>> /\ SameGives

PutsBack(r) ==
  /\ at[r] = "undo"
  /\ \E p \in {"done", "twin"} : at' = [at EXCEPT ![r] = p]
  /\ ReturnToRedis(r)
  /\ UNCHANGED <<ask, status, leaked>> /\ SameGives

Dies(r) ==
  /\ at[r] \in InHand
  /\ at' = [at EXCEPT ![r] = "crashed"]
  /\ leaked' = leaked \cup {r}
  /\ UNCHANGED <<ask, status, redisVars>> /\ SameGives

Finishes(o) ==
  /\ \/ status[o] = "PENDING" /\ status' = [status EXCEPT ![o] = "PAID"]
     \/ status[o] \in Released /\ status' = [status EXCEPT ![o] = "REFUNDED"]
  /\ UNCHANGED <<at, ask, leaked, redisVars>> /\ SameGives

Wins(a, o) ==
  /\ status[o] = "PENDING"
  /\ \E s \in Released : status' = [status EXCEPT ![o] = s]
  /\ \A b \in Actors, p \in Requests : Gives(b, p)' <=> Gives(b, p) \/ (b = a /\ p = o)
  /\ \A p \in Requests : ~Gives(a, p)
  /\ UNCHANGED <<at, ask, leaked, redisVars>>

Drops(a, o) ==
  /\ Gives(a, o)
  /\ \A b \in Actors, p \in Requests : Gives(b, p)' <=> Gives(b, p) /\ b # a

GivesBack(a, o) == Drops(a, o) /\ ReturnToRedis(o) /\ UNCHANGED <<at, ask, status, leaked>>

Forgets(a, o) ==
  /\ Drops(a, o)
  /\ leaked' = leaked \cup {o}
  /\ UNCHANGED <<at, ask, status, redisVars>>

CustodyCases ==
  \/ Quiet
  \/ \E r \in Requests :
       Walks(r) \/ Takes(r) \/ Writes(r) \/ PutsBack(r) \/ Dies(r) \/ Finishes(r)
  \/ \E a \in Actors, o \in Requests : Wins(a, o) \/ GivesBack(a, o) \/ Forgets(a, o)
  \/ \E c \in Categories : SyncStock(c)

\* A task that is replaced by another gives nothing back before or after.
LEMMA OtherTask ==
  ASSUME TypeOK, NEW a \in Actors, NEW t, task' = [task EXCEPT ![a] = t],
         task[a].step # "giveBack", t.step # "giveBack"
  PROVE  SameGives
BY DEF SameGives, Gives, TypeOK

\* antretix_release_order: one caller wins the units, any other changes nothing.
LEMMA ReleaseCustody ==
  ASSUME TypeOK, NEW a \in Actors, NEW o \in Requests, NEW kind, ReleaseOrder(a, o, kind),
         task[a].step # "giveBack", UNCHANGED <<at, ask, leaked, redisVars>>
  PROVE  Quiet \/ Wins(a, o)
<1>1. CASE ~MayRelease(o, kind)
  <2>1. task' = [task EXCEPT ![a] = Idle] /\ Idle.step # "giveBack" /\ status' = status
    BY <1>1 DEF ReleaseOrder, Idle, dbVars
  <2>2. SameGives
    BY <2>1, OtherTask
  <2> QED
    BY <2>1, <2>2 DEF Quiet
<1>2. CASE MayRelease(o, kind)
  <2>1. /\ status[o] = "PENDING"
        /\ \E s \in Released : status' = [status EXCEPT ![o] = s]
        /\ task' = [task EXCEPT ![a] = [step |-> "giveBack", order |-> o,
                                        kind |-> kind, seen |-> "PENDING"]]
    BY <1>2 DEF ReleaseOrder, MayRelease, Released
  <2>2. \A b \in Actors, p \in Requests : Gives(b, p)' <=> Gives(b, p) \/ (b = a /\ p = o)
    BY <2>1 DEF Gives, TypeOK
  <2>3. \A p \in Requests : ~Gives(a, p)
    BY DEF Gives
  <2> QED
    BY <2>1, <2>2, <2>3 DEF Wins
<1> QED
  BY <1>1, <1>2

\* Whatever the step, units stay where they are or change hands in one of these ways,
\* when no committed insert is undone.
LEMMA CustodyStepCases ==
  ASSUME TypeOK, Whereabouts, [Next]_vars, "readBackFails" \notin Faults
  PROVE  CustodyCases
<1>1. ASSUME task' = task PROVE SameGives
  BY <1>1 DEF SameGives, Gives
<1>2. ASSUME NEW r \in Requests,
             Submit(r) \/ Lookup(r) \/ ReadBack(r) \/ FindTwin(r) \/ InsertFails(r)
      PROVE  CustodyCases
  <2>1. Walks(r)
    BY <1>1, <1>2
    DEF Submit, Lookup, ReadBack, FindTwin, InsertFails, Answer, Goes, Fails, Walks, Points,
        Early, InHand, dbVars, outcomeVars, redisVars, TypeOK
  <2> QED
    BY <2>1 DEF CustodyCases
<1>3. ASSUME NEW r \in Requests, Reserve(r) PROVE CustodyCases
  <2>1. Walks(r) \/ Takes(r)
    BY <1>1, <1>3
    DEF Reserve, Refuse, Answer, Goes, Walks, Takes, Points, Early, InHand, dbVars,
        outcomeVars, redisVars
  <2> QED
    BY <2>1 DEF CustodyCases
<1>4. ASSUME NEW r \in Requests, InsertOrder(r) PROVE CustodyCases
  <2>1. Walks(r) \/ Writes(r)
    BY <1>1, <1>4
    DEF InsertOrder, Fails, Goes, Walks, Writes, Points, Early, InHand, dbVars,
        outcomeVars, redisVars
  <2> QED
    BY <2>1 DEF CustodyCases
<1>5. ASSUME NEW r \in Requests, Undo(r) PROVE CustodyCases
  <2>1. PutsBack(r)
    BY <1>1, <1>5 DEF Undo, Goes, PutsBack, dbVars, outcomeVars
  <2> QED
    BY <2>1 DEF CustodyCases
<1>6. ASSUME NEW r \in Requests, CallCrash(r) PROVE CustodyCases
  <2>1. CASE at[r] \in InHand
    <3>1. Dies(r)
      BY <1>1, <1>6, <2>1 DEF CallCrash, Goes, Dies, InHand, dbVars, redisVars
    <3> QED
      BY <3>1 DEF CustodyCases
  <2>2. CASE at[r] \notin InHand
    <3>1. Walks(r)
      BY <1>1, <1>6, <2>2
      DEF CallCrash, Goes, Walks, Points, Early, InHand, dbVars, redisVars
    <3> QED
      BY <3>1 DEF CustodyCases
  <2> QED
    BY <2>1, <2>2
<1>7. ASSUME NEW a \in Actors, GiveBack(a) \/ ActorCrash(a) PROVE CustodyCases
  <2> DEFINE o == task[a].order
  <2>1. task' = [task EXCEPT ![a] = Idle] /\ Idle.step # "giveBack"
    BY <1>7 DEF GiveBack, ActorCrash, Idle
  <2>2. CASE task[a].step = "giveBack"
    <3>1. o \in Requests
      BY <2>2, TaskTyped
    <3>2. Drops(a, o)
      BY <2>1, <2>2 DEF Drops, Gives, TypeOK
    <3>3. GivesBack(a, o) \/ Forgets(a, o)
      BY <1>7, <2>2, <3>2
      DEF GiveBack, ActorCrash, GivesBack, Forgets, dbVars, callVars, outcomeVars, redisVars
    <3> QED
      BY <3>1, <3>3 DEF CustodyCases
  <2>3. CASE task[a].step # "giveBack"
    <3>1. SameGives
      BY <2>1, <2>3, OtherTask
    <3> QED
      BY <1>7, <2>3, <3>1
      DEF GiveBack, ActorCrash, CustodyCases, Quiet, dbVars, callVars, redisVars
  <2> QED
    BY <2>2, <2>3
<1>8. ASSUME NEW h \in Handlers, HandlerRelease(h) PROVE CustodyCases
  <2>1. task[h].order \in Requests /\ h \in Actors
    BY <1>8, TaskTyped DEF HandlerRelease, Actors
  <2> QED
    BY <1>8, <2>1, ReleaseCustody DEF HandlerRelease, CustodyCases, callVars
<1>9. ASSUME NEW w \in Workers, ExpiryRelease(w) PROVE CustodyCases
  <2>1. PICK o \in batch[w] : ReleaseOrder(w, o, "expiry")
    BY <1>9 DEF ExpiryRelease
  <2>2. o \in Requests /\ w \in Actors /\ task[w].step # "giveBack"
    BY <1>9, <2>1 DEF TypeOK, Actors, ExpiryRelease, Idle
  <2> QED
    BY <1>9, <2>1, <2>2, ReleaseCustody DEF ExpiryRelease, CustodyCases, callVars
<1>10. ASSUME NEW h \in Handlers, NEW o, NEW m, CancelRead(h, o) \/ Deliver(h, m)
       PROVE  CustodyCases
  <2> DEFINE t == [step |-> "release", order |-> o, kind |-> "cancel", seen |-> "PENDING"]
             s == [step |-> "read", order |-> m.order, kind |-> m.kind, seen |-> "NONE"]
  <2>1. task' = [task EXCEPT ![h] = t] \/ task' = [task EXCEPT ![h] = s]
    BY <1>10 DEF CancelRead, Deliver
  <2>2. /\ t.step # "giveBack" /\ s.step # "giveBack" /\ h \in Actors
        /\ task[h].step # "giveBack"
    BY <1>10 DEF CancelRead, Deliver, Idle, Actors
  <2>3. SameGives
    BY <2>1, <2>2, OtherTask
  <2> QED
    BY <1>10, <2>3
    DEF CancelRead, Deliver, CustodyCases, Quiet, dbVars, callVars, redisVars, outcomeVars
<1>11. ASSUME NEW h \in Handlers, ReadForPayment(h) \/ Pay(h) \/ Refund(h) \/ Acknowledge(h)
       PROVE  SameGives
  <2>1. task[h].step \in {"read", "pay", "refund", "ack"} /\ h \in Actors
    BY <1>11 DEF ReadForPayment, Pay, PayOr, Refund, Acknowledge, Actors
  <2>2. task[h] \in Tasks
    BY <2>1, TaskTyped
  <2> DEFINE s == status[task[h].order]
  <2>3. PICK p \in {"release", "pay", "refund", "ack", "read"} :
          \/ task' = [task EXCEPT ![h] = [@ EXCEPT !.step = p, !.seen = s]]
          \/ task' = [task EXCEPT ![h] = [@ EXCEPT !.step = p]]
          \/ task' = [task EXCEPT ![h] = Idle]
    <3>1. CASE ReadForPayment(h)
      BY <3>1, <2>1 DEF ReadForPayment, TypeOK
    <3>2. CASE Pay(h) \/ Refund(h)
      BY <3>2, <2>1 DEF Pay, PayOr, Refund, TypeOK
    <3>3. CASE Acknowledge(h)
      BY <3>3 DEF Acknowledge
    <3> QED
      BY <1>11, <3>1, <3>2, <3>3
  <2>4. /\ [task[h] EXCEPT !.step = p, !.seen = s].step # "giveBack"
        /\ [task[h] EXCEPT !.step = p].step # "giveBack"
        /\ Idle.step # "giveBack"
    BY <2>2 DEF Tasks, Idle
  <2> QED
    BY <2>1, <2>3, <2>4, OtherTask
<1>12. ASSUME NEW h \in Handlers, ReadForPayment(h) \/ Acknowledge(h) PROVE CustodyCases
  BY <1>11, <1>12
  DEF ReadForPayment, Acknowledge, CustodyCases, Quiet, dbVars, callVars, redisVars, outcomeVars
<1>13. ASSUME NEW h \in Handlers, Pay(h) \/ Refund(h) PROVE CustodyCases
  <2> DEFINE o == task[h].order
  <2>1. o \in Requests /\ (task[h].step = "refund" => task[h].seen \in Released)
    BY <1>13, TaskTyped DEF Pay, PayOr, Refund, Actors, Whereabouts, RefundSeen
  <2>2. Quiet \/ Finishes(o)
    BY <1>11, <1>13, <2>1
    DEF Pay, PayOr, Payable, Refund, Quiet, Finishes, dbVars, callVars, outcomeVars
  <2> QED
    BY <2>1, <2>2 DEF CustodyCases
<1>14. ASSUME UNCHANGED <<at, ask, status, leaked, redisVars, task>> PROVE CustodyCases
  BY <1>1, <1>14 DEF CustodyCases, Quiet
<1>15. ASSUME NEW c \in Categories, SyncStock(c) PROVE CustodyCases
  BY <1>15 DEF CustodyCases
<1> QED
  BY <1>2, <1>3, <1>4, <1>5, <1>6, <1>7, <1>8, <1>9, <1>10, <1>12, <1>13, <1>14, <1>15
  DEF Next, Client, CallStep, HandlerStep, WorkerStep, Fault, vars, dbVars, callVars,
      redisVars, outcomeVars, Actors, Click, HoldElapses, ExpirySelect, ReadBackFails

\* Where the units of an order are, told with Gives.
HasUnits(r) == r \in leaked \/ at[r] \in InHand \/ Holds(r) \/ \E a \in Actors : Gives(a, r)

LEMMA UnitsPlace ==
  /\ \A r : HoldsStock(r) <=> HasUnits(r)
  /\ \A r : HoldsStock(r)' <=> HasUnits(r)'
BY DEF HoldsStock, HasUnits, InHand, Returning, Gives

\* A step that moves no units.
Steady ==
  /\ \A p \in Requests : HoldsStock(p)' <=> HoldsStock(p)
  /\ \A p \in Requests : HoldsStock(p) => ask'[p] = ask[p]
  /\ UNCHANGED redisVars

\* A reservation and a return, seen from Redis.
TakesUnits(r) ==
  /\ ~HoldsStock(r) /\ HoldsStock(r)'
  /\ \A p \in Requests \ {r} : HoldsStock(p)' <=> HoldsStock(p)
  /\ ask[r].cat \in present /\ ~OverLimitInRedis(r) /\ ~ShortInRedis(r)
  /\ TakeFromRedis(r)
  /\ UNCHANGED ask

ReturnsUnits(r) ==
  /\ HoldsStock(r) /\ ~HoldsStock(r)'
  /\ \A p \in Requests \ {r} : HoldsStock(p)' <=> HoldsStock(p)
  /\ ReturnToRedis(r)
  /\ UNCHANGED ask

Syncs(c) ==
  /\ \A p \in Requests : HoldsStock(p)' <=> HoldsStock(p)
  /\ UNCHANGED ask
  /\ SyncStock(c)

UnitCases ==
  \/ Steady
  \/ \E r \in Requests : TakesUnits(r) \/ ReturnsUnits(r)
  \/ \E c \in Categories : Syncs(c)

\* Redis counts one reservation or one return at a time, and each belongs to a request
\* that has its units for the first time, or no longer.
LEMMA UnitStepCases ==
  ASSUME TypeOK, Whereabouts, Custody, CustodyCases
  PROVE  UnitCases
<1> USE DEF TypeOK, Custody, HasUnits, Holds, InHand, Early
<1>1. CASE Quiet
  <2>1. Steady
    BY <1>1, UnitsPlace DEF Quiet, SameGives, Steady
  <2> QED
    BY <2>1 DEF UnitCases
<1>2. ASSUME NEW r \in Requests, Walks(r) PROVE UnitCases
  <2>1. \A p \in Requests : HasUnits(p)' <=> HasUnits(p)
    BY <1>2 DEF Walks, SameGives
  <2>2. at[r] = "unsent" => ~HasUnits(r)
    BY DEF Released
  <2>3. Steady
    BY <1>2, <2>1, <2>2, UnitsPlace DEF Walks, Steady
  <2> QED
    BY <2>3 DEF UnitCases
<1>3. ASSUME NEW r \in Requests, Takes(r) PROVE UnitCases
  <2>1. ~HasUnits(r) /\ HasUnits(r)'
    BY <1>3 DEF Takes, Released
  <2>2. \A p \in Requests \ {r} : HasUnits(p)' <=> HasUnits(p)
    BY <1>3 DEF Takes, SameGives
  <2>3. TakesUnits(r)
    BY <1>3, <2>1, <2>2, UnitsPlace DEF Takes, TakesUnits
  <2> QED
    BY <2>3 DEF UnitCases
<1>4. ASSUME NEW r \in Requests, Writes(r) \/ Dies(r) PROVE UnitCases
  <2>1. \A p \in Requests : HasUnits(p)' <=> HasUnits(p)
    BY <1>4 DEF Writes, Dies, SameGives
  <2>2. Steady
    BY <1>4, <2>1, UnitsPlace DEF Writes, Dies, Steady
  <2> QED
    BY <2>2 DEF UnitCases
<1>5. ASSUME NEW r \in Requests, PutsBack(r) PROVE UnitCases
  <2>1. HasUnits(r) /\ ~HasUnits(r)'
    BY <1>5 DEF PutsBack, SameGives, Released
  <2>2. \A p \in Requests \ {r} : HasUnits(p)' <=> HasUnits(p)
    BY <1>5 DEF PutsBack, SameGives
  <2>3. ReturnsUnits(r)
    BY <1>5, <2>1, <2>2, UnitsPlace DEF PutsBack, ReturnsUnits
  <2> QED
    BY <2>3 DEF UnitCases
<1>6. ASSUME NEW o \in Requests, Finishes(o) PROVE UnitCases
  <2>1. \A p \in Requests : HasUnits(p)' <=> HasUnits(p)
    BY <1>6 DEF Finishes, SameGives, Released
  <2>2. Steady
    BY <1>6, <2>1, UnitsPlace DEF Finishes, Steady
  <2> QED
    BY <2>2 DEF UnitCases
<1>7. ASSUME NEW a \in Actors, NEW o \in Requests, Wins(a, o) PROVE UnitCases
  <2>1. \A p \in Requests : HasUnits(p)' <=> HasUnits(p)
    BY <1>7 DEF Wins, Released
  <2>2. Steady
    BY <1>7, <2>1, UnitsPlace DEF Wins, Steady
  <2> QED
    BY <2>2 DEF UnitCases
<1>8. ASSUME NEW a \in Actors, NEW o \in Requests, GivesBack(a, o) PROVE UnitCases
  <2>1. HasUnits(o) /\ ~HasUnits(o)'
    BY <1>8 DEF GivesBack, Drops, Released
  <2>2. \A p \in Requests \ {o} : HasUnits(p)' <=> HasUnits(p)
    BY <1>8 DEF GivesBack, Drops, Gives
  <2>3. ReturnsUnits(o)
    BY <1>8, <2>1, <2>2, UnitsPlace DEF GivesBack, ReturnsUnits
  <2> QED
    BY <2>3 DEF UnitCases
<1>9. ASSUME NEW a \in Actors, NEW o \in Requests, Forgets(a, o) PROVE UnitCases
  <2>1. \A p \in Requests : HasUnits(p)' <=> HasUnits(p)
    BY <1>9 DEF Forgets, Drops, Gives
  <2>2. Steady
    BY <1>9, <2>1, UnitsPlace DEF Forgets, Steady
  <2> QED
    BY <2>2 DEF UnitCases
<1>10. ASSUME NEW c \in Categories, SyncStock(c) PROVE UnitCases
  <2>1. UNCHANGED <<at, ask, status, leaked, task>>
    BY <1>10 DEF SyncStock, callVars, dbVars, outcomeVars
  <2>2. \A p \in Requests : HasUnits(p)' <=> HasUnits(p)
    BY <2>1 DEF Gives
  <2> QED
    BY <1>10, <2>1, <2>2, UnitsPlace DEF Syncs, UnitCases
<1> QED
  BY <1>1, <1>2, <1>3, <1>4, <1>5, <1>6, <1>7, <1>8, <1>9, <1>10 DEF CustodyCases

\* The units of a request are with one party at a time, whatever the step.
LEMMA CustodyKept ==
  ASSUME TypeOK, TypeOK', Whereabouts, Custody, CustodyCases, UnitCases
  PROVE  Custody'
<1> DEFINE Calls  == \A r \in Requests : at[r] \in Early => status[r] = "NONE" /\ r \notin leaked
           Leaks  == \A r \in leaked : ~Holds(r)
           Givers == \A a \in Actors, o \in Requests :
                       Gives(a, o) => status[o] \in Released \cup {"REFUNDED"} /\ o \notin leaked
           Alone  == \A a, b \in Actors, o \in Requests : Gives(a, o) /\ Gives(b, o) => a = b
           Listed == \A r \in Requests : HoldsStock(r) => ask[r].cat \in present
           Kept   == Calls' /\ Leaks' /\ Givers' /\ Alone'
<1>1. Calls /\ Leaks /\ Givers /\ Alone /\ Listed
  BY DEF Custody
<1>2. Listed'
  <2>1. CASE Steady
    BY <1>1, <2>1 DEF Steady, redisVars
  <2>2. ASSUME NEW r \in Requests, TakesUnits(r) PROVE Listed'
    BY <1>1, <2>2 DEF TakesUnits, TakeFromRedis
  <2>3. ASSUME NEW r \in Requests, ReturnsUnits(r) PROVE Listed'
    BY <1>1, <2>3 DEF ReturnsUnits, ReturnToRedis
  <2>4. ASSUME NEW c \in Categories, Syncs(c) PROVE Listed'
    BY <1>1, <2>4 DEF Syncs, SyncStock
  <2> QED
    BY <2>1, <2>2, <2>3, <2>4 DEF UnitCases
<1> HIDE DEF Listed
<1> USE <1>1 DEF TypeOK, Holds, Early, InHand, Released
<1>3. ASSUME Quiet PROVE Kept
  BY <1>3 DEF Quiet, SameGives
<1>4. ASSUME NEW r \in Requests, Walks(r) PROVE Kept
  BY <1>4 DEF Walks, SameGives
<1>5. ASSUME NEW r \in Requests, Takes(r) PROVE Kept
  BY <1>5 DEF Takes, SameGives
<1>6. ASSUME NEW r \in Requests, Writes(r) PROVE Kept
  BY <1>6 DEF Writes, SameGives
<1>7. ASSUME NEW r \in Requests, PutsBack(r) PROVE Kept
  BY <1>7 DEF PutsBack, SameGives
<1>8. ASSUME NEW r \in Requests, Dies(r) PROVE Kept
  BY <1>8 DEF Dies, SameGives
<1>9. ASSUME NEW o \in Requests, Finishes(o) PROVE Kept
  BY <1>9 DEF Finishes, SameGives
<1>10. ASSUME NEW a \in Actors, NEW o \in Requests, Wins(a, o) PROVE Kept
  BY <1>10 DEF Wins
<1>11. ASSUME NEW a \in Actors, NEW o \in Requests, GivesBack(a, o) PROVE Kept
  BY <1>11 DEF GivesBack, Drops
<1>12. ASSUME NEW a \in Actors, NEW o \in Requests, Forgets(a, o) PROVE Kept
  BY <1>12 DEF Forgets, Drops
<1>13. ASSUME NEW c \in Categories, SyncStock(c) PROVE Kept
  <2>1. UNCHANGED <<at, status, leaked, task>>
    BY <1>13 DEF SyncStock, callVars, dbVars, outcomeVars
  <2> QED
    BY <2>1 DEF Gives
<1>14. Kept
  BY <1>3, <1>4, <1>5, <1>6, <1>7, <1>8, <1>9, <1>10, <1>11, <1>12, <1>13 DEF CustodyCases
<1> QED
  BY <1>2, <1>14 DEF Custody, Listed

-----------------------------------------------------------------------------
(* What Redis has counted *)

CatTaken(c)  == Cardinality(Units(InCategory(c, Taken)))
UserTaken(u) == Cardinality(Units(OfUser(u, Taken)))

\* Redis lets through no more than the quota and the limit.
Filter ==
  /\ \A c \in present : stock[c] >= 0
  /\ \A u \in Users : bought[u] <= MaxPerUser

Out == [r \in Requests |-> IF HoldsStock(r) THEN "out" ELSE "in"]

\* The counts of Redis are loads, like those of the rows.
LEMMA TakenLoads ==
  /\ \A c : CatTaken(c) = Load(Out, ask, {"out"}, OfCat(c))
  /\ \A u : UserTaken(u) = Load(Out, ask, {"out"}, Of(u))
  /\ \A c : CatTaken(c)' = Load(Out', ask', {"out"}, OfCat(c)')
  /\ \A u : UserTaken(u)' = Load(Out', ask', {"out"}, Of(u)')
<1>1. \A X \in SUBSET Requests : {r \in X : Out[r] \in {"out"}} = {r \in X : HoldsStock(r)}
  BY DEF Out
<1>2. \A X \in SUBSET Requests : {r \in X : Out'[r] \in {"out"}} = {r \in X : HoldsStock(r)'}
  BY DEF Out
<1>3. \A c : /\ InCategory(c, Taken) = {r \in OfCat(c) : HoldsStock(r)}
             /\ OfCat(c) \in SUBSET Requests /\ OfCat(c)' \in SUBSET Requests
             /\ InCategory(c, Taken)' = {r \in OfCat(c)' : HoldsStock(r)'}
  BY DEF InCategory, Taken, OfCat
<1>4. \A u : /\ OfUser(u, Taken) = {r \in Of(u) : HoldsStock(r)}
             /\ Of(u) \in SUBSET Requests /\ Of(u)' \in SUBSET Requests
             /\ OfUser(u, Taken)' = {r \in Of(u)' : HoldsStock(r)'}
  BY DEF OfUser, Taken, Of
<1> QED
  BY <1>1, <1>2, <1>3, <1>4 DEF CatTaken, UserTaken, Load, Units

\* The counts are natural numbers.
LEMMA TakenTypes ==
  ASSUME ask \in [Requests -> Asks]
  PROVE  (\A c : CatTaken(c) \in Nat) /\ (\A u : UserTaken(u) \in Nat)
<1>1. \A c : InCategory(c, Taken) \in SUBSET Requests /\ OfUser(c, Taken) \in SUBSET Requests
  BY DEF InCategory, OfUser, Taken
<1> QED
  BY <1>1, UnitsFinite DEF CatTaken, UserTaken, Units

\* A step that moves no units leaves the counts alone, though an ask may change.
LEMMA SteadyCounts ==
  ASSUME \A p \in Requests : HoldsStock(p)' <=> HoldsStock(p),
         \A p \in Requests : HoldsStock(p) => ask'[p] = ask[p]
  PROVE  /\ \A c : CatTaken(c)' = CatTaken(c)
         /\ \A u : UserTaken(u)' = UserTaken(u)
<1>1. ASSUME NEW X \in SUBSET Taken PROVE UnitsOf(X, ask') = UnitsOf(X, ask)
  <2>1. \A p \in X : ask'[p] = ask[p]
    BY DEF Taken
  <2> QED
    BY <2>1, UnitsCongruence
<1>2. \A c : InCategory(c, Taken)' = InCategory(c, Taken)
  BY DEF InCategory, Taken
<1>3. \A u : OfUser(u, Taken)' = OfUser(u, Taken)
  BY DEF OfUser, Taken
<1>4. \A c : InCategory(c, Taken) \in SUBSET Taken /\ OfUser(c, Taken) \in SUBSET Taken
  BY DEF InCategory, OfUser
<1> QED
  BY <1>1, <1>2, <1>3, <1>4 DEF CatTaken, UserTaken, Units

\* A request that takes its units adds its quantity to its category's count and to its
\* account's, one that returns them subtracts it, and no other count moves.
LEMMA MovedCounts ==
  ASSUME TypeOK, NEW r \in Requests, UNCHANGED ask,
         HoldsStock(r)' <=> ~HoldsStock(r),
         \A p \in Requests \ {r} : HoldsStock(p)' <=> HoldsStock(p),
         NEW c0, c0 = ask[r].cat, NEW u0, u0 = ask[r].user
  PROVE  /\ HoldsStock(r)' => /\ CatTaken(c0)' = CatTaken(c0) + ask[r].qty
                              /\ UserTaken(u0)' = UserTaken(u0) + ask[r].qty
         /\ HoldsStock(r) => /\ CatTaken(c0)' = CatTaken(c0) - ask[r].qty
                             /\ UserTaken(u0)' = UserTaken(u0) - ask[r].qty
         /\ \A c : c # c0 => CatTaken(c)' = CatTaken(c)
         /\ \A u : u # u0 => UserTaken(u)' = UserTaken(u)
<1> DEFINE L(m, X) == Load(m, ask, {"out"}, X)
<1>1. \A p \in Requests : /\ Out[p] = (IF HoldsStock(p) THEN "out" ELSE "in")
                          /\ Out'[p] = (IF HoldsStock(p)' THEN "out" ELSE "in")
  BY DEF Out
<1>2. \A p \in Requests \ {r} : Out'[p] = Out[p]
  BY <1>1
<1>3. ask \in [Requests -> Asks]
  BY DEF TypeOK
<1>4. ASSUME NEW X \in SUBSET Requests, r \in X
      PROVE  /\ HoldsStock(r)' => L(Out', X) = L(Out, X) + ask[r].qty
             /\ HoldsStock(r) => L(Out', X) = L(Out, X) - ask[r].qty
  <2>1. \A p \in X \ {r} : Out'[p] = Out[p]
    BY <1>2
  <2>2. CASE HoldsStock(r)'
    <3>1. Out[r] \notin {"out"} /\ Out'[r] \in {"out"} /\ ~HoldsStock(r)
      BY <1>1, <2>2
    <3>2. Load(Out', ask, {"out"}, X) = Load(Out, ask, {"out"}, X) + ask[r].qty
      BY <1>3, <1>4, <2>1, <3>1, LoadEnters, SMTT(60)
    <3> QED
      BY <3>1, <3>2
  <2>3. CASE HoldsStock(r)
    <3>1. Out[r] \in {"out"} /\ Out'[r] \notin {"out"} /\ ~HoldsStock(r)'
      BY <1>1, <2>3
    <3>2. Load(Out', ask, {"out"}, X) = Load(Out, ask, {"out"}, X) - ask[r].qty
      BY <1>3, <1>4, <2>1, <3>1, LoadLeaves, SMTT(60)
    <3> QED
      BY <3>1, <3>2
  <2> QED
    BY <2>2, <2>3
<1>5. ASSUME NEW X \in SUBSET Requests, r \notin X PROVE L(Out', X) = L(Out, X)
  <2>1. \A p \in X : Out'[p] \in {"out"} <=> Out[p] \in {"out"}
    BY <1>2, <1>5
  <2> QED
    BY <2>1, LoadStays
<1>6. \A c : /\ OfCat(c)' = OfCat(c) /\ OfCat(c) \in SUBSET Requests
             /\ r \in OfCat(c) <=> c = c0
  BY DEF OfCat
<1>7. \A u : /\ Of(u)' = Of(u) /\ Of(u) \in SUBSET Requests
             /\ r \in Of(u) <=> u = u0
  BY DEF Of
<1>8. /\ \A c : CatTaken(c) = L(Out, OfCat(c)) /\ CatTaken(c)' = L(Out', OfCat(c))
      /\ \A u : UserTaken(u) = L(Out, Of(u)) /\ UserTaken(u)' = L(Out', Of(u))
  BY <1>6, <1>7, TakenLoads
<1> HIDE DEF L
<1> QED
  BY <1>4, <1>5, <1>6, <1>7, <1>8

\* reserve.lua takes what it counts.
LEMMA TakeCounts ==
  ASSUME TypeOK, RedisLedger, Filter, NEW r \in Requests, TakesUnits(r)
  PROVE  RedisLedger' /\ Filter'
<1> PICK c0, u0, q : c0 = ask[r].cat /\ u0 = ask[r].user /\ q = ask[r].qty
  OBVIOUS
<1>1. q \in Nat /\ u0 \in Users /\ c0 \in present /\ present \subseteq Categories
  BY AskType DEF TakesUnits, TypeOK
<1>2. /\ CatTaken(c0)' = CatTaken(c0) + q /\ \A c : c # c0 => CatTaken(c)' = CatTaken(c)
      /\ UserTaken(u0)' = UserTaken(u0) + q /\ \A u : u # u0 => UserTaken(u)' = UserTaken(u)
  BY MovedCounts DEF TakesUnits
<1>3. /\ \A c : CatTaken(c) \in Nat
      /\ \A u : UserTaken(u) \in Nat
  BY TakenTypes DEF TypeOK
<1>4. /\ \A c \in present : stock[c] \in Int /\ Quota[c] \in Nat
      /\ \A u \in Users : bought[u] \in Nat
      /\ MaxPerUser \in Nat
  BY <1>1, LimitsAssumption DEF TypeOK
<1>5. /\ present' = present
      /\ \A c \in present : stock'[c] = IF c = c0 THEN stock[c] - q ELSE stock[c]
      /\ \A u \in Users : bought'[u] = IF u = u0 THEN bought[u] + q ELSE bought[u]
      /\ stock[c0] >= q /\ bought[u0] + q <= MaxPerUser
  BY <1>1, <1>4 DEF TakesUnits, TakeFromRedis, ShortInRedis, OverLimitInRedis, TypeOK
<1>6. /\ \A c \in present : stock[c] = Quota[c] - CatTaken(c)
      /\ \A u \in Users : bought[u] = UserTaken(u)
  BY DEF RedisLedger, CatTaken, UserTaken
<1>7. \A c \in present' : stock'[c] = Quota[c] - CatTaken(c)'
  BY <1>1, <1>2, <1>3, <1>4, <1>5, <1>6
<1>8. \A u \in Users : bought'[u] = UserTaken(u)'
  BY <1>1, <1>2, <1>3, <1>4, <1>5, <1>6
<1>9. Filter'
  BY <1>1, <1>4, <1>5 DEF Filter
<1> QED
  BY <1>7, <1>8, <1>9 DEF RedisLedger, CatTaken, UserTaken

\* release.lua returns what was counted: the floor of bought never acts.
LEMMA ReturnCounts ==
  ASSUME TypeOK, Custody, RedisLedger, Filter, NEW r \in Requests, ReturnsUnits(r)
  PROVE  RedisLedger' /\ Filter'
<1> PICK c0, u0, q : c0 = ask[r].cat /\ u0 = ask[r].user /\ q = ask[r].qty
  OBVIOUS
<1>1. q \in Nat /\ u0 \in Users /\ c0 \in present /\ present \subseteq Categories
  BY AskType DEF ReturnsUnits, TypeOK, Custody
<1>2. /\ CatTaken(c0)' = CatTaken(c0) - q /\ \A c : c # c0 => CatTaken(c)' = CatTaken(c)
      /\ UserTaken(u0)' = UserTaken(u0) - q /\ \A u : u # u0 => UserTaken(u)' = UserTaken(u)
  BY MovedCounts DEF ReturnsUnits
<1>3. /\ \A c : CatTaken(c) \in Nat
      /\ \A u : UserTaken(u) \in Nat /\ UserTaken(u)' \in Nat
  <2>1. (ask \in [Requests -> Asks]) /\ ask' = ask
    BY DEF TypeOK, ReturnsUnits
  <2>2. \A u : OfUser(u, Taken)' \in SUBSET Requests
    BY DEF OfUser, Taken
  <2>3. \A u : UserTaken(u)' \in Nat
    BY <2>1, <2>2, UnitsFinite DEF UserTaken, Units
  <2> QED
    BY <2>1, <2>3, TakenTypes
<1>4. /\ \A c \in present : stock[c] \in Int /\ Quota[c] \in Nat
      /\ \A u \in Users : bought[u] \in Nat
      /\ MaxPerUser \in Nat
  BY <1>1, LimitsAssumption DEF TypeOK
<1>5. /\ present' = present
      /\ \A c \in present : stock'[c] = IF c = c0 THEN stock[c] + q ELSE stock[c]
      /\ \A u \in Users \ {u0} : bought'[u] = bought[u]
      /\ bought'[u0] = IF bought[u0] - q <= 0 THEN 0 ELSE bought[u0] - q
  BY <1>1 DEF ReturnsUnits, ReturnToRedis, TypeOK
<1>6. /\ \A c \in present : stock[c] = Quota[c] - CatTaken(c)
      /\ \A u \in Users : bought[u] = UserTaken(u)
  BY DEF RedisLedger, CatTaken, UserTaken
<1>7. \A c \in present' : stock'[c] = Quota[c] - CatTaken(c)'
  <2>1. stock'[c0] = Quota[c0] - CatTaken(c0)'
    BY <1>1, <1>2, <1>3, <1>4, <1>5, <1>6
  <2>2. \A c \in present \ {c0} : stock'[c] = Quota[c] - CatTaken(c)'
    BY <1>2, <1>5, <1>6
  <2> QED
    BY <1>5, <2>1, <2>2
<1>8. bought'[u0] = bought[u0] - q
  BY <1>1, <1>2, <1>3, <1>4, <1>5, <1>6
<1>9. \A u \in Users : bought'[u] = UserTaken(u)'
  BY <1>1, <1>2, <1>5, <1>6, <1>8
<1>10. Filter'
  BY <1>1, <1>4, <1>5, <1>8 DEF Filter
<1> QED
  BY <1>7, <1>9, <1>10 DEF RedisLedger, CatTaken, UserTaken

\* When syncEventToRedis seeds a category, none of its tickets is out.
LEMMA SyncCounts ==
  ASSUME TypeOK, QuotaLedger, Custody, RedisLedger, Filter, NEW c0 \in Categories, Syncs(c0)
  PROVE  RedisLedger' /\ Filter'
<1>1. c0 \notin present
  BY DEF Syncs, SyncStock
<1>2. InCategory(c0, Taken) = {}
  BY <1>1 DEF InCategory, Taken, Custody
<1>3. Cardinality(Units({})) = 0
  BY FS_EmptySet DEF Units, UnitsOf
<1>4. reserved[c0] = 0 /\ sold[c0] = 0
  <2>1. /\ InCategory(c0, WithStatus({"PENDING"})) = {}
        /\ InCategory(c0, WithStatus({"PAID"})) = {}
    BY <1>2 DEF InCategory, WithStatus, Taken, HoldsStock, Holds
  <2> QED
    BY <1>3, <2>1 DEF QuotaLedger
<1>5. CatTaken(c0) = 0
  BY <1>2, <1>3 DEF CatTaken
<1>6. /\ \A c : CatTaken(c)' = CatTaken(c)
      /\ \A u : UserTaken(u)' = UserTaken(u)
  BY SteadyCounts DEF Syncs
<1>7. Quota[c0] \in Nat
  BY LimitsAssumption
<1>8. /\ present' = present \cup {c0} /\ bought' = bought
      /\ stock'[c0] = Quota[c0]
      /\ \A c \in present : stock'[c] = stock[c]
  BY <1>1, <1>4, <1>7 DEF Syncs, SyncStock, TypeOK
<1>9. /\ \A c \in present : stock[c] = Quota[c] - CatTaken(c)
      /\ \A u \in Users : bought[u] = UserTaken(u)
  BY DEF RedisLedger, CatTaken, UserTaken
<1>10. \A c \in present' : stock'[c] = Quota[c] - CatTaken(c)'
  BY <1>5, <1>6, <1>7, <1>8, <1>9
<1>11. \A u \in Users : bought'[u] = UserTaken(u)'
  BY <1>6, <1>8, <1>9
<1>12. Filter'
  BY <1>7, <1>8 DEF Filter
<1> QED
  BY <1>10, <1>11, <1>12 DEF RedisLedger, CatTaken, UserTaken

\* Every step keeps the count of Redis, whatever happens to it.
LEMMA CountsKept ==
  ASSUME TypeOK, QuotaLedger, Custody, RedisLedger, Filter, UnitCases
  PROVE  RedisLedger' /\ Filter'
<1>1. CASE Steady
  <2>1. /\ \A c : CatTaken(c)' = CatTaken(c)
        /\ \A u : UserTaken(u)' = UserTaken(u)
    BY <1>1, SteadyCounts DEF Steady
  <2> QED
    BY <1>1, <2>1 DEF Steady, redisVars, RedisLedger, Filter, CatTaken, UserTaken
<1> QED
  BY <1>1, TakeCounts, ReturnCounts, SyncCounts DEF UnitCases

Counted == Custody /\ RedisLedger /\ Filter

\* Counted is inductive, on top of IInv.
LEMMA CountedKept ==
  ASSUME "readBackFails" \notin Faults
  PROVE  IInv /\ Counted /\ [Next]_vars => Counted'
<1> SUFFICES ASSUME IInv, Counted, [Next]_vars PROVE Counted'
  OBVIOUS
<1>1. IInv' /\ TypeOK /\ TypeOK' /\ Whereabouts /\ QuotaLedger
  BY IInvKept DEF IInv, Books
<1>2. CustodyCases
  BY <1>1, CustodyStepCases
<1>3. UnitCases
  BY <1>1, <1>2, UnitStepCases DEF Counted
<1>4. Custody'
  BY <1>1, <1>2, <1>3, CustodyKept DEF Counted
<1>5. RedisLedger' /\ Filter'
  BY <1>1, <1>3, CountsKept DEF Counted
<1> QED
  BY <1>4, <1>5 DEF Counted

\* An event nobody has called yet has nothing out.
LEMMA InitCounted == Init => Counted
<1> SUFFICES ASSUME Init PROVE Counted
  OBVIOUS
<1>1. \A r \in Requests : ~HoldsStock(r)
  BY DEF Init, HoldsStock, Holds, Returning, Idle
<1>2. Taken = {}
  BY <1>1 DEF Taken
<1>3. \A u : OfUser(u, Taken) = {}
  BY <1>2 DEF OfUser
<1>4. Cardinality(Units({})) = 0
  BY FS_EmptySet DEF Units, UnitsOf
<1>5. RedisLedger
  BY <1>3, <1>4 DEF Init, RedisLedger
<1>6. Custody
  BY <1>1 DEF Init, Custody, Gives, Idle
<1>7. Filter
  BY LimitsAssumption DEF Init, Filter
<1> QED
  BY <1>5, <1>6, <1>7 DEF Counted

\* Redis's stock is the quota less every unit out and bought counts the same units, for
\* any interleaving of calls, handlers and jobs, crashes included, as long as a
\* committed insert is not undone.
THEOREM RedisExact == "readBackFails" \notin Faults => (Spec => []RedisLedger)
<1> SUFFICES ASSUME "readBackFails" \notin Faults PROVE Spec => []RedisLedger
  OBVIOUS
<1>1. IInv /\ Counted /\ [Next]_vars => Counted'
  BY CountedKept
<1>2. Counted => RedisLedger
  BY DEF Counted
<1> QED
  BY <1>1, <1>2, InitCounted, SpecIInv, PTL DEF Spec

\* A call in hand of units finds room for them in its category and under its limit.
LEMMA RoomForUnits ==
  ASSUME IInv, Counted
  PROVE  LayersAgree
<1> SUFFICES ASSUME NEW r \in Requests, at[r] = "insert"
             PROVE  Fits(r) /\ ~OverLimitInDb(r)
  BY DEF LayersAgree
<1> PICK c0, u0, q : c0 = ask[r].cat /\ u0 = ask[r].user /\ q = ask[r].qty
  OBVIOUS
<1>1. TypeOK /\ HoldsStock(r) /\ status[r] = "NONE"
  BY DEF IInv, HoldsStock, Counted, Custody, Early
<1>2. c0 \in present /\ c0 \in Categories /\ u0 \in Users /\ q \in Nat /\ ask[r].qty = q
      /\ ask \in [Requests -> Asks]
  BY <1>1, AskType DEF Counted, Custody, TypeOK
<1>3. ASSUME NEW X \in SUBSET Taken, r \in X
      PROVE  /\ Cardinality(UnitsOf(X \ {r}, ask)) + q = Cardinality(UnitsOf(X, ask))
             /\ Cardinality(UnitsOf(X \ {r}, ask)) \in Nat
  <2>1. /\ X \ {r} \in SUBSET Requests /\ {r} \in SUBSET Requests
        /\ (X \ {r}) \cap {r} = {} /\ (X \ {r}) \cup {r} = X
    BY <1>3 DEF Taken
  <2>2. Cardinality(UnitsOf((X \ {r}) \cup {r}, ask))
          = Cardinality(UnitsOf(X \ {r}, ask)) + Cardinality(UnitsOf({r}, ask))
    BY <1>2, <2>1, UnitsAddUp
  <2>3. Cardinality(UnitsOf({r}, ask)) = q
    BY <1>2, UnitsOfOne
  <2> QED
    BY <1>2, <2>1, <2>2, <2>3, UnitsFinite
<1>4. ASSUME NEW X \in SUBSET Requests, NEW Y \in SUBSET X
      PROVE  /\ Cardinality(UnitsOf(Y, ask)) <= Cardinality(UnitsOf(X, ask))
             /\ Cardinality(UnitsOf(Y, ask)) \in Nat
             /\ Cardinality(UnitsOf(X, ask)) \in Nat
  <2>1. UnitsOf(Y, ask) \subseteq UnitsOf(X, ask)
    BY DEF UnitsOf
  <2>2. /\ IsFiniteSet(UnitsOf(X, ask)) /\ Cardinality(UnitsOf(X, ask)) \in Nat
        /\ Cardinality(UnitsOf(Y, ask)) \in Nat
    BY <1>2, UnitsFinite
  <2> QED
    BY <2>1, <2>2, FS_Subset
<1>5. Fits(r)
  <2> DEFINE X == InCategory(c0, Taken)
             Y == InCategory(c0, WithStatus(Held))
  <2>1. r \in X /\ X \in SUBSET Taken /\ X \ {r} \in SUBSET Requests /\ Y \in SUBSET (X \ {r})
    BY <1>1 DEF InCategory, Taken, WithStatus, Held, HoldsStock, Holds
  <2>2. Cardinality(UnitsOf(Y, ask)) + q <= Cardinality(UnitsOf(X, ask))
    <3>1. /\ Cardinality(UnitsOf(X \ {r}, ask)) + q = Cardinality(UnitsOf(X, ask))
          /\ Cardinality(UnitsOf(X \ {r}, ask)) \in Nat
      BY <1>3, <2>1
    <3>2. /\ Cardinality(UnitsOf(Y, ask)) <= Cardinality(UnitsOf(X \ {r}, ask))
          /\ Cardinality(UnitsOf(Y, ask)) \in Nat
      BY <1>4, <2>1
    <3> QED
      BY <1>2, <3>1, <3>2
  <2>3. Cardinality(UnitsOf(Y, ask)) = reserved[c0] + sold[c0]
    <3>1. CatLoad(Held, c0) = CatLoad({"PENDING"}, c0) + CatLoad({"PAID"}, c0)
      BY <1>1, LoadSplits DEF CatLoad, OfCat, TypeOK, Held
    <3>2. /\ reserved[c0] = CatLoad({"PENDING"}, c0)
          /\ sold[c0] = CatLoad({"PAID"}, c0)
      BY <1>2, BooksInLoads DEF IInv, Books
    <3> QED
      BY <3>1, <3>2, LoadOfCat DEF Units
  <2>4. stock[c0] = Quota[c0] - Cardinality(UnitsOf(X, ask)) /\ stock[c0] >= 0
    BY <1>2 DEF Counted, RedisLedger, Filter, Units
  <2>5. /\ Quota[c0] \in Nat /\ reserved[c0] \in Nat /\ sold[c0] \in Nat
        /\ Cardinality(UnitsOf(X, ask)) \in Nat
    BY <1>1, <1>2, <1>4, LimitsAssumption DEF TypeOK, InCategory, Taken
  <2>6. sold[c0] + reserved[c0] + q <= Quota[c0]
    BY <1>2, <2>2, <2>3, <2>4, <2>5
  <2> QED
    BY <2>6 DEF Fits
<1>6. ~OverLimitInDb(r)
  <2> DEFINE X == OfUser(u0, Taken)
             Y == OfUser(u0, WithStatus(Held))
  <2>1. r \in X /\ X \in SUBSET Taken /\ X \ {r} \in SUBSET Requests /\ Y \in SUBSET (X \ {r})
    BY <1>1 DEF OfUser, Taken, WithStatus, Held, HoldsStock, Holds
  <2>2. Cardinality(UnitsOf(Y, ask)) + q <= Cardinality(UnitsOf(X, ask))
    <3>1. /\ Cardinality(UnitsOf(X \ {r}, ask)) + q = Cardinality(UnitsOf(X, ask))
          /\ Cardinality(UnitsOf(X \ {r}, ask)) \in Nat
      BY <1>3, <2>1
    <3>2. /\ Cardinality(UnitsOf(Y, ask)) <= Cardinality(UnitsOf(X \ {r}, ask))
          /\ Cardinality(UnitsOf(Y, ask)) \in Nat
      BY <1>4, <2>1
    <3> QED
      BY <1>2, <3>1, <3>2
  <2>3. Cardinality(UnitsOf(Y, ask)) = HeldBy(u0)
    BY DEF HeldBy, Units, Held
  <2>4. bought[u0] = Cardinality(UnitsOf(X, ask)) /\ bought[u0] <= MaxPerUser
    BY <1>2 DEF Counted, RedisLedger, Filter, Units
  <2>5. /\ MaxPerUser \in Nat /\ bought[u0] \in Nat
        /\ Cardinality(UnitsOf(Y, ask)) \in Nat
    BY <1>1, <1>2, <1>4, <2>1, LimitsAssumption DEF TypeOK
  <2>6. HeldBy(u0) + q <= MaxPerUser
    BY <1>2, <2>2, <2>3, <2>4, <2>5
  <2>7. HeldBy(u0) + q \in Nat
    BY <1>2, <2>3, <2>5
  <2> QED
    BY <2>5, <2>6, <2>7 DEF OverLimitInDb
<1> QED
  BY <1>5, <1>6

\* What Redis lets through PostgreSQL does not refuse: the guards of
\* antretix_reserve_order act only when Redis has lost its counts or a read-back failed.
THEOREM LayersInStep == "readBackFails" \notin Faults => (Spec => []LayersAgree)
<1> SUFFICES ASSUME "readBackFails" \notin Faults PROVE Spec => []LayersAgree
  OBVIOUS
<1>1. IInv /\ Counted /\ [Next]_vars => Counted'
  BY CountedKept
<1>2. IInv /\ Counted => LayersAgree
  BY RoomForUnits
<1> QED
  BY <1>1, <1>2, InitCounted, SpecIInv, PTL DEF Spec
=============================================================================
