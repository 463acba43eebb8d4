---------------------------- MODULE InventoryProofs ----------------------------
(***************************************************************************)
(* Inventory is type correct, keeps its ledger and never oversells, for    *)
(* every set of users, categories, requests and processes, every quota and *)
(* limit, and under every fault.                                           *)
(*                                                                         *)
(* The inductive invariant IInv adds to the ledger what ties a process to  *)
(* the rows: a call that has not inserted has no row, a category reserved  *)
(* is one of the event, a process that returns units does so for a row.    *)
(* A step either leaves the rows alone (Still) or is one of four           *)
(* transitions of one order; DbStepCases says which, and the ledger is     *)
(* shown once per transition rather than once per action.                  *)
(***************************************************************************)
EXTENDS UnitLemmas

OfCat(c) == {o \in Requests : ask[o].cat = c}
Of(u)    == {o \in Requests : ask[o].user = u}

\* The categories that processes and rows name are categories of the event.
CatKnown ==
  \A r \in Requests :
    at[r] \in {"reserve", "insert", "readBack", "undo"} \/ status[r] # "NONE"
      => ask[r].cat \in Categories

\* A call that has not reached its INSERT has no row.
Unborn ==
  \A r \in Requests :
    at[r] \in {"unsent", "lookup", "reserve", "insert"} => status[r] = "NONE"

\* Units are returned on behalf of a row.
TasksBorn ==
  \A a \in Actors : task[a].step = "giveBack" => status[task[a].order] # "NONE"

\* The CHECK constraint of TicketCategory.
CountersFit == \A c \in Categories : sold[c] + reserved[c] <= Quota[c]

\* A handler refunds what it saw released.
RefundSeen ==
  \A a \in Actors : task[a].step = "refund" => task[a].seen \in Released

Whereabouts == CatKnown /\ Unborn /\ TasksBorn /\ RefundSeen
Books       == QuotaLedger /\ CountersFit /\ AccountLimit /\ TicketsMatchPaid /\ OneOrderPerKey
IInv        == TypeOK /\ Whereabouts /\ Books

-----------------------------------------------------------------------------
(* The transitions of the rows *)

Still ==
  /\ UNCHANGED dbVars
  /\ \A p \in Requests : status[p] # "NONE" => ask'[p] = ask[p]

Inserts(r) ==
  /\ status[r] = "NONE" /\ ask[r].cat \in Categories
  /\ ~OverLimitInDb(r) /\ Fits(r) /\ ~KeyTaken(r)
  /\ reserved' = [reserved EXCEPT ![ask[r].cat] = @ + ask[r].qty]
  /\ status' = [status EXCEPT ![r] = "PENDING"]
  /\ UNCHANGED <<sold, tickets, ask>>

Releases(o) ==
  /\ status[o] = "PENDING"
  /\ \E s \in Released : status' = [status EXCEPT ![o] = s]
  /\ reserved' = [reserved EXCEPT ![ask[o].cat] = @ - ask[o].qty]
  /\ UNCHANGED <<sold, tickets, ask>>

Pays(o) ==
  /\ status[o] = "PENDING"
  /\ status' = [status EXCEPT ![o] = "PAID"]
  /\ tickets' = tickets \cup ({o} \X (1 .. ask[o].qty))
  /\ reserved' = [reserved EXCEPT ![ask[o].cat] = @ - ask[o].qty]
  /\ sold' = [sold EXCEPT ![ask[o].cat] = @ + ask[o].qty]
  /\ UNCHANGED ask

Refunds(o) ==
  /\ status[o] \in Released
  /\ status' = [status EXCEPT ![o] = "REFUNDED"]
  /\ UNCHANGED <<reserved, sold, tickets, ask>>

-----------------------------------------------------------------------------
LEMMA AskType ==
  ASSUME TypeOK, NEW r \in Requests
  PROVE  /\ ask[r].qty \in Nat \ {0}
         /\ ask[r].user \in Users
         /\ ask[r].cat \in Categories \cup OtherCategories
BY AsksAssumption, LimitsAssumption DEF TypeOK

\* An event without orders satisfies the invariant.
LEMMA InitIInv == Init => IInv
<1> SUFFICES ASSUME Init PROVE IInv
  OBVIOUS
<1>1. TypeOK
  BY AsksAssumption DEF Init, TypeOK, Statuses, Points, Replies
<1>2. Whereabouts
  BY DEF Init, Whereabouts, CatKnown, Unborn, TasksBorn, RefundSeen, Idle
<1>3. \A S : S \subseteq {"PENDING", "PAID"} => WithStatus(S) = {}
  BY DEF Init, WithStatus
<1>0. \A S, c : InCategory(c, {}) = {} /\ OfUser(c, {}) = {}
  BY DEF InCategory, OfUser
<1>4. Units({}) = {} /\ Cardinality({}) = 0
  BY FS_EmptySet DEF Units, UnitsOf
<1>5. QuotaLedger
  BY <1>0, <1>3, <1>4 DEF Init, QuotaLedger
<1>6. CountersFit
  BY LimitsAssumption DEF Init, CountersFit
<1>7. AccountLimit
  BY <1>0, <1>3, <1>4, LimitsAssumption DEF AccountLimit, HeldBy
<1>8. TicketsMatchPaid
  BY <1>3, <1>4 DEF Init, TicketsMatchPaid
<1>9. OneOrderPerKey
  BY DEF Init, OneOrderPerKey
<1> QED
  BY <1>1, <1>2, <1>5, <1>6, <1>7, <1>8, <1>9 DEF IInv, Books

-----------------------------------------------------------------------------
(* Every step is one of them, or leaves the rows alone. *)

DbCases ==
  \/ Still
  \/ \E o \in Requests : Inserts(o) \/ Releases(o) \/ Pays(o) \/ Refunds(o)

\* release_order releases the order or touches no row.
LEMMA ReleaseCase ==
  ASSUME TypeOK, NEW a \in Actors, NEW o \in Requests,
         NEW kind \in {"settlement", "failed", "cancel", "expiry"},
         ReleaseOrder(a, o, kind), UNCHANGED ask
  PROVE  Releases(o) \/ Still
BY DEF ReleaseOrder, Releases, Still, MayRelease, Released, dbVars

\* Whatever the step, the rows stay or one order makes one transition.
LEMMA DbStepCases ==
  ASSUME TypeOK, Whereabouts, [Next]_vars
  PROVE  DbCases
<1> USE DEF outcomeVars, redisVars, callVars, dbVars
<1>1. ASSUME NEW r \in Requests, Submit(r) PROVE DbCases
  BY <1>1 DEF Submit, DbCases, Still, TypeOK, Whereabouts, Unborn
<1>2. ASSUME NEW r \in Requests, InsertOrder(r) PROVE DbCases
  BY <1>2 DEF InsertOrder, DbCases, Still, Inserts, Whereabouts, Unborn, CatKnown
<1>3. ASSUME NEW r \in Requests,
             \/ Lookup(r) \/ Reserve(r) \/ ReadBack(r) \/ Undo(r) \/ FindTwin(r)
             \/ InsertFails(r) \/ ReadBackFails(r) \/ CallCrash(r) \/ HoldElapses(r)
      PROVE DbCases
  BY <1>3 DEF Lookup, Reserve, ReadBack, Undo, FindTwin, InsertFails, ReadBackFails,
              CallCrash, HoldElapses, DbCases, Still
<1>4. ASSUME NEW h \in Handlers,
             \/ \E o \in Requests : CancelRead(h, o)
             \/ \E m \in sent : Deliver(h, m)
             \/ GiveBack(h) \/ ReadForPayment(h) \/ Acknowledge(h)
      PROVE DbCases
  BY <1>4 DEF CancelRead, Deliver, GiveBack, ReadForPayment, Acknowledge, DbCases, Still
<1>5. ASSUME NEW h \in Handlers, HandlerRelease(h) PROVE DbCases
  <2>1. task[h] \in Tasks
    BY <1>5 DEF HandlerRelease, TypeOK, Actors, Idle
  <2>2. task[h].order \in Requests
        /\ task[h].kind \in {"settlement", "failed", "cancel", "expiry"}
    BY <2>1 DEF Tasks
  <2> QED
    BY <1>5, <2>2, ReleaseCase DEF HandlerRelease, Actors, DbCases
<1>6. ASSUME NEW h \in Handlers, Pay(h) PROVE DbCases
  <2>1. task[h] \in Tasks
    BY <1>6 DEF Pay, PayOr, TypeOK, Actors, Idle
  <2>2. task[h].order \in Requests
    BY <2>1 DEF Tasks
  <2> QED
    BY <1>6, <2>2 DEF Pay, PayOr, Payable, DbCases, Pays, Still
<1>7. ASSUME NEW h \in Handlers, Refund(h) PROVE DbCases
  <2>1. task[h] \in Tasks
    BY <1>7 DEF Refund, TypeOK, Actors, Idle
  <2>2. task[h].order \in Requests
    BY <2>1 DEF Tasks
  <2>3. task[h].seen \in Released
    BY <1>7 DEF Refund, Whereabouts, RefundSeen, Actors
  <2> QED
    BY <1>7, <2>2, <2>3 DEF Refund, DbCases, Refunds, Still
<1>8. ASSUME NEW w \in Workers, ExpiryRelease(w) PROVE DbCases
  <2>1. PICK o \in batch[w] : ReleaseOrder(w, o, "expiry")
    BY <1>8 DEF ExpiryRelease
  <2>2. o \in Requests
    BY <2>1 DEF TypeOK
  <2> QED
    BY <1>8, <2>1, <2>2, ReleaseCase DEF ExpiryRelease, Actors, DbCases
<1>9. ASSUME NEW w \in Workers, ExpirySelect(w) \/ GiveBack(w) PROVE DbCases
  BY <1>9 DEF ExpirySelect, GiveBack, DbCases, Still
<1>10. ASSUME NEW a \in Actors, ActorCrash(a) PROVE DbCases
  BY <1>10 DEF ActorCrash, DbCases, Still
<1>11. ASSUME NEW c \in Categories, SyncStock(c) PROVE DbCases
  BY <1>11 DEF SyncStock, DbCases, Still
<1>12. ASSUME NEW o \in Requests, NEW k \in {"settlement", "failed"}, Click(o, k)
       PROVE DbCases
  BY <1>12 DEF Click, DbCases, Still
<1>13. CASE UNCHANGED vars
  BY <1>13 DEF vars, DbCases, Still
<1> QED
  BY <1>1, <1>2, <1>3, <1>4, <1>5, <1>6, <1>7, <1>8, <1>9, <1>10, <1>11, <1>12, <1>13
  DEF Next, Client, CallStep, HandlerStep, WorkerStep, Fault

-----------------------------------------------------------------------------
(* The books, told with Load, before and after a step *)

CatLoad(S, c)  == Load(status, ask, S, OfCat(c))
UserLoad(S, u) == Load(status, ask, S, Of(u))

Held == {"PENDING", "PAID"}

\* Tickets of a category in given statuses, as a load.
LEMMA LoadOfCat ==
  ASSUME NEW S, NEW c
  PROVE  /\ Cardinality(Units(InCategory(c, WithStatus(S)))) = CatLoad(S, c)
         /\ Cardinality(Units(InCategory(c, WithStatus(S))))' = CatLoad(S, c)'
<1>1. InCategory(c, WithStatus(S)) = {o \in OfCat(c) : status[o] \in S}
  BY DEF InCategory, WithStatus, OfCat
<1>2. InCategory(c, WithStatus(S))' = {o \in OfCat(c)' : status'[o] \in S}
  BY DEF InCategory, WithStatus, OfCat
<1> QED
  BY <1>1, <1>2 DEF CatLoad, Load, Units

\* Tickets an account holds, as a load.
LEMMA LoadOfUser ==
  ASSUME NEW u
  PROVE  HeldBy(u) = UserLoad(Held, u) /\ HeldBy(u)' = UserLoad(Held, u)'
<1>1. OfUser(u, WithStatus(Held)) = {o \in Of(u) : status[o] \in Held}
  BY DEF OfUser, WithStatus, Of
<1>2. OfUser(u, WithStatus(Held))' = {o \in Of(u)' : status'[o] \in Held}
  BY DEF OfUser, WithStatus, Of
<1> QED
  BY <1>1, <1>2 DEF UserLoad, Load, HeldBy, Units, Held

\* What the books say, in these terms.
LEMMA BooksInLoads ==
  /\ QuotaLedger <=> \A c \in Categories : /\ reserved[c] = CatLoad({"PENDING"}, c)
                                          /\ sold[c] = CatLoad({"PAID"}, c)
  /\ QuotaLedger' <=> \A c \in Categories : /\ reserved'[c] = CatLoad({"PENDING"}, c)'
                                           /\ sold'[c] = CatLoad({"PAID"}, c)'
  /\ AccountLimit <=> \A u \in Users : UserLoad(Held, u) <= MaxPerUser
  /\ AccountLimit' <=> \A u \in Users : UserLoad(Held, u)' <= MaxPerUser
BY LoadOfCat, LoadOfUser DEF QuotaLedger, AccountLimit

\* A step that leaves the rows alone leaves every load alone.
LEMMA StillLoads ==
  ASSUME Still, NEW S, "NONE" \notin S
  PROVE  /\ \A c : CatLoad(S, c)' = CatLoad(S, c)
         /\ \A u : UserLoad(S, u)' = UserLoad(S, u)
         /\ Units(WithStatus(S))' = Units(WithStatus(S))
<1>1. \A o \in Requests : status'[o] = status[o] /\ (status[o] \in S => ask'[o] = ask[o])
  BY DEF Still, dbVars
<1>2. ASSUME NEW c PROVE CatLoad(S, c)' = CatLoad(S, c)
  <2> DEFINE A == {o \in OfCat(c) : status[o] \in S}
  <2>1. {o \in OfCat(c)' : status'[o] \in S} = A
    BY <1>1 DEF OfCat
  <2>2. \A o \in A : ask'[o] = ask[o]
    BY <1>1 DEF OfCat
  <2>3. UnitsOf(A, ask') = UnitsOf(A, ask)
    BY <2>2, UnitsCongruence
  <2> QED
    BY <2>1, <2>3 DEF CatLoad, Load
<1>3. ASSUME NEW u PROVE UserLoad(S, u)' = UserLoad(S, u)
  <2> DEFINE A == {o \in Of(u) : status[o] \in S}
  <2>1. {o \in Of(u)' : status'[o] \in S} = A
    BY <1>1 DEF Of
  <2>2. \A o \in A : ask'[o] = ask[o]
    BY <1>1 DEF Of
  <2>3. UnitsOf(A, ask') = UnitsOf(A, ask)
    BY <2>2, UnitsCongruence
  <2> QED
    BY <2>1, <2>3 DEF UserLoad, Load
<1>4. Units(WithStatus(S))' = Units(WithStatus(S))
  <2>1. WithStatus(S)' = WithStatus(S) /\ \A o \in WithStatus(S) : ask'[o] = ask[o]
    BY <1>1 DEF WithStatus
  <2>2. UnitsOf(WithStatus(S), ask') = UnitsOf(WithStatus(S), ask)
    BY <2>1, UnitsCongruence
  <2> QED
    BY <2>1, <2>2 DEF Units
<1> QED
  BY <1>2, <1>3, <1>4

\* The books survive a step that leaves the rows alone.
LEMMA StillBooks ==
  ASSUME Books, Still
  PROVE  Books'
<1>1. QuotaLedger' /\ AccountLimit'
  BY BooksInLoads, StillLoads DEF Books, Still, dbVars, Held
<1>2. CountersFit'
  BY DEF Books, Still, dbVars, CountersFit
<1>3. TicketsMatchPaid'
  <2>1. Units(WithStatus({"PAID"}))' = Units(WithStatus({"PAID"}))
    BY StillLoads
  <2> QED
    BY <2>1 DEF Books, Still, dbVars, TicketsMatchPaid
<1>4. OneOrderPerKey'
  BY DEF Books, Still, dbVars, OneOrderPerKey, SameKey
<1> QED
  BY <1>1, <1>2, <1>3, <1>4 DEF Books

-----------------------------------------------------------------------------
(* What one order's change of status does to the loads *)

Changes(o, s) == status' = [status EXCEPT ![o] = s] /\ UNCHANGED ask

\* What a change of one order's status means, spelled out.
LEMMA ChangeFacts ==
  ASSUME TypeOK, NEW o \in Requests, NEW s, Changes(o, s)
  PROVE  /\ status'[o] = s
         /\ \A p \in Requests \ {o} : status'[p] = status[p]
         /\ ask' = ask /\ ask \in [Requests -> Asks]
         /\ \A c : OfCat(c)' = OfCat(c) /\ OfCat(c) \in SUBSET Requests
         /\ \A u : Of(u)' = Of(u) /\ Of(u) \in SUBSET Requests
         /\ \A c : o \in OfCat(c) <=> c = ask[o].cat
         /\ \A u : o \in Of(u) <=> u = ask[o].user
BY DEF TypeOK, Changes, OfCat, Of

\* An order that enters a set of statuses adds its quantity to the loads of its
\* category and account, and to no other.
LEMMA Enters ==
  ASSUME TypeOK, NEW o \in Requests, NEW s, Changes(o, s),
         NEW c0, c0 = ask[o].cat, NEW u0, u0 = ask[o].user,
         NEW S, status[o] \notin S, s \in S
  PROVE  /\ CatLoad(S, c0)' = CatLoad(S, c0) + ask[o].qty
         /\ UserLoad(S, u0)' = UserLoad(S, u0) + ask[o].qty
         /\ \A c : c # c0 => CatLoad(S, c)' = CatLoad(S, c)
         /\ \A u : u # u0 => UserLoad(S, u)' = UserLoad(S, u)
<1>1. ASSUME NEW X \in SUBSET Requests, o \in X
      PROVE  Load(status', ask, S, X) = Load(status, ask, S, X) + ask[o].qty
  <2>1. \A p \in X \ {o} : status'[p] = status[p]
    BY ChangeFacts
  <2>2. status'[o] \in S /\ ask \in [Requests -> Asks]
    BY ChangeFacts
  <2> QED
    BY <1>1, <2>1, <2>2, LoadEnters
<1>2. /\ o \in OfCat(c0) /\ OfCat(c0) \in SUBSET Requests
      /\ o \in Of(u0) /\ Of(u0) \in SUBSET Requests
  BY ChangeFacts
<1>3. ASSUME NEW c, c # c0
      PROVE  Load(status', ask, S, OfCat(c)) = Load(status, ask, S, OfCat(c))
  <2>1. \A p \in OfCat(c) : status'[p] \in S <=> status[p] \in S
    BY <1>3, ChangeFacts
  <2> QED
    BY <2>1, LoadStays
<1>4. ASSUME NEW u, u # u0
      PROVE  Load(status', ask, S, Of(u)) = Load(status, ask, S, Of(u))
  <2>1. \A p \in Of(u) : status'[p] \in S <=> status[p] \in S
    BY <1>4, ChangeFacts
  <2> QED
    BY <2>1, LoadStays
<1>5. ask'[o] = ask[o]
  BY ChangeFacts
<1> QED
  BY <1>1, <1>2, <1>3, <1>4, <1>5, ChangeFacts DEF CatLoad, UserLoad

\* An order that leaves a set of statuses takes its quantity from them.
LEMMA Leaves ==
  ASSUME TypeOK, NEW o \in Requests, NEW s, Changes(o, s),
         NEW c0, c0 = ask[o].cat, NEW u0, u0 = ask[o].user,
         NEW S, status[o] \in S, s \notin S
  PROVE  /\ CatLoad(S, c0)' = CatLoad(S, c0) - ask[o].qty
         /\ UserLoad(S, u0)' = UserLoad(S, u0) - ask[o].qty
         /\ \A c : c # c0 => CatLoad(S, c)' = CatLoad(S, c)
         /\ \A u : u # u0 => UserLoad(S, u)' = UserLoad(S, u)
<1>1. ASSUME NEW X \in SUBSET Requests, o \in X
      PROVE  Load(status', ask, S, X) = Load(status, ask, S, X) - ask[o].qty
  <2>1. \A p \in X \ {o} : status'[p] = status[p]
    BY ChangeFacts
  <2>2. status'[o] \notin S /\ ask \in [Requests -> Asks]
    BY ChangeFacts
  <2> QED
    BY <1>1, <2>1, <2>2, LoadLeaves, SMTT(60)
<1>2. /\ o \in OfCat(c0) /\ OfCat(c0) \in SUBSET Requests
      /\ o \in Of(u0) /\ Of(u0) \in SUBSET Requests
  BY ChangeFacts
<1>3. ASSUME NEW c, c # c0
      PROVE  Load(status', ask, S, OfCat(c)) = Load(status, ask, S, OfCat(c))
  <2>1. \A p \in OfCat(c) : status'[p] \in S <=> status[p] \in S
    BY <1>3, ChangeFacts
  <2> QED
    BY <2>1, LoadStays
<1>4. ASSUME NEW u, u # u0
      PROVE  Load(status', ask, S, Of(u)) = Load(status, ask, S, Of(u))
  <2>1. \A p \in Of(u) : status'[p] \in S <=> status[p] \in S
    BY <1>4, ChangeFacts
  <2> QED
    BY <2>1, LoadStays
<1>5. ask'[o] = ask[o]
  BY ChangeFacts
<1> QED
  BY <1>1, <1>2, <1>3, <1>4, <1>5, ChangeFacts DEF CatLoad, UserLoad

\* A change inside or outside a set of statuses moves no load.
LEMMA Stays ==
  ASSUME TypeOK, NEW o \in Requests, NEW s, Changes(o, s),
         NEW S, status[o] \in S <=> s \in S
  PROVE  /\ \A c : CatLoad(S, c)' = CatLoad(S, c)
         /\ \A u : UserLoad(S, u)' = UserLoad(S, u)
<1>1. \A p \in Requests : status'[p] \in S <=> status[p] \in S
  BY ChangeFacts
<1>2. ASSUME NEW X \in SUBSET Requests
      PROVE  Load(status', ask, S, X) = Load(status, ask, S, X)
  <2>1. \A p \in X : status'[p] \in S <=> status[p] \in S
    BY <1>1
  <2> QED
    BY <2>1, LoadStays
<1> QED
  BY <1>2, ChangeFacts DEF CatLoad, UserLoad

\* Loads are natural numbers.
LEMMA LoadTypes ==
  ASSUME TypeOK, NEW S
  PROVE  /\ \A c : CatLoad(S, c) \in Nat
         /\ \A u : UserLoad(S, u) \in Nat
<1>1. ASSUME NEW X \in SUBSET Requests PROVE Load(status, ask, S, X) \in Nat
  <2>1. {o \in X : status[o] \in S} \in SUBSET Requests /\ ask \in [Requests -> Asks]
    BY DEF TypeOK
  <2> QED
    BY <2>1, UnitsFinite DEF Load
<1>2. \A c : OfCat(c) \in SUBSET Requests /\ Of(c) \in SUBSET Requests
  BY DEF OfCat, Of
<1> QED
  BY <1>1, <1>2 DEF CatLoad, UserLoad

-----------------------------------------------------------------------------
(* The four transitions keep the books. *)

\* Units of an order that becomes PAID join those of the paid orders.
LEMMA PaidUnits ==
  ASSUME TypeOK, NEW o \in Requests, NEW s, Changes(o, s), status[o] # "PAID"
  PROVE  Units(WithStatus({"PAID"}))' =
           Units(WithStatus({"PAID"})) \cup (IF s = "PAID" THEN {o} \X (1 .. ask[o].qty) ELSE {})
<1> DEFINE A == WithStatus({"PAID"})
<1>1. A' = A \cup (IF s = "PAID" THEN {o} ELSE {})
  BY ChangeFacts DEF WithStatus
<1>2. UnitsOf(A \cup {o}, ask) = UnitsOf(A, ask) \cup ({o} \X (1 .. ask[o].qty))
  BY DEF UnitsOf
<1>3. ask' = ask
  BY ChangeFacts
<1> QED
  BY <1>1, <1>2, <1>3 DEF Units

\* The guards of reserve_order are what the books need for a new order.
LEMMA InsertBooks ==
  ASSUME TypeOK, Books, NEW r \in Requests, Inserts(r)
  PROVE  Books'
<1> PICK c0, u0, q : c0 = ask[r].cat /\ u0 = ask[r].user /\ q = ask[r].qty
  OBVIOUS
<1>1. Changes(r, "PENDING") /\ status[r] = "NONE" /\ c0 \in Categories
  BY DEF Inserts, Changes
<1>2. q \in Nat /\ u0 \in Users /\ MaxPerUser \in Nat
  BY AskType, LimitsAssumption
<1>3. /\ \A c \in Categories : reserved'[c] = IF c = c0 THEN reserved[c] + q ELSE reserved[c]
      /\ sold' = sold /\ reserved \in [Categories -> Nat] /\ sold \in [Categories -> Nat]
  BY DEF Inserts, TypeOK
<1>4. QuotaLedger'
  <2>1. /\ CatLoad({"PENDING"}, c0)' = CatLoad({"PENDING"}, c0) + q
        /\ \A c : c # c0 => CatLoad({"PENDING"}, c)' = CatLoad({"PENDING"}, c)
    BY <1>1, Enters
  <2>2. \A c : CatLoad({"PAID"}, c)' = CatLoad({"PAID"}, c)
    BY <1>1, Stays
  <2> QED
    BY <1>3, <2>1, <2>2, BooksInLoads DEF Books
<1>5. CountersFit'
  <2>1. sold[c0] + reserved[c0] + q <= Quota[c0]
    BY DEF Inserts, Fits
  <2> QED
    BY <1>1, <1>2, <1>3, <2>1, LimitsAssumption DEF Books, CountersFit
<1>6. AccountLimit'
  <2>1. ~(UserLoad(Held, u0) + q > MaxPerUser)
    BY LoadOfUser DEF Inserts, OverLimitInDb
  <2>2. UserLoad(Held, u0) \in Nat
    BY LoadTypes
  <2>3. UserLoad(Held, u0)' <= MaxPerUser
    <3>1. UserLoad(Held, u0)' = UserLoad(Held, u0) + q
      BY <1>1, Enters DEF Held
    <3> QED
      BY <1>2, <2>1, <2>2, <3>1
  <2>4. \A u : u # u0 => UserLoad(Held, u)' = UserLoad(Held, u)
    BY <1>1, Enters DEF Held
  <2> QED
    BY <2>3, <2>4, BooksInLoads DEF Books
<1>7. TicketsMatchPaid'
  BY <1>1, PaidUnits DEF Books, TicketsMatchPaid, Inserts
<1>8. OneOrderPerKey'
  <2>1. \A o \in Requests : status[o] # "NONE" => ~SameKey(o, r)
    BY DEF Inserts, KeyTaken
  <2> QED
    BY <1>1, <2>1, ChangeFacts DEF Books, OneOrderPerKey, SameKey
<1> QED
  BY <1>4, <1>5, <1>6, <1>7, <1>8 DEF Books

\* A release moves its tickets out of reserved, once.
LEMMA ReleaseBooks ==
  ASSUME TypeOK, Books, Whereabouts, NEW o \in Requests, Releases(o)
  PROVE  Books'
<1> PICK c0, u0, q : c0 = ask[o].cat /\ u0 = ask[o].user /\ q = ask[o].qty
  OBVIOUS
<1>1. PICK s \in Released : Changes(o, s)
  BY DEF Releases, Changes
<1>2. status[o] = "PENDING" /\ c0 \in Categories
  BY DEF Releases, Whereabouts, CatKnown
<1>3. q \in Nat /\ u0 \in Users /\ MaxPerUser \in Nat
  BY AskType, LimitsAssumption
<1>4. /\ \A c \in Categories : reserved'[c] = IF c = c0 THEN reserved[c] - q ELSE reserved[c]
      /\ sold' = sold /\ reserved \in [Categories -> Nat] /\ sold \in [Categories -> Nat]
  BY DEF Releases, TypeOK
<1>5. s # "PENDING" /\ s # "PAID" /\ s # "NONE"
  BY DEF Released
<1>6. QuotaLedger'
  <2>1. /\ CatLoad({"PENDING"}, c0)' = CatLoad({"PENDING"}, c0) - q
        /\ \A c : c # c0 => CatLoad({"PENDING"}, c)' = CatLoad({"PENDING"}, c)
    BY <1>1, <1>2, <1>5, Leaves
  <2>2. \A c : CatLoad({"PAID"}, c)' = CatLoad({"PAID"}, c)
    BY <1>1, <1>2, <1>5, Stays
  <2> QED
    BY <1>4, <2>1, <2>2, BooksInLoads DEF Books
<1>7. CountersFit'
  BY <1>2, <1>3, <1>4, LimitsAssumption DEF Books, CountersFit
<1>8. AccountLimit'
  <2>1. /\ UserLoad(Held, u0)' = UserLoad(Held, u0) - q
        /\ \A u : u # u0 => UserLoad(Held, u)' = UserLoad(Held, u)
    BY <1>1, <1>2, <1>5, Leaves DEF Held
  <2>2. \A u : UserLoad(Held, u) \in Nat
    BY LoadTypes
  <2> QED
    BY <1>3, <2>1, <2>2, BooksInLoads DEF Books
<1>9. TicketsMatchPaid'
  BY <1>1, <1>2, <1>5, PaidUnits DEF Books, TicketsMatchPaid, Releases
<1>10. OneOrderPerKey'
  BY <1>1, <1>2, ChangeFacts DEF Books, OneOrderPerKey, SameKey
<1> QED
  BY <1>6, <1>7, <1>8, <1>9, <1>10 DEF Books

\* A payment moves its tickets from reserved to sold and issues them.
LEMMA PayBooks ==
  ASSUME TypeOK, Books, Whereabouts, NEW o \in Requests, Pays(o)
  PROVE  Books'
<1> PICK c0, u0, q : c0 = ask[o].cat /\ u0 = ask[o].user /\ q = ask[o].qty
  OBVIOUS
<1>1. Changes(o, "PAID") /\ status[o] = "PENDING" /\ c0 \in Categories
  BY DEF Pays, Changes, Whereabouts, CatKnown
<1>2. q \in Nat
  BY AskType
<1>3. /\ \A c \in Categories : reserved'[c] = IF c = c0 THEN reserved[c] - q ELSE reserved[c]
      /\ \A c \in Categories : sold'[c] = IF c = c0 THEN sold[c] + q ELSE sold[c]
      /\ reserved \in [Categories -> Nat] /\ sold \in [Categories -> Nat]
  BY DEF Pays, TypeOK
<1>4. QuotaLedger'
  <2>1. /\ CatLoad({"PENDING"}, c0)' = CatLoad({"PENDING"}, c0) - q
        /\ \A c : c # c0 => CatLoad({"PENDING"}, c)' = CatLoad({"PENDING"}, c)
    BY <1>1, Leaves
  <2>2. /\ CatLoad({"PAID"}, c0)' = CatLoad({"PAID"}, c0) + q
        /\ \A c : c # c0 => CatLoad({"PAID"}, c)' = CatLoad({"PAID"}, c)
    BY <1>1, Enters
  <2> QED
    BY <1>3, <2>1, <2>2, BooksInLoads DEF Books
<1>5. CountersFit'
  BY <1>1, <1>2, <1>3, LimitsAssumption DEF Books, CountersFit
<1>6. AccountLimit'
  <2>1. \A u : UserLoad(Held, u)' = UserLoad(Held, u)
    BY <1>1, Stays DEF Held
  <2> QED
    BY <2>1, BooksInLoads DEF Books
<1>7. TicketsMatchPaid'
  BY <1>1, PaidUnits DEF Books, TicketsMatchPaid, Pays
<1>8. OneOrderPerKey'
  BY <1>1, ChangeFacts DEF Books, OneOrderPerKey, SameKey
<1> QED
  BY <1>4, <1>5, <1>6, <1>7, <1>8 DEF Books

\* A refund of a released order moves no ticket.
LEMMA RefundBooks ==
  ASSUME TypeOK, Books, NEW o \in Requests, Refunds(o)
  PROVE  Books'
<1>1. Changes(o, "REFUNDED") /\ status[o] \in Released
  BY DEF Refunds, Changes
<1>2. \A S \in {{"PENDING"}, {"PAID"}, Held} : status[o] \in S <=> "REFUNDED" \in S
  BY <1>1 DEF Released, Held
<1>3. \A S \in {{"PENDING"}, {"PAID"}, Held} :
        /\ \A c : CatLoad(S, c)' = CatLoad(S, c)
        /\ \A u : UserLoad(S, u)' = UserLoad(S, u)
  BY <1>1, <1>2, Stays
<1>4. QuotaLedger' /\ AccountLimit'
  BY <1>3, BooksInLoads DEF Books, Refunds
<1>5. CountersFit'
  BY DEF Books, CountersFit, Refunds
<1>6. TicketsMatchPaid'
  BY <1>1, PaidUnits DEF Books, TicketsMatchPaid, Refunds, Released
<1>7. OneOrderPerKey'
  BY <1>1, ChangeFacts DEF Books, OneOrderPerKey, SameKey, Released
<1> QED
  BY <1>4, <1>5, <1>6, <1>7 DEF Books

\* Every step that is still or one transition keeps the books.
LEMMA BooksKept ==
  ASSUME TypeOK, Whereabouts, Books, [Next]_vars
  PROVE  Books'
<1>1. DbCases
  BY DbStepCases
<1> QED
  BY <1>1, StillBooks, InsertBooks, ReleaseBooks, PayBooks, RefundBooks DEF DbCases

-----------------------------------------------------------------------------
(* Type correctness, group by group *)

\* A busy actor's task is typed.
LEMMA TaskTyped ==
  ASSUME TypeOK, NEW a \in Actors, task[a].step # "idle"
  PROVE  /\ task[a] \in Tasks
         /\ task[a].order \in Requests /\ task[a].seen \in Statuses
         /\ task[a].kind \in {"settlement", "failed", "cancel", "expiry"}
<1>1. task[a] \in Tasks
  BY DEF TypeOK, Idle
<1> QED
  BY <1>1 DEF Tasks

CallType == /\ at \in [Requests -> Points] /\ ask \in [Requests -> Asks]
            /\ reply \in [Requests -> Replies]

\* Types of what POST /orders calls are at.
LEMMA CallTypeKept ==
  ASSUME TypeOK, [Next]_vars
  PROVE  CallType'
<1> USE DEF TypeOK, CallType, Points, Replies, AppErrors, callVars
<1>1. ASSUME NEW r \in Requests, Submit(r) PROVE CallType'
  BY <1>1 DEF Submit, Goes
<1>2. ASSUME NEW r \in Requests, CallStep(r) PROVE CallType'
  <2>1. CASE Lookup(r)
    BY <2>1 DEF Lookup, Answer, Goes
  <2>2. CASE Reserve(r)
    BY <2>2 DEF Reserve, Refuse, Answer, Goes
  <2>3. CASE InsertOrder(r)
    BY <2>3 DEF InsertOrder, Fails, Goes
  <2>4. CASE ReadBack(r) \/ Undo(r) \/ FindTwin(r)
    BY <2>4 DEF ReadBack, Undo, FindTwin, Answer, Goes
  <2> QED
    BY <1>2, <2>1, <2>2, <2>3, <2>4 DEF CallStep
<1>3. ASSUME NEW r \in Requests, InsertFails(r) \/ ReadBackFails(r) \/ CallCrash(r)
      PROVE  CallType'
  BY <1>3 DEF InsertFails, ReadBackFails, CallCrash, Fails, Goes
<1>4. ASSUME UNCHANGED callVars PROVE CallType'
  BY <1>4
<1> QED
  BY <1>1, <1>2, <1>3, <1>4
  DEF Next, Client, HandlerStep, WorkerStep, Fault, vars, CancelRead, Click, Deliver,
      HandlerRelease, GiveBack, ReadForPayment, Pay, PayOr, Refund, Acknowledge,
      HoldElapses, ExpirySelect, ExpiryRelease, SyncStock, ActorCrash

RedisType == /\ stock \in [Categories -> Int] /\ present \subseteq Categories
             /\ bought \in [Users -> Nat]

\* release.lua keeps the Redis counters typed: bought is floored at zero.
LEMMA ReturnTyped ==
  ASSUME TypeOK, NEW o \in Requests, ask[o].cat \in Categories, ReturnToRedis(o)
  PROVE  RedisType'
<1>1. ask[o].qty \in Nat /\ ask[o].user \in Users
  BY AskType
<1> QED
  BY <1>1 DEF ReturnToRedis, RedisType, TypeOK

\* Types of the Redis keys.
LEMMA RedisTypeKept ==
  ASSUME TypeOK, Whereabouts, [Next]_vars
  PROVE  RedisType'
<1>1. ASSUME NEW r \in Requests, Reserve(r) PROVE RedisType'
  <2>1. ask[r].qty \in Nat /\ ask[r].user \in Users /\ ask[r].cat \in Categories
    BY <1>1, AskType DEF Reserve, Whereabouts, CatKnown
  <2>2. CASE UNCHANGED redisVars
    BY <2>2 DEF RedisType, TypeOK, redisVars
  <2>3. CASE TakeFromRedis(r)
    BY <2>1, <2>3 DEF TakeFromRedis, RedisType, TypeOK
  <2> QED
    BY <1>1, <2>2, <2>3 DEF Reserve, Refuse
<1>2. ASSUME NEW r \in Requests, Undo(r) PROVE RedisType'
  BY <1>2, ReturnTyped DEF Undo, Whereabouts, CatKnown
<1>3. ASSUME NEW a \in Actors, GiveBack(a) PROVE RedisType'
  <2>1. task[a].order \in Requests
    BY <1>3, TaskTyped DEF GiveBack
  <2>2. ask[task[a].order].cat \in Categories
    BY <1>3, <2>1 DEF GiveBack, Whereabouts, TasksBorn, CatKnown
  <2> QED
    BY <1>3, <2>1, <2>2, ReturnTyped DEF GiveBack
<1>4. ASSUME NEW c \in Categories, SyncStock(c) PROVE RedisType'
  <2>1. Quota[c] \in Nat /\ sold[c] \in Nat /\ reserved[c] \in Nat
    BY LimitsAssumption DEF TypeOK
  <2>2. Quota[c] - sold[c] - reserved[c] \in Int
    BY <2>1
  <2> QED
    BY <1>4, <2>2 DEF SyncStock, RedisType, TypeOK
<1>5. ASSUME UNCHANGED redisVars PROVE RedisType'
  BY <1>5 DEF RedisType, TypeOK, redisVars
<1> QED
  BY <1>1, <1>2, <1>3, <1>4, <1>5
  DEF Next, Client, CallStep, HandlerStep, WorkerStep, Fault, vars, Actors, Submit, Lookup,
      InsertOrder, ReadBack, FindTwin, InsertFails, ReadBackFails, CallCrash, CancelRead,
      Click, Deliver, HandlerRelease, ReadForPayment, Pay, PayOr, Refund, Acknowledge,
      HoldElapses, ExpirySelect, ExpiryRelease, ActorCrash

TaskType == /\ task \in [Actors -> Tasks \cup {Idle}]
            /\ batch \in [Workers -> SUBSET Requests] /\ sent \subseteq Messages

\* Giving an actor a task, or none, is typed.
LEMMA TaskSet ==
  ASSUME TypeOK, NEW a \in Actors, NEW t \in Tasks \cup {Idle},
         task' = [task EXCEPT ![a] = t]
  PROVE  task' \in [Actors -> Tasks \cup {Idle}]
BY DEF TypeOK

\* A busy actor that goes to its next step has a typed task.
LEMMA TaskMoves ==
  ASSUME TypeOK, NEW a \in Actors, task[a].step # "idle",
         NEW p \in {"read", "release", "pay", "refund", "giveBack", "ack"},
         NEW s \in Statuses
  PROVE  /\ [task[a] EXCEPT !.step = p] \in Tasks
         /\ [task[a] EXCEPT !.step = p, !.seen = s] \in Tasks
BY TaskTyped DEF Tasks

\* Types of tasks, batches and notifications.
LEMMA TaskTypeKept ==
  ASSUME TypeOK, [Next]_vars
  PROVE  TaskType'
<1> USE DEF Actors
<1>1. ASSUME NEW a \in Actors, NEW o \in Requests,
             NEW kind \in {"settlement", "failed", "cancel", "expiry"},
             ReleaseOrder(a, o, kind)
      PROVE  task' \in [Actors -> Tasks \cup {Idle}]
  <2>1. [step |-> "giveBack", order |-> o, kind |-> kind, seen |-> "PENDING"] \in Tasks
    BY DEF Tasks, Statuses
  <2> QED
    BY <1>1, <2>1, TaskSet DEF ReleaseOrder
<1>2. ASSUME NEW h \in Handlers, NEW o \in Requests, CancelRead(h, o) PROVE TaskType'
  <2>1. [step |-> "release", order |-> o, kind |-> "cancel", seen |-> "PENDING"] \in Tasks
    BY DEF Tasks, Statuses
  <2> QED
    BY <1>2, <2>1, TaskSet DEF CancelRead, TaskType, TypeOK
<1>3. ASSUME NEW h \in Handlers, NEW m \in sent, Deliver(h, m) PROVE TaskType'
  <2>1. m \in Messages
    BY DEF TypeOK
  <2>2. [step |-> "read", order |-> m.order, kind |-> m.kind, seen |-> "NONE"] \in Tasks
    BY <2>1 DEF Messages, Tasks, Statuses
  <2> QED
    BY <1>3, <2>2, TaskSet DEF Deliver, TaskType, TypeOK
<1>4. ASSUME NEW h \in Handlers, HandlerRelease(h) PROVE TaskType'
  <2>1. /\ task[h].order \in Requests
        /\ task[h].kind \in {"settlement", "failed", "cancel", "expiry"}
    BY <1>4, TaskTyped DEF HandlerRelease
  <2> QED
    BY <1>1, <1>4, <2>1 DEF HandlerRelease, TaskType, TypeOK
<1>5. ASSUME NEW a \in Actors, GiveBack(a) \/ Acknowledge(a) PROVE TaskType'
  BY <1>5, TaskSet DEF GiveBack, Acknowledge, TaskType, TypeOK
<1>6. ASSUME NEW h \in Handlers, ReadForPayment(h) PROVE TaskType'
  <2>1. task[h].step # "idle" /\ task[h].order \in Requests
    BY <1>6, TaskTyped DEF ReadForPayment
  <2>2. status[task[h].order] \in Statuses
    BY <2>1 DEF TypeOK
  <2>3. PICK p \in {"release", "pay", "refund", "ack"} :
          task' = [task EXCEPT ![h] = [@ EXCEPT !.step = p, !.seen = status[task[h].order]]]
    BY <1>6 DEF ReadForPayment, TypeOK
  <2> QED
    BY <1>6, <2>1, <2>2, <2>3, TaskMoves, TaskSet DEF ReadForPayment, TaskType, TypeOK
<1>7. ASSUME NEW h \in Handlers, Pay(h) \/ Refund(h) PROVE TaskType'
  <2>1. task[h].step # "idle"
    BY <1>7 DEF Pay, PayOr, Refund
  <2>2. PICK p \in {"ack", "read"} : task' = [task EXCEPT ![h] = [@ EXCEPT !.step = p]]
    BY <1>7 DEF Pay, PayOr, Refund, TypeOK
  <2>3. [task[h] EXCEPT !.step = p] \in Tasks
    BY <2>1, TaskMoves DEF Statuses
  <2> QED
    BY <1>7, <2>2, <2>3, TaskSet DEF Pay, PayOr, Refund, TaskType, TypeOK
<1>8. ASSUME NEW w \in Workers, ExpiryRelease(w) PROVE TaskType'
  <2>1. PICK o \in batch[w] : /\ batch' = [batch EXCEPT ![w] = @ \ {o}]
                              /\ ReleaseOrder(w, o, "expiry")
    BY <1>8 DEF ExpiryRelease
  <2>2. o \in Requests
    BY <2>1 DEF TypeOK
  <2> QED
    BY <1>1, <1>8, <2>1, <2>2 DEF ExpiryRelease, TaskType, TypeOK
<1>9. ASSUME NEW w \in Workers, ExpirySelect(w) PROVE TaskType'
  BY <1>9 DEF ExpirySelect, DuePending, TaskType, TypeOK
<1>10. ASSUME NEW a \in Actors, ActorCrash(a) PROVE TaskType'
  BY <1>10, TaskSet DEF ActorCrash, TaskType, TypeOK
<1>11. ASSUME NEW o \in Requests, NEW k \in {"settlement", "failed"}, Click(o, k)
       PROVE  TaskType'
  BY <1>11 DEF Click, TaskType, TypeOK, Messages
<1>12. ASSUME UNCHANGED <<task, batch, sent>> PROVE TaskType'
  BY <1>12 DEF TaskType, TypeOK
<1> QED
  BY <1>2, <1>3, <1>4, <1>5, <1>6, <1>7, <1>8, <1>9, <1>10, <1>11, <1>12
  DEF Next, Client, CallStep, HandlerStep, WorkerStep, Fault, vars, Submit, Lookup, Reserve,
      InsertOrder, ReadBack, Undo, FindTwin, InsertFails, ReadBackFails, CallCrash,
      HoldElapses, SyncStock

LogType == due \subseteq Requests /\ settled \subseteq Requests /\ leaked \subseteq Requests

\* Types of the sets of orders.
LEMMA LogTypeKept ==
  ASSUME TypeOK, [Next]_vars
  PROVE  LogType'
<1> USE DEF LogType, TypeOK, Actors, outcomeVars
<1>1. ASSUME NEW r \in Requests, CallCrash(r) PROVE LogType'
  BY <1>1 DEF CallCrash
<1>2. ASSUME NEW o \in Requests, HoldElapses(o) PROVE LogType'
  BY <1>2 DEF HoldElapses
<1>3. ASSUME NEW h \in Handlers, HandlerRelease(h) PROVE LogType'
  <2>1. task[h].order \in Requests
    BY <1>3, TaskTyped DEF HandlerRelease
  <2> QED
    BY <1>3, <2>1 DEF HandlerRelease, ReleaseOrder
<1>4. ASSUME NEW a \in Actors, GiveBack(a) \/ Acknowledge(a) \/ ActorCrash(a) PROVE LogType'
  <2>1. task[a].step \in {"giveBack", "ack"} => task[a].order \in Requests
    BY TaskTyped
  <2> QED
    BY <1>4, <2>1 DEF GiveBack, Acknowledge, ActorCrash
<1>5. ASSUME NEW w \in Workers, ExpiryRelease(w) PROVE LogType'
  BY <1>5 DEF ExpiryRelease, ReleaseOrder
<1>6. ASSUME UNCHANGED <<due, outcomeVars>> PROVE LogType'
  BY <1>6
<1> QED
  BY <1>1, <1>2, <1>3, <1>4, <1>5, <1>6
  DEF Next, Client, CallStep, HandlerStep, WorkerStep, Fault, vars, Submit, Lookup, Reserve,
      InsertOrder, ReadBack, Undo, FindTwin, InsertFails, ReadBackFails, CancelRead, Click,
      Deliver, ReadForPayment, Pay, PayOr, Refund, ExpirySelect, SyncStock

RowType == status \in [Requests -> Statuses] /\ tickets \subseteq Requests \X Nat

\* Types of orders and tickets.
LEMMA RowTypeKept ==
  ASSUME TypeOK, DbCases
  PROVE  RowType'
<1> USE DEF RowType, TypeOK
<1>1. CASE Still
  BY <1>1 DEF Still, dbVars
<1>2. ASSUME NEW o \in Requests, Inserts(o) \/ Releases(o) \/ Refunds(o) PROVE RowType'
  BY <1>2 DEF Inserts, Releases, Refunds, Released, Statuses
<1>3. ASSUME NEW o \in Requests, Pays(o) PROVE RowType'
  <2>1. {o} \X (1 .. ask[o].qty) \subseteq Requests \X Nat
    BY AskType
  <2> QED
    BY <1>3, <2>1 DEF Pays, Statuses
<1> QED
  BY <1>1, <1>2, <1>3 DEF DbCases

\* The counters stay natural because they are the sizes of sets.
LEMMA CounterTypeKept ==
  ASSUME TypeOK, DbCases, CallType', RowType', QuotaLedger'
  PROVE  (reserved \in [Categories -> Nat] /\ sold \in [Categories -> Nat])'
<1>1. /\ DOMAIN reserved' = Categories /\ reserved' = [c \in Categories |-> reserved'[c]]
      /\ DOMAIN sold' = Categories /\ sold' = [c \in Categories |-> sold'[c]]
  BY DEF TypeOK, DbCases, Still, Inserts, Releases, Pays, Refunds, dbVars
<1>2. ASSUME NEW S, NEW c PROVE CatLoad(S, c)' \in Nat
  <2>1. /\ {o \in OfCat(c)' : status'[o] \in S} \in SUBSET Requests
        /\ ask' \in [Requests -> Asks]
    BY DEF OfCat, CallType
  <2> QED
    BY <2>1, UnitsFinite DEF CatLoad, Load
<1>3. \A c \in Categories : reserved'[c] \in Nat /\ sold'[c] \in Nat
  BY <1>2, BooksInLoads
<1> QED
  BY <1>1, <1>3

\* Every step keeps the types.
LEMMA TypeKept ==
  ASSUME TypeOK, Whereabouts, Books, [Next]_vars
  PROVE  TypeOK'
<1>1. DbCases /\ QuotaLedger'
  BY DbStepCases, BooksKept DEF Books
<1>2. CallType' /\ RedisType' /\ TaskType' /\ LogType' /\ RowType'
  BY <1>1, CallTypeKept, RedisTypeKept, TaskTypeKept, LogTypeKept, RowTypeKept
<1>3. (reserved \in [Categories -> Nat] /\ sold \in [Categories -> Nat])'
  BY <1>1, <1>2, CounterTypeKept
<1> QED
  BY <1>2, <1>3 DEF TypeOK, CallType, RedisType, TaskType, LogType, RowType

-----------------------------------------------------------------------------
(* Whereabouts of processes *)

\* Rows never disappear, and only Inserts makes one.
LEMMA RowsStay ==
  ASSUME TypeOK, DbCases
  PROVE  /\ \A p \in Requests : status[p] # "NONE" => status'[p] # "NONE"
         /\ \A p \in Requests : status[p] # "NONE" => ask'[p] = ask[p]
         /\ \A p \in Requests : status[p] = "NONE" /\ status'[p] # "NONE" =>
              ask'[p].cat \in Categories
BY DEF DbCases, Still, Inserts, Releases, Pays, Refunds, Released, TypeOK, dbVars

\* What one step of a call may do to it.
CallMoves(r) ==
  /\ \A p \in Requests \ {r} : at'[p] = at[p] /\ ask'[p] = ask[p]
  /\ at'[r] \in {"reserve", "insert", "readBack", "undo"} =>
       /\ ask'[r].cat \in Categories
       /\ at'[r] \in {"reserve", "insert"} => at[r] \in {"lookup", "reserve"}
  /\ at'[r] \in {"unsent", "lookup"} => at[r] = "unsent"

\* A step moves no call, or one call by one step of createOrder.
LEMMA CallCases ==
  ASSUME TypeOK, Whereabouts, [Next]_vars
  PROVE  (at' = at /\ ask' = ask) \/ \E r \in Requests : CallMoves(r) /\ at[r] # at'[r]
<1> DEFINE Goal == (at' = at /\ ask' = ask)
                     \/ \E r \in Requests : CallMoves(r) /\ at[r] # at'[r]
<1> USE DEF TypeOK, Whereabouts, CatKnown, CallMoves, Answer, Goes, Fails
<1>1. ASSUME NEW r \in Requests, Submit(r) PROVE Goal
  BY <1>1 DEF Submit
<1>2. ASSUME NEW r \in Requests, Lookup(r) PROVE Goal
  BY <1>2 DEF Lookup
<1>3. ASSUME NEW r \in Requests, Reserve(r) PROVE Goal
  BY <1>3 DEF Reserve, Refuse
<1>4. ASSUME NEW r \in Requests, InsertOrder(r) PROVE Goal
  BY <1>4 DEF InsertOrder
<1>5. ASSUME NEW r \in Requests, ReadBack(r) \/ Undo(r) \/ FindTwin(r) PROVE Goal
  BY <1>5 DEF ReadBack, Undo, FindTwin
<1>6. ASSUME NEW r \in Requests, InsertFails(r) \/ ReadBackFails(r) \/ CallCrash(r) PROVE Goal
  BY <1>6 DEF InsertFails, ReadBackFails, CallCrash
<1>7. ASSUME UNCHANGED callVars PROVE Goal
  BY <1>7 DEF callVars
<1> QED
  BY <1>1, <1>2, <1>3, <1>4, <1>5, <1>6, <1>7
  DEF Next, Client, CallStep, HandlerStep, WorkerStep, Fault, vars, CancelRead, Click,
      Deliver, HandlerRelease, GiveBack, ReadForPayment, Pay, PayOr, Refund, Acknowledge,
      HoldElapses, ExpirySelect, ExpiryRelease, SyncStock, ActorCrash

\* No step brings a call or an order to a category the event has not.
LEMMA CatKnownKept ==
  ASSUME TypeOK, Whereabouts, [Next]_vars
  PROVE  CatKnown'
<1>1. DbCases
  BY DbStepCases
<1> QED
  BY <1>1, RowsStay, CallCases DEF Whereabouts, CatKnown, CallMoves

\* A row is made by the INSERT of its own call and by nothing else.
LEMMA BornByInsert ==
  ASSUME TypeOK, Whereabouts, [Next]_vars,
         NEW r \in Requests, status[r] = "NONE", status'[r] # "NONE"
  PROVE  at[r] = "insert" /\ at'[r] = "readBack"
<1>1. ASSUME NEW p \in Requests, InsertOrder(p) PROVE at[r] = "insert" /\ at'[r] = "readBack"
  BY <1>1 DEF InsertOrder, Fails, Goes, TypeOK, dbVars
<1>2. ASSUME NEW a \in Actors, NEW o, NEW kind, ReleaseOrder(a, o, kind) PROVE FALSE
  BY <1>2 DEF ReleaseOrder, MayRelease, TypeOK, dbVars
<1>3. ASSUME NEW h \in Handlers, Pay(h) PROVE FALSE
  BY <1>3 DEF Pay, PayOr, Payable, TypeOK, dbVars
<1>4. ASSUME NEW h \in Handlers, Refund(h) PROVE FALSE
  BY <1>4 DEF Refund, TypeOK, Whereabouts, RefundSeen, Released, Actors
<1>5. status' # status
  OBVIOUS
<1> QED
  BY <1>1, <1>2, <1>3, <1>4, <1>5
  DEF Next, Client, CallStep, HandlerStep, WorkerStep, Fault, vars, dbVars, Actors, Submit,
      Lookup, Reserve, ReadBack, Undo, FindTwin, InsertFails, ReadBackFails, CallCrash,
      CancelRead, Click, Deliver, HandlerRelease, GiveBack, ReadForPayment, Acknowledge,
      HoldElapses, ExpirySelect, ExpiryRelease, SyncStock, ActorCrash

\* A call that has just inserted is past its INSERT.
LEMMA UnbornKept ==
  ASSUME TypeOK, Whereabouts, [Next]_vars
  PROVE  Unborn'
<1> SUFFICES ASSUME NEW r \in Requests, at'[r] \in {"unsent", "lookup", "reserve", "insert"}
             PROVE  status'[r] = "NONE"
  BY DEF Unborn
<1>1. at[r] \in {"unsent", "lookup", "reserve", "insert"}
  BY CallCases DEF CallMoves
<1>2. status[r] = "NONE"
  BY <1>1 DEF Whereabouts, Unborn
<1> QED
  BY <1>2, BornByInsert

\* A task that returns units does so for a row, one that refunds saw a release.
Sound(t) == /\ t.step = "giveBack" => status'[t.order] # "NONE"
            /\ t.step = "refund" => t.seen \in Released

\* Sound tasks stay so when one is replaced by a sound one.
LEMMA SoundTasks ==
  ASSUME TypeOK, Whereabouts, DbCases,
         \/ task' = task
         \/ \E a \in Actors : \E t : Sound(t) /\ task' = [task EXCEPT ![a] = t]
  PROVE  (TasksBorn /\ RefundSeen)'
<1>1. \A a \in Actors : Sound(task[a])
  BY RowsStay, TaskTyped DEF Sound, Whereabouts, TasksBorn, RefundSeen
<1>2. \A a \in Actors : Sound(task'[a])
  BY <1>1 DEF TypeOK
<1> QED
  BY <1>2 DEF Sound, TasksBorn, RefundSeen

\* Every step leaves tasks sound.
LEMMA TasksKept ==
  ASSUME TypeOK, Whereabouts, [Next]_vars
  PROVE  (TasksBorn /\ RefundSeen)'
<1> DEFINE Goal == \/ task' = task
                   \/ \E a \in Actors : \E t : Sound(t) /\ task' = [task EXCEPT ![a] = t]
<1> USE DEF Sound, Actors
<1>1. ASSUME NEW a \in Actors, NEW o \in Requests, NEW kind, ReleaseOrder(a, o, kind)
      PROVE  Goal
  <2>1. CASE task' = [task EXCEPT ![a] = Idle]
    BY <2>1 DEF Idle
  <2>2. CASE /\ MayRelease(o, kind)
             /\ status' = [status EXCEPT ![o] = IF kind = "expiry" THEN "EXPIRED" ELSE "CANCELLED"]
             /\ task' = [task EXCEPT ![a] = [step |-> "giveBack", order |-> o,
                                             kind |-> kind, seen |-> "PENDING"]]
    BY <2>2 DEF TypeOK
  <2> QED
    BY <1>1, <2>1, <2>2 DEF ReleaseOrder
<1>2. ASSUME NEW h \in Handlers, HandlerRelease(h) PROVE Goal
  <2>1. task[h].order \in Requests
    BY <1>2, TaskTyped DEF HandlerRelease
  <2> QED
    BY <1>1, <1>2, <2>1 DEF HandlerRelease
<1>3. ASSUME NEW w \in Workers, ExpiryRelease(w) PROVE Goal
  BY <1>1, <1>3 DEF ExpiryRelease, TypeOK
<1>4. ASSUME NEW h \in Handlers, \/ \E o \in Requests : CancelRead(h, o)
                                 \/ \E m \in sent : Deliver(h, m)
      PROVE  Goal
  BY <1>4 DEF CancelRead, Deliver
<1>5. ASSUME NEW a \in Actors, GiveBack(a) \/ Acknowledge(a) \/ ActorCrash(a) PROVE Goal
  BY <1>5 DEF GiveBack, Acknowledge, ActorCrash, Idle
<1>6. ASSUME NEW h \in Handlers, ReadForPayment(h) PROVE Goal
  <2>1. task[h] \in Tasks
    BY <1>6 DEF ReadForPayment, TypeOK, Idle
  <2> DEFINE s == status[task[h].order]
  <2>2. PICK p \in {"release", "pay", "refund", "ack"} :
          /\ task' = [task EXCEPT ![h] = [@ EXCEPT !.step = p, !.seen = s]]
          /\ p = "refund" => s \in Released
    BY <1>6 DEF ReadForPayment, TypeOK
  <2>3. Sound([task[h] EXCEPT !.step = p, !.seen = s])
    BY <2>1, <2>2 DEF Tasks
  <2> QED
    BY <2>2, <2>3
<1>7. ASSUME NEW h \in Handlers, Pay(h) \/ Refund(h) PROVE Goal
  <2>1. task[h] \in Tasks
    BY <1>7 DEF Pay, PayOr, Refund, TypeOK, Idle
  <2>2. PICK p \in {"ack", "read"} : task' = [task EXCEPT ![h] = [@ EXCEPT !.step = p]]
    BY <1>7 DEF Pay, PayOr, Refund, TypeOK
  <2>3. Sound([task[h] EXCEPT !.step = p])
    BY <2>1, <2>2 DEF Tasks
  <2> QED
    BY <2>2, <2>3
<1>8. Goal
  BY <1>2, <1>3, <1>4, <1>5, <1>6, <1>7
  DEF Next, Client, CallStep, HandlerStep, WorkerStep, Fault, vars, Submit, Lookup, Reserve,
      InsertOrder, ReadBack, Undo, FindTwin, InsertFails, ReadBackFails, CallCrash, Click,
      HoldElapses, ExpirySelect, SyncStock
<1> QED
  BY <1>8, DbStepCases, SoundTasks

-----------------------------------------------------------------------------
(* The invariant and what follows from it *)

\* Every step of the system keeps the inductive invariant.
LEMMA IInvKept == IInv /\ [Next]_vars => IInv'
<1> SUFFICES ASSUME IInv, [Next]_vars PROVE IInv'
  OBVIOUS
<1>1. TypeOK /\ Whereabouts /\ Books
  BY DEF IInv
<1>2. Books'
  BY <1>1, DbStepCases, BooksKept
<1>3. TypeOK'
  BY <1>1, TypeKept
<1>4. Whereabouts'
  BY <1>1, CatKnownKept, UnbornKept, TasksKept DEF Whereabouts
<1> QED
  BY <1>2, <1>3, <1>4 DEF IInv

\* The invariant holds in every reachable state.
LEMMA SpecIInv == Spec => []IInv
BY InitIInv, IInvKept, PTL DEF Spec

\* Every variable stays in its type, in every interleaving and under every fault.
THEOREM TypeCorrect == Spec => []TypeOK
<1>1. IInv => TypeOK
  BY DEF IInv
<1> QED
  BY <1>1, SpecIInv, PTL

\* The columns reserved and sold of a category are the sums over its orders:
\* reserve, release and pay move an order's tickets exactly once.
THEOREM LedgerExact == Spec => []QuotaLedger
<1>1. IInv => QuotaLedger
  BY DEF IInv, Books
<1> QED
  BY <1>1, SpecIInv, PTL

\* No account holds more than MaxPerUser tickets, whatever Redis answered it.
THEOREM LimitKept == Spec => []AccountLimit
<1>1. IInv => AccountLimit
  BY DEF IInv, Books
<1> QED
  BY <1>1, SpecIInv, PTL

\* Ticket rows exist exactly for paid orders, however late or often the provider
\* notifies.
THEOREM TicketsExact == Spec => []TicketsMatchPaid
<1>1. IInv => TicketsMatchPaid
  BY DEF IInv, Books
<1> QED
  BY <1>1, SpecIInv, PTL

\* Two orders never carry the same account and idempotency key.
THEOREM KeysUnique == Spec => []OneOrderPerKey
<1>1. IInv => OneOrderPerKey
  BY DEF IInv, Books
<1> QED
  BY <1>1, SpecIInv, PTL

\* What the books come to: holds and sales together stay within the quota.
LEMMA BooksBound == IInv => NoOversell
<1> SUFFICES ASSUME IInv, NEW c \in Categories
    PROVE /\ Cardinality(Units(InCategory(c, Holders))) <= Quota[c]
          /\ Cardinality({t \in tickets : ask[t[1]].cat = c}) <= Quota[c]
  BY DEF NoOversell
<1>1. /\ reserved[c] = CatLoad({"PENDING"}, c) /\ sold[c] = CatLoad({"PAID"}, c)
      /\ reserved[c] \in Nat /\ sold[c] \in Nat /\ Quota[c] \in Nat
      /\ sold[c] + reserved[c] <= Quota[c]
  BY BooksInLoads, LimitsAssumption DEF IInv, Books, TypeOK, CountersFit
<1>2. CatLoad({"PENDING", "PAID"}, c) = CatLoad({"PENDING"}, c) + CatLoad({"PAID"}, c)
  BY LoadSplits DEF CatLoad, OfCat, IInv, TypeOK
<1>3. Cardinality(Units(InCategory(c, Holders))) = CatLoad({"PENDING", "PAID"}, c)
  BY LoadOfCat DEF Holders
<1>4. {t \in tickets : ask[t[1]].cat = c} = Units(InCategory(c, WithStatus({"PAID"})))
  BY DEF IInv, Books, TicketsMatchPaid, Units, UnitsOf, InCategory
<1>5. Cardinality({t \in tickets : ask[t[1]].cat = c}) = CatLoad({"PAID"}, c)
  BY <1>4, LoadOfCat
<1> QED
  BY <1>1, <1>2, <1>3, <1>5

\* The event never holds and sells more tickets of a category than its quota,
\* whatever Redis let through: the last guard is PostgreSQL's.
THEOREM NeverOversold == Spec => []NoOversell
BY BooksBound, SpecIInv, PTL

=============================================================================
