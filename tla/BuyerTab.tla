------------------------------- MODULE BuyerTab -------------------------------
(***************************************************************************)
(* One browser tab of one buyer, from the event page through the waiting   *)
(* room and the queue to the checkout page and the order it places: the    *)
(* connection of useQueueState (apps/web/lib/queue.ts) with its stream,    *)
(* polling and retry, the pages that follow its answers                    *)
(* (QueueWatcher.tsx), the join and the checkout, and the routes of the    *)
(* API that answer the tab.                                                *)
(*                                                                         *)
(* What the server would answer to a status call is the variable server;   *)
(* WaitingRoom says how it comes about.  Answers and navigations take      *)
(* time: everything else may happen before they arrive.                    *)
(***************************************************************************)
EXTENDS Integers, FiniteSets, Sequences

CONSTANTS
  Streams,      \* EventSource objects the tab creates
  Polls,        \* bound: status calls in flight at one time
  Keys,         \* bound: idempotency keys the tab uses
  Moves,        \* changes of the account's state that are not the tab's doing
  Links,        \* bound: pages the buyer goes to without being sent there
  Restless,     \* bound: may a page be left while its own calls are in flight?
  MaxReads,     \* bound: pushes of one stream that overlap
  MaxWire       \* bound: events of one stream on their way

States == {"NOT_STARTED", "NOT_IN_QUEUE", "WAITING_ROOM", "WAITING", "ADMITTED", "SOLD_OUT"}
Final  == {"ADMITTED", "SOLD_OUT", "NOT_IN_QUEUE"}
Pages  == {"event", "waiting", "queue", "checkout", "soldOut", "pay"}
QueuePages == {"waiting", "queue"}

ASSUME TabAssumption ==
  /\ Streams # {}
  /\ Moves \subseteq States \X States
  /\ Links \subseteq Pages /\ Restless \in BOOLEAN
  /\ MaxReads \in Nat \ {0} /\ MaxWire \in Nat \ {0}
  /\ "new" \notin Keys

VARIABLES
  server, over,  \* the answer of getQueueState; has the last session ended?
  sse,           \* has the browser EventSource?
  page, going,   \* the page shown, and the one router is on its way to, or page
  finished,      \* finished.current
  phase,         \* readyState of every EventSource
  reading, wire, \* the server's end of each: states read and not written, written
  ticker,        \* pollTimer: undefined, running, or cleared and still defined
  retry,         \* is retryTimer set?
  polls,         \* status calls in flight
  token, kept,   \* the token in sessionStorage; has the page a token to go by?
  joining,       \* the join the event page waits for
  stock, load,   \* checkout: is there stock to choose from; loadStock in flight
  key, call,     \* checkout: idempotencyKey ("new" until used); POST /orders in flight
  visit,         \* history: keys used since the page was mounted
  orders,        \* of those keys and the one in flight, the keys the server has orders for
  failed         \* history: keys of this visit the tab got an error for

serverVars   == <<server, over>>
streamVars   == <<phase, reading, wire>>
connVars     == <<finished, streamVars, ticker, retry, polls>>
tokenVars    == <<token, kept>>
checkoutVars == <<stock, load, key, call, visit, orders, failed>>
vars == <<serverVars, sse, page, going, connVars, tokenVars, joining, checkoutVars>>

Live   == {s \in Streams : phase[s] # "closed"}
NoCall == [step |-> "none"]
Calls  == [step : {"sent", "created", "refused", "lost"}, key : Keys]

-----------------------------------------------------------------------------
(* The connection: useQueueState *)

CloseStream ==
  /\ phase' = [s \in Streams |-> "closed"]
  /\ reading' = [s \in Streams |-> {}]
  /\ wire' = [s \in Streams |-> <<>>]

\* poll: one more status call, when a slot is free.
OneMore(calls) ==
  LET free == {p \in Polls : calls[p] = "none"} IN
  IF free = {} THEN calls ELSE [calls EXCEPT ![CHOOSE p \in free : TRUE] = "asked"]

StartPolling ==
  IF ticker # "unset" \/ finished
    THEN UNCHANGED <<ticker, polls>>
    ELSE ticker' = "on" /\ polls' = OneMore(polls)

\* Mutant: a retry that fires after the last answer opens the stream again.
OpenStreamAnyway ==
  /\ phase' = [phase EXCEPT ![CHOOSE s \in Streams \ Live : TRUE] = "connecting"]
  /\ UNCHANGED <<reading, wire>>

OpenStream ==
  IF finished
    THEN UNCHANGED streamVars
    ELSE /\ phase' = [phase EXCEPT ![CHOOSE s \in Streams \ Live : TRUE] = "connecting"]
         /\ UNCHANGED <<reading, wire>>

\* The page a state belongs to: destination in QueueWatcher.tsx.
Destination(s) ==
  CASE s = "ADMITTED"     -> "checkout"
    [] s = "SOLD_OUT"     -> "soldOut"
    [] s = "WAITING_ROOM" -> "waiting"
    [] s = "WAITING"      -> "queue"
    [] OTHER              -> "event"

\* Mutant: an expiry in the past is not noticed.
SaveUnchecked == token' = "valid" /\ kept' = TRUE

\* saveQueueToken; the page reads it again, and an expired one reads as null.
SaveToken ==
  /\ token' = IF over THEN "expired" ELSE "valid"
  /\ kept' = ~over

\* A final answer ends the stream and the polling; pollTimer stays defined.
Finish ==
  /\ finished' = TRUE
  /\ CloseStream
  /\ ticker' = IF ticker = "on" THEN "off" ELSE ticker

\* What apply and the page's effect on a new state do outside of the connection.
Shows(s) ==
  /\ IF s = "ADMITTED" THEN SaveToken ELSE UNCHANGED tokenVars
  /\ going' = IF Destination(s) = page THEN going ELSE Destination(s)

-----------------------------------------------------------------------------
(* Pages *)

Init ==
  /\ server \in {"NOT_STARTED", "NOT_IN_QUEUE"} /\ over = TRUE
  /\ sse \in BOOLEAN
  /\ page = "event" /\ going = "event"
  /\ finished = FALSE
  /\ phase = [s \in Streams |-> "closed"]
  /\ reading = [s \in Streams |-> {}] /\ wire = [s \in Streams |-> <<>>]
  /\ ticker = "unset" /\ retry = FALSE
  /\ polls = [p \in Polls |-> "none"]
  /\ token = "none" /\ kept = FALSE
  /\ joining = "no"
  /\ stock = FALSE /\ load = "none"
  /\ key = "new" /\ call = NoCall
  /\ visit = {} /\ orders = {} /\ failed = {}

\* No join, loadStock or POST /orders is in flight.
Settled == joining = "no" /\ load = "none" /\ call = NoCall

\* The effects of the page that is left are cleaned up (answers to its status calls
\* are ignored from then on), the new page mounts and, on the queue's pages, connects.
Navigate ==
  LET connects == going \in QueuePages
      idle     == [p \in Polls |-> "none"]
  IN
  /\ going # page /\ (Restless \/ Settled)
  /\ page' = going
  /\ finished' = FALSE /\ retry' = FALSE
  /\ phase' = [s \in Streams |->
                 IF connects /\ sse /\ s = (CHOOSE t \in Streams : TRUE)
                   THEN "connecting" ELSE "closed"]
  /\ reading' = [s \in Streams |-> {}] /\ wire' = [s \in Streams |-> <<>>]
  /\ ticker' = IF connects /\ ~sse THEN "on" ELSE "unset"
  /\ polls' = IF connects /\ ~sse THEN OneMore(idle) ELSE idle
  /\ kept' = (token = "valid")
  /\ stock' = FALSE /\ key' = "new"
  /\ visit' = {} /\ failed' = {}
  /\ orders' = {k \in orders : call # NoCall /\ call.key = k}
  /\ UNCHANGED <<serverVars, sse, going, token, joining, load, call>>

\* The buyer follows a link, goes back, or leaves the queue's page.
BuyerGoes(p) ==
  /\ p # page /\ (Restless \/ Settled)
  /\ going' = p
  /\ UNCHANGED <<serverVars, sse, page, connVars, tokenVars, joining, checkoutVars>>

-----------------------------------------------------------------------------
(* The stream *)

\* Mutant: the polling stops and its handle stays.
OpensKeepingHandle(s) ==
  /\ phase[s] = "connecting"
  /\ phase' = [phase EXCEPT ![s] = "open"]
  /\ ticker' = IF ticker = "on" THEN "off" ELSE ticker
  /\ UNCHANGED <<serverVars, sse, page, going, finished, reading, wire, retry, polls,
                 tokenVars, joining, checkoutVars>>

\* "open": the polling stops.
Opens(s) ==
  /\ phase[s] = "connecting"
  /\ phase' = [phase EXCEPT ![s] = "open"]
  /\ ticker' = "unset"
  /\ UNCHANGED <<serverVars, sse, page, going, finished, reading, wire, retry, polls,
                 tokenVars, joining, checkoutVars>>

Ended(s) == \E i \in DOMAIN wire[s] : wire[s][i] \in Final

\* push, up to and after its await; a final state ends the server's side.
PushReads(s) ==
  /\ phase[s] = "open" /\ ~Ended(s)
  /\ server \notin reading[s] /\ Cardinality(reading[s]) < MaxReads
  /\ reading' = [reading EXCEPT ![s] = @ \cup {server}]
  /\ UNCHANGED <<serverVars, sse, page, going, finished, phase, wire, ticker, retry, polls,
                 tokenVars, joining, checkoutVars>>

PushWrites(s) ==
  /\ Len(wire[s]) < MaxWire
  /\ \E x \in reading[s] :
       /\ wire' = [wire EXCEPT ![s] = Append(@, x)]
       /\ reading' = [reading EXCEPT ![s] = IF x \in Final THEN {} ELSE @ \ {x}]
  /\ UNCHANGED <<serverVars, sse, page, going, finished, phase, ticker, retry, polls,
                 tokenVars, joining, checkoutVars>>

\* "status".
StatusArrives(s) ==
  /\ wire[s] # <<>>
  /\ Shows(Head(wire[s]))
  /\ IF Head(wire[s]) \in Final
       THEN Finish
       ELSE /\ wire' = [wire EXCEPT ![s] = Tail(@)]
            /\ UNCHANGED <<finished, phase, reading, ticker>>
  /\ UNCHANGED <<serverVars, sse, page, retry, polls, joining, checkoutVars>>

\* Mutant: the source is not closed, so that the browser connects it again by itself.
BreaksUnclosed(s) ==
  /\ phase[s] # "closed"
  /\ phase' = [phase EXCEPT ![s] = "connecting"]
  /\ reading' = [reading EXCEPT ![s] = {}] /\ wire' = [wire EXCEPT ![s] = <<>>]
  /\ StartPolling
  /\ retry' = TRUE
  /\ UNCHANGED <<serverVars, sse, page, going, finished, tokenVars, joining, checkoutVars>>

\* "error": the connection fails, or the server ended it; polling takes over.
Breaks(s) ==
  /\ phase[s] # "closed"
  /\ CloseStream
  /\ StartPolling
  /\ retry' = TRUE
  /\ UNCHANGED <<serverVars, sse, page, going, finished, tokenVars, joining, checkoutVars>>

RetryFires ==
  /\ retry
  /\ retry' = FALSE
  /\ OpenStream
  /\ UNCHANGED <<serverVars, sse, page, going, finished, ticker, polls, tokenVars, joining,
                 checkoutVars>>

-----------------------------------------------------------------------------
(* Polling: the answers may overtake each other *)

PollTick ==
  /\ ticker = "on"
  /\ OneMore(polls) # polls
  /\ polls' = OneMore(polls)
  /\ UNCHANGED <<serverVars, sse, page, going, finished, streamVars, ticker, retry, tokenVars,
                 joining, checkoutVars>>

\* GET /queue/status, which a SOLD_OUT answers with 410 and the state all the same.
PollServed(p) ==
  /\ polls[p] = "asked"
  /\ polls' = [polls EXCEPT ![p] = server]
  /\ UNCHANGED <<serverVars, sse, page, going, finished, streamVars, ticker, retry, tokenVars,
                 joining, checkoutVars>>

\* The call or its answer is lost, or refused by the rate limit.
PollFails(p) ==
  /\ polls[p] # "none"
  /\ polls' = [polls EXCEPT ![p] = "none"]
  /\ UNCHANGED <<serverVars, sse, page, going, finished, streamVars, ticker, retry, tokenVars,
                 joining, checkoutVars>>

PollAnswered(p) ==
  /\ polls[p] \in States
  /\ Shows(polls[p])
  /\ polls' = [polls EXCEPT ![p] = "none"]
  /\ IF polls[p] \in Final THEN Finish ELSE UNCHANGED <<finished, streamVars, ticker>>
  /\ UNCHANGED <<serverVars, sse, page, retry, joining, checkoutVars>>

-----------------------------------------------------------------------------
(* The account, and the join of the event page *)

AccountMoves ==
  /\ \E m \in Moves :
       /\ server = m[1] /\ server' = m[2]
       /\ over' = IF m[2] = "ADMITTED" THEN FALSE ELSE over
  /\ UNCHANGED <<sse, page, going, connVars, tokenVars, joining, checkoutVars>>

\* The end of the session ends its tokens too; the page has parsed its token before.
SessionEnds ==
  /\ ~over /\ over' = TRUE
  /\ server' = IF server = "ADMITTED" THEN "NOT_IN_QUEUE" ELSE server
  /\ token' = IF token = "valid" THEN "expired" ELSE token
  /\ load' = IF load = "asked" THEN "askedLate" ELSE load
  /\ UNCHANGED <<sse, page, going, connVars, kept, joining, stock, key, call, visit, orders, failed>>

JoinAsks ==
  /\ page = "event" /\ ~kept /\ joining = "no"
  /\ joining' = "asked"
  /\ UNCHANGED <<serverVars, sse, page, going, connVars, tokenVars, checkoutVars>>

\* lua.join, and then the state it is answered with.
JoinServed ==
  /\ joining = "asked"
  /\ \/ /\ server = "NOT_IN_QUEUE"
        /\ server' \in {"WAITING_ROOM", "WAITING"}
        /\ joining' = "joined"
     \/ /\ server \in {"WAITING_ROOM", "WAITING", "ADMITTED"}
        /\ joining' = "joined"
        /\ UNCHANGED server
     \/ /\ server \in {"SOLD_OUT", "NOT_STARTED", "NOT_IN_QUEUE"}
        /\ joining' = IF server = "SOLD_OUT" THEN "soldOut" ELSE "refused"
        /\ UNCHANGED server
  /\ UNCHANGED <<over, sse, page, going, connVars, tokenVars, checkoutVars>>

JoinReads ==
  /\ joining = "joined"
  /\ joining' \in {server, "refused"}
  /\ UNCHANGED <<serverVars, sse, page, going, connVars, tokenVars, checkoutVars>>

JoinAnswered ==
  /\ joining \notin {"no", "asked", "joined"}
  /\ joining' = "no"
  /\ IF joining = "ADMITTED" THEN SaveToken ELSE UNCHANGED tokenVars
  /\ going' = CASE joining = "ADMITTED"     -> "checkout"
                [] joining = "WAITING_ROOM" -> "waiting"
                [] joining = "soldOut"      -> "soldOut"
                [] joining = "refused"      -> going
                [] OTHER                    -> "queue"
  /\ UNCHANGED <<serverVars, sse, page, connVars, checkoutVars>>

\* DELETE /queue, asked for on the queue's page; the page then goes to the event's.
LeaveServed ==
  /\ page = "queue"
  /\ server' = IF server \in {"WAITING_ROOM", "WAITING", "ADMITTED"}
                 THEN "NOT_IN_QUEUE" ELSE server
  /\ going' = "event"
  /\ UNCHANGED <<over, sse, page, connVars, tokenVars, joining, checkoutVars>>

-----------------------------------------------------------------------------
(* Checkout *)

\* loadStock, every five seconds while the page has a token to go by.
LoadAsks ==
  /\ page = "checkout" /\ kept /\ load = "none"
  /\ load' = IF token = "valid" THEN "asked" ELSE "askedLate"
  /\ UNCHANGED <<serverVars, sse, page, going, connVars, tokenVars, joining, stock, key, call,
                 visit, orders, failed>>

LoadServed ==
  /\ load \in {"asked", "askedLate"}
  /\ load' \in {IF load = "asked" THEN "ok" ELSE "refused", "none"}
  /\ UNCHANGED <<serverVars, sse, page, going, connVars, tokenVars, joining, stock, key, call,
                 visit, orders, failed>>

\* A refused token is cleared, whichever token is stored by then.
LoadAnswered ==
  /\ load \in {"ok", "refused"}
  /\ load' = "none"
  /\ stock' = (stock \/ (load = "ok" /\ page = "checkout"))
  /\ token' = IF load = "refused" THEN "none" ELSE token
  /\ kept' = (kept /\ load = "ok")
  /\ UNCHANGED <<serverVars, sse, page, going, connVars, joining, key, call, visit, orders, failed>>

FreshKeys == Keys \ (visit \cup orders)

\* submit, from a button that is enabled when no call is on its way.
Submit ==
  /\ page = "checkout" /\ kept /\ stock /\ call = NoCall
  /\ \E k \in (IF key = "new" THEN FreshKeys ELSE {key}) :
       /\ key' = k
       /\ visit' = visit \cup {k}
       /\ call' = [step |-> "sent", key |-> k]
  /\ UNCHANGED <<serverVars, sse, page, going, connVars, tokenVars, joining, stock, load,
                 orders, failed>>

\* POST /orders: a call may be refused (by the rate limit, for its token, for want of
\* stock or for an error); a known key is answered with its order.
OrderServed ==
  /\ call.step = "sent"
  /\ \/ call' = [call EXCEPT !.step = "refused"] /\ UNCHANGED orders
     \/ /\ ~over
        /\ call' = [call EXCEPT !.step = "created"]
        /\ orders' = orders \cup {call.key}
  /\ UNCHANGED <<serverVars, sse, page, going, connVars, tokenVars, joining, stock, load, key,
                 visit, failed>>

\* The call or its answer does not arrive: fetch throws, and api throws NETWORK_ERROR.
AnswerLost ==
  /\ call.step \in {"sent", "created"}
  /\ call' = [call EXCEPT !.step = "lost"]
  /\ UNCHANGED <<serverVars, sse, page, going, connVars, tokenVars, joining, stock, load, key,
                 visit, orders, failed>>

\* The order's page on success, a new key after any error.
Answers(nextKey) ==
  /\ call.step \in {"created", "refused", "lost"}
  /\ call' = NoCall
  /\ going' = IF call.step = "created" THEN "pay" ELSE going
  /\ failed' = IF call.step = "created" THEN failed ELSE failed \cup ({call.key} \cap visit)
  /\ key' = IF key = call.key THEN nextKey ELSE key
  /\ UNCHANGED <<serverVars, sse, page, connVars, tokenVars, joining, stock, load, visit, orders>>

\* Mutant: a new key after every answer.
OrderAnsweredAnew == Answers("new")
OrderAnswered     == Answers(IF call.step = "created" THEN key ELSE "new")

-----------------------------------------------------------------------------
StreamStep(s) ==
  Opens(s) \/ PushReads(s) \/ PushWrites(s) \/ StatusArrives(s) \/ Breaks(s)

PollStep(p) == PollServed(p) \/ PollFails(p) \/ PollAnswered(p)

JoinStep == JoinAsks \/ JoinServed \/ JoinReads \/ JoinAnswered

CheckoutStep ==
  LoadAsks \/ LoadServed \/ LoadAnswered \/ Submit \/ OrderServed \/ AnswerLost \/ OrderAnswered

Next ==
  \/ Navigate
  \/ \E p \in Links : BuyerGoes(p)
  \/ \E s \in Streams : StreamStep(s)
  \/ RetryFires \/ PollTick
  \/ \E p \in Polls : PollStep(p)
  \/ AccountMoves \/ SessionEnds
  \/ JoinStep \/ LeaveServed
  \/ CheckoutStep

Spec == Init /\ [][Next]_vars

\* The browser's timers, router and event loop go on; the server pushes and the wire
\* carries; a network that may fail at any time does not fail every time.
Fairness ==
  /\ WF_vars(Navigate) /\ WF_vars(RetryFires) /\ WF_vars(PollTick)
  /\ SF_vars(\E s \in Streams : Opens(s))
  /\ WF_vars(\E s \in Streams : PushReads(s) \/ PushWrites(s) \/ StatusArrives(s))
  /\ SF_vars(\E p \in Polls : PollServed(p))
  /\ SF_vars(\E p \in Polls : PollAnswered(p))

FairSpec == Spec /\ Fairness
-----------------------------------------------------------------------------
(* Properties *)

OnQueuePage == page \in QueuePages

\* Every variable stays in its type, and no stored token that reads as usable
\* outlives the session it was given for, however late the answer that carried it.
TypeOK ==
  /\ server \in States /\ over \in BOOLEAN /\ sse \in BOOLEAN
  /\ page \in Pages /\ going \in Pages
  /\ finished \in BOOLEAN /\ retry \in BOOLEAN
  /\ phase \in [Streams -> {"closed", "connecting", "open"}]
  /\ reading \in [Streams -> SUBSET States] /\ wire \in [Streams -> Seq(States)]
  /\ ticker \in {"unset", "on", "off"}
  /\ polls \in [Polls -> States \cup {"none", "asked"}]
  /\ token \in {"none", "valid", "expired"} /\ kept \in BOOLEAN
  /\ token = "valid" => ~over
  /\ joining \in States \cup {"no", "asked", "joined", "soldOut", "refused"}
  /\ stock \in BOOLEAN /\ load \in {"none", "asked", "askedLate", "ok", "refused"}
  /\ key \in Keys \cup {"new"} /\ call \in Calls \cup {NoCall}
  /\ visit \subseteq Keys /\ orders \subseteq Keys /\ failed \subseteq visit

\* The tab never holds two streams, though errors, the browser's own retry and
\* retryTimer all connect: two would each be counted and pushed to by the API.
OneStream == Cardinality(Live) <= 1

\* A queue's page always has a way to hear of its turn and to be heard of by the
\* cleanup: a stream, or the polling that fills in for it, until its last answer.
Listening == OnQueuePage /\ ~finished => Live # {} \/ ticker = "on"

\* After its last answer, and on any other page, the tab bothers the API no more:
\* no stream and no polling, even though retryTimer may still be set.
Quiet == finished \/ ~OnQueuePage => Live = {} /\ ticker # "on"

\* A visit of the checkout page places a second order only after the tab was told of an
\* error: pressing the button again while the next page loads places none.
OneOrderPerVisit == Cardinality((visit \cap orders) \ failed) <= 1

\* A buyer who stays on a queue's page is taken to the page the account's state
\* belongs to, unless that state keeps changing: no stale answer, broken stream or
\* missed event keeps the turn from being shown.
TurnIsShown ==
  []<>(OnQueuePage => Destination(server) = page) \/ []<><<server' # server>>_vars

-----------------------------------------------------------------------------
(* What a comment says of the checkout page, and the page does not do *)

\* checkout/page.tsx: neither a double click nor a retry after a network error places
\* a second order.
RetryPlacesNoOrder == Cardinality(visit \cap orders) <= 1
=============================================================================
