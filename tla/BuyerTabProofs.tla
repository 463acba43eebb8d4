---------------------------- MODULE BuyerTabProofs ----------------------------
(***************************************************************************)
(* For any numbers of streams, calls and keys, any moves of the account    *)
(* and a buyer as restless as can be: the tab never holds two streams,     *)
(* always listens on a queue's page until its last answer, is quiet        *)
(* afterwards, and places one order a visit unless it was told an error.   *)
(*                                                                         *)
(* The invariant of the connection: a stream excludes a planned retry, a   *)
(* handle is left behind by the last answer only, and everything that      *)
(* listens or will listen belongs to a queue's page.                       *)
(***************************************************************************)
EXTENDS BuyerTab, FiniteSetTheorems, TLAPS

\* What the connection is made of.
ConnOK ==
  /\ \A s, t \in Live : s = t
  /\ Live # {} => OnQueuePage /\ ~finished /\ ~retry
  /\ ticker = "on" => OnQueuePage /\ ~finished
  /\ ticker = "off" => finished
  /\ retry => OnQueuePage
  /\ OnQueuePage /\ ~finished => Live # {} \/ ticker = "on"

\* The one order of the visit that no error was told of has the key in use.
OrdersOK ==
  /\ \A k \in (visit \cap orders) \ failed : k = key
  /\ key # "new" => key \in visit
  /\ call # NoCall /\ call.key \in visit => key = call.key

IInv == TypeOK /\ ConnOK /\ OrdersOK

StartOf == CHOOSE t \in Streams : TRUE

LEMMA StartIsAStream == StartOf \in Streams
BY TabAssumption DEF StartOf

LEMMA NoCallHasNoKey == \A c \in Calls : c # NoCall /\ c.step # "none" /\ c.key \in Keys
<1>1. NoCall.step = "none"
  BY DEF NoCall
<1>2. \A c \in Calls : c.step # "none" /\ c.key \in Keys
  BY DEF Calls
<1> QED
  BY <1>1, <1>2

LEMMA OneMoreType ==
  ASSUME NEW calls \in [Polls -> States \cup {"none", "asked"}]
  PROVE  OneMore(calls) \in [Polls -> States \cup {"none", "asked"}]
BY DEF OneMore

LEMMA InitHolds == Init => IInv
<1> SUFFICES ASSUME Init PROVE IInv
  OBVIOUS
<1>1. TypeOK
  <2>1. wire \in [Streams -> Seq(States)] /\ reading \in [Streams -> SUBSET States]
    BY DEF Init
  <2>2. over \in BOOLEAN /\ retry \in BOOLEAN /\ finished \in BOOLEAN
    BY DEF Init
  <2>3. kept \in BOOLEAN /\ stock \in BOOLEAN /\ (token = "valid" => ~over)
    BY DEF Init
  <2> QED
    BY <2>1, <2>2, <2>3 DEF Init, TypeOK, States, Pages
<1>2. ConnOK
  BY DEF Init, ConnOK, Live, OnQueuePage, QueuePages
<1>3. OrdersOK
  BY DEF Init, OrdersOK, NoCall
<1> QED
  BY <1>1, <1>2, <1>3 DEF IInv

-----------------------------------------------------------------------------
(* Types *)

LEMMA ShowsType ==
  ASSUME NEW s \in States, TypeOK, Shows(s), UNCHANGED over
  PROVE  /\ token' \in {"none", "valid", "expired"} /\ kept' \in BOOLEAN
         /\ token' = "valid" => ~over'
         /\ going' \in Pages
BY DEF TypeOK, Shows, SaveToken, Destination, tokenVars, States, Pages

LEMMA FinishType ==
  ASSUME TypeOK, Finish
  PROVE  /\ finished' \in BOOLEAN /\ ticker' \in {"unset", "on", "off"}
         /\ phase' \in [Streams -> {"closed", "connecting", "open"}]
         /\ reading' \in [Streams -> SUBSET States] /\ wire' \in [Streams -> Seq(States)]
BY DEF TypeOK, Finish, CloseStream

LEMMA StartPollingType ==
  ASSUME TypeOK, StartPolling
  PROVE  ticker' \in {"unset", "on", "off"} /\ polls' \in [Polls -> States \cup {"none", "asked"}]
BY OneMoreType DEF TypeOK, StartPolling

LEMMA OpenStreamType ==
  ASSUME TypeOK, OpenStream
  PROVE  /\ phase' \in [Streams -> {"closed", "connecting", "open"}]
         /\ reading' \in [Streams -> SUBSET States] /\ wire' \in [Streams -> Seq(States)]
BY DEF TypeOK, OpenStream, streamVars

LEMMA TypeStep == TypeOK /\ [Next]_vars => TypeOK'
<1> SUFFICES ASSUME TypeOK, [Next]_vars PROVE TypeOK'
  OBVIOUS
<1> USE TabAssumption
<1> USE DEF serverVars, streamVars, connVars, tokenVars, checkoutVars
<1>1. CASE Navigate
  <2> DEFINE idle == [p \in Polls |-> "none"]
  <2>1. idle \in [Polls -> States \cup {"none", "asked"}]
    OBVIOUS
  <2>2. polls' \in [Polls -> States \cup {"none", "asked"}]
    BY <1>1, <2>1, OneMoreType DEF Navigate
  <2>3. /\ phase' \in [Streams -> {"closed", "connecting", "open"}]
        /\ reading' \in [Streams -> SUBSET States] /\ wire' \in [Streams -> Seq(States)]
    BY <1>1 DEF Navigate
  <2>4. ticker' \in {"unset", "on", "off"} /\ kept' \in BOOLEAN /\ orders' \subseteq Keys
    BY <1>1 DEF Navigate, TypeOK
  <2> QED
    BY <1>1, <2>2, <2>3, <2>4 DEF Navigate, TypeOK
<1>2. CASE \E p \in Links : BuyerGoes(p)
  BY <1>2 DEF BuyerGoes, TypeOK
<1>3. CASE \E s \in Streams : StreamStep(s)
  <2> PICK s \in Streams : StreamStep(s)
    BY <1>3
  <2>1. CASE Opens(s)
    BY <2>1 DEF Opens, TypeOK
  <2>2. CASE PushReads(s)
    BY <2>2 DEF PushReads, TypeOK
  <2>3. CASE PushWrites(s)
    <3>1. PICK x \in reading[s] :
            /\ wire' = [wire EXCEPT ![s] = Append(@, x)]
            /\ reading' = [reading EXCEPT ![s] = IF x \in Final THEN {} ELSE @ \ {x}]
      BY <2>3 DEF PushWrites
    <3>2. x \in States /\ wire[s] \in Seq(States)
      BY DEF TypeOK
    <3>3. Append(wire[s], x) \in Seq(States)
      BY <3>2
    <3>4. wire' \in [Streams -> Seq(States)] /\ reading' \in [Streams -> SUBSET States]
      BY <3>1, <3>3 DEF TypeOK
    <3> QED
      BY <2>3, <3>4 DEF PushWrites, TypeOK
  <2>4. CASE StatusArrives(s)
    <3> DEFINE x == Head(wire[s])
    <3>1. wire[s] \in Seq(States) /\ wire[s] # <<>>
      BY <2>4 DEF StatusArrives, TypeOK
    <3>2. x \in States /\ Tail(wire[s]) \in Seq(States)
      BY <3>1
    <3>3. /\ token' \in {"none", "valid", "expired"} /\ kept' \in BOOLEAN
          /\ token' = "valid" => ~over'
          /\ going' \in Pages
      BY <2>4, <3>2, ShowsType DEF StatusArrives
    <3>4. /\ finished' \in BOOLEAN /\ ticker' \in {"unset", "on", "off"}
          /\ phase' \in [Streams -> {"closed", "connecting", "open"}]
          /\ reading' \in [Streams -> SUBSET States] /\ wire' \in [Streams -> Seq(States)]
      <4>1. CASE x \in Final
        BY <2>4, <4>1, FinishType DEF StatusArrives
      <4>2. CASE x \notin Final
        BY <2>4, <4>2, <3>2 DEF StatusArrives, TypeOK
      <4> QED
        BY <4>1, <4>2
    <3> QED
      BY <2>4, <3>3, <3>4 DEF StatusArrives, TypeOK
  <2>5. CASE Breaks(s)
    <3>1. ticker' \in {"unset", "on", "off"} /\ polls' \in [Polls -> States \cup {"none", "asked"}]
      BY <2>5, StartPollingType DEF Breaks
    <3>2. /\ phase' \in [Streams -> {"closed", "connecting", "open"}]
          /\ reading' \in [Streams -> SUBSET States] /\ wire' \in [Streams -> Seq(States)]
      BY <2>5 DEF Breaks, CloseStream
    <3> QED
      BY <2>5, <3>1, <3>2 DEF Breaks, TypeOK
  <2> QED
    BY <2>1, <2>2, <2>3, <2>4, <2>5 DEF StreamStep
<1>4. CASE RetryFires
  <2>1. /\ phase' \in [Streams -> {"closed", "connecting", "open"}]
        /\ reading' \in [Streams -> SUBSET States] /\ wire' \in [Streams -> Seq(States)]
    BY <1>4, OpenStreamType DEF RetryFires
  <2>2. retry' = FALSE /\ UNCHANGED <<serverVars, sse, page, going, finished, ticker, polls, tokenVars,
                                      joining, checkoutVars>>
    BY <1>4 DEF RetryFires
  <2>3. retry' \in BOOLEAN
    BY <2>2
  <2>4. UNCHANGED <<serverVars, sse, page, going, finished, ticker, polls, tokenVars, joining,
                    checkoutVars>>
    BY <2>2
  <2> QED
    BY <2>1, <2>3, <2>4 DEF TypeOK
<1>5. CASE PollTick
  <2>1. polls' \in [Polls -> States \cup {"none", "asked"}]
    BY <1>5, OneMoreType DEF PollTick, TypeOK
  <2> QED
    BY <1>5, <2>1 DEF PollTick, TypeOK
<1>6. CASE \E p \in Polls : PollStep(p)
  <2> PICK p \in Polls : PollStep(p)
    BY <1>6
  <2>1. CASE PollServed(p)
    BY <2>1 DEF PollServed, TypeOK
  <2>2. CASE PollFails(p)
    BY <2>2 DEF PollFails, TypeOK
  <2>3. CASE PollAnswered(p)
    <3>1. /\ token' \in {"none", "valid", "expired"} /\ kept' \in BOOLEAN
          /\ token' = "valid" => ~over'
          /\ going' \in Pages
      BY <2>3, ShowsType DEF PollAnswered
    <3>2. /\ finished' \in BOOLEAN /\ ticker' \in {"unset", "on", "off"}
          /\ phase' \in [Streams -> {"closed", "connecting", "open"}]
          /\ reading' \in [Streams -> SUBSET States] /\ wire' \in [Streams -> Seq(States)]
      <4>1. CASE polls[p] \in Final
        BY <2>3, <4>1, FinishType DEF PollAnswered
      <4>2. CASE polls[p] \notin Final
        BY <2>3, <4>2 DEF PollAnswered, TypeOK
      <4> QED
        BY <4>1, <4>2
    <3> QED
      BY <2>3, <3>1, <3>2 DEF PollAnswered, TypeOK
  <2> QED
    BY <2>1, <2>2, <2>3 DEF PollStep
<1>7. CASE AccountMoves
  <2>1. PICK m \in Moves :
          /\ server = m[1] /\ server' = m[2]
          /\ over' = IF m[2] = "ADMITTED" THEN FALSE ELSE over
    BY <1>7 DEF AccountMoves
  <2>2. m[2] \in States
    OBVIOUS
  <2>3. over' \in BOOLEAN /\ (token = "valid" => ~over')
    BY <2>1 DEF TypeOK
  <2>4. server' \in States
    BY <2>1, <2>2
  <2>5. UNCHANGED <<sse, page, going, connVars, tokenVars, joining, checkoutVars>>
    BY <1>7 DEF AccountMoves
  <2> QED
    BY <2>3, <2>4, <2>5 DEF TypeOK
<1>8. CASE SessionEnds
  BY <1>8 DEF SessionEnds, TypeOK, States
<1>9. CASE JoinStep
  <2>1. CASE JoinAsks
    BY <2>1 DEF JoinAsks, TypeOK
  <2>2. CASE JoinServed
    BY <2>2 DEF JoinServed, TypeOK, States
  <2>3. CASE JoinReads
    BY <2>3 DEF JoinReads, TypeOK
  <2>4. CASE JoinAnswered
    <3>1. /\ token' \in {"none", "valid", "expired"} /\ kept' \in BOOLEAN
          /\ token' = "valid" => ~over'
      BY <2>4 DEF JoinAnswered, SaveToken, TypeOK
    <3>2. going' \in Pages /\ joining' = "no"
      BY <2>4 DEF JoinAnswered, TypeOK, Pages
    <3> QED
      BY <2>4, <3>1, <3>2 DEF JoinAnswered, TypeOK
  <2> QED
    BY <1>9, <2>1, <2>2, <2>3, <2>4 DEF JoinStep
<1>10. CASE LeaveServed
  BY <1>10 DEF LeaveServed, TypeOK, States, Pages
<1>11. CASE CheckoutStep
  <2>1. CASE LoadAsks
    BY <2>1 DEF LoadAsks, TypeOK
  <2>2. CASE LoadServed
    BY <2>2 DEF LoadServed, TypeOK
  <2>3. CASE LoadAnswered
    BY <2>3 DEF LoadAnswered, TypeOK
  <2>4. CASE Submit
    <3>1. PICK k \in (IF key = "new" THEN FreshKeys ELSE {key}) :
            /\ key' = k
            /\ visit' = visit \cup {k}
            /\ call' = [step |-> "sent", key |-> k]
      BY <2>4 DEF Submit
    <3>2. k \in Keys
      BY DEF FreshKeys, TypeOK
    <3> QED
      BY <2>4, <3>1, <3>2 DEF Submit, TypeOK, Calls
  <2>5. CASE OrderServed
    <3>1. call \in Calls
      BY <2>5 DEF OrderServed, TypeOK, NoCall
    <3>2. call' \in Calls /\ orders' \subseteq Keys
      BY <2>5, <3>1 DEF OrderServed, TypeOK, Calls
    <3> QED
      BY <2>5, <3>2 DEF OrderServed, TypeOK
  <2>6. CASE AnswerLost
    <3>1. call \in Calls
      BY <2>6 DEF AnswerLost, TypeOK, NoCall
    <3>2. call' \in Calls
      BY <2>6, <3>1 DEF AnswerLost, Calls
    <3> QED
      BY <2>6, <3>2 DEF AnswerLost, TypeOK
  <2>7. CASE OrderAnswered
    <3>1. going' \in Pages /\ key' \in Keys \cup {"new"} /\ failed' \subseteq visit'
      BY <2>7 DEF OrderAnswered, Answers, TypeOK, Pages
    <3> QED
      BY <2>7, <3>1 DEF OrderAnswered, Answers, TypeOK
  <2> QED
    BY <1>11, <2>1, <2>2, <2>3, <2>4, <2>5, <2>6, <2>7 DEF CheckoutStep
<1>12. CASE UNCHANGED vars
  BY <1>12 DEF vars, TypeOK
<1> QED
  BY <1>1, <1>2, <1>3, <1>4, <1>5, <1>6, <1>7, <1>8, <1>9, <1>10, <1>11, <1>12 DEF Next

-----------------------------------------------------------------------------
(* The connection *)

LEMMA LiveUnchanged == UNCHANGED phase => Live' = Live
BY DEF Live

LEMMA ClosedIsNotLive == CloseStream => Live' = {}
BY DEF CloseStream, Live

\* What the connection depends on.
ConnParts == <<page, finished, phase, ticker, retry>>

LEMMA ConnUnchanged == ConnOK /\ UNCHANGED ConnParts => ConnOK'
BY LiveUnchanged DEF ConnOK, ConnParts, OnQueuePage

LEMMA FinishKeeps == TypeOK /\ ConnOK /\ Finish /\ UNCHANGED <<page, retry>> => ConnOK'
<1> SUFFICES ASSUME TypeOK, ConnOK, Finish, UNCHANGED <<page, retry>> PROVE ConnOK'
  OBVIOUS
<1>1. Live' = {} /\ finished' = TRUE
  BY ClosedIsNotLive DEF Finish
<1>2. ticker' # "on"
  BY DEF Finish
<1>3. (retry => OnQueuePage)'
  BY DEF ConnOK, OnQueuePage
<1> QED
  BY <1>1, <1>2, <1>3 DEF ConnOK

LEMMA ConnStep == TypeOK /\ ConnOK /\ [Next]_vars => ConnOK'
<1> SUFFICES ASSUME TypeOK, ConnOK, [Next]_vars PROVE ConnOK'
  OBVIOUS
<1> USE TabAssumption
<1> USE DEF serverVars, streamVars, connVars, tokenVars, checkoutVars
<1>1. CASE Navigate
  <2> DEFINE connects == going \in QueuePages
  <2>1. \A s \in Streams : phase'[s] = IF connects /\ sse /\ s = StartOf THEN "connecting" ELSE "closed"
    BY <1>1 DEF Navigate, StartOf
  <2>2. Live' = IF connects /\ sse THEN {StartOf} ELSE {}
    BY <2>1, StartIsAStream DEF Live
  <2>3. finished' = FALSE /\ retry' = FALSE /\ OnQueuePage' = connects
    BY <1>1 DEF Navigate, OnQueuePage
  <2>4. ticker' = IF connects /\ ~sse THEN "on" ELSE "unset"
    BY <1>1 DEF Navigate
  <2> HIDE DEF connects
  <2> QED
    BY <2>2, <2>3, <2>4 DEF ConnOK
<1>2. CASE \E p \in Links : BuyerGoes(p)
  BY <1>2, ConnUnchanged DEF BuyerGoes, ConnParts
<1>3. CASE \E s \in Streams : StreamStep(s)
  <2> PICK s \in Streams : StreamStep(s)
    BY <1>3
  <2>1. CASE Opens(s)
    <3>1. Live' = Live
      BY <2>1 DEF Opens, Live, TypeOK
    <3>2. Live # {}
      BY <2>1 DEF Opens, Live
    <3> QED
      BY <2>1, <3>1, <3>2 DEF Opens, ConnOK, OnQueuePage
  <2>2. CASE PushReads(s)
    BY <2>2, ConnUnchanged DEF PushReads, ConnParts
  <2>3. CASE PushWrites(s)
    BY <2>3, ConnUnchanged DEF PushWrites, ConnParts
  <2>4. CASE StatusArrives(s)
    <3>1. CASE Head(wire[s]) \in Final
      BY <2>4, <3>1, FinishKeeps DEF StatusArrives
    <3>2. CASE Head(wire[s]) \notin Final
      BY <2>4, <3>2, ConnUnchanged DEF StatusArrives, ConnParts
    <3> QED
      BY <3>1, <3>2
  <2>5. CASE Breaks(s)
    <3>1. Live' = {} /\ Live # {}
      BY <2>5, ClosedIsNotLive DEF Breaks, Live
    <3>2. OnQueuePage /\ ~finished /\ ticker # "off"
      BY <3>1 DEF ConnOK
    <3>3. ticker' = "on"
      BY <2>5, <3>2 DEF Breaks, StartPolling, TypeOK
    <3>4. OnQueuePage' /\ ~finished'
      BY <2>5, <3>2 DEF Breaks, OnQueuePage
    <3> QED
      BY <3>1, <3>3, <3>4 DEF ConnOK
  <2> QED
    BY <2>1, <2>2, <2>3, <2>4, <2>5 DEF StreamStep
<1>4. CASE RetryFires
  <2>1. Live = {} /\ OnQueuePage /\ retry' = FALSE
    BY <1>4 DEF RetryFires, ConnOK
  <2>2. UNCHANGED <<page, finished, ticker>> /\ OnQueuePage'
    BY <1>4, <2>1 DEF RetryFires, OnQueuePage
  <2>3. CASE finished
    <3>1. Live' = {}
      BY <1>4, <2>1, <2>3, LiveUnchanged DEF RetryFires, OpenStream
    <3> QED
      BY <2>1, <2>2, <2>3, <3>1 DEF ConnOK
  <2>4. CASE ~finished
    <3>1. phase' = [phase EXCEPT ![StartOf] = "connecting"]
      <4>1. Streams \ Live = Streams
        BY <2>1
      <4> QED
        BY <1>4, <2>4, <4>1 DEF RetryFires, OpenStream, StartOf
    <3>2. Live' = {StartOf}
      BY <2>1, <3>1, StartIsAStream DEF Live, TypeOK
    <3> QED
      BY <2>1, <2>2, <2>4, <3>2 DEF ConnOK
  <2> QED
    BY <2>3, <2>4
<1>5. CASE PollTick
  BY <1>5, ConnUnchanged DEF PollTick, ConnParts
<1>6. CASE \E p \in Polls : PollStep(p)
  <2> PICK p \in Polls : PollStep(p)
    BY <1>6
  <2>1. CASE PollServed(p)
    BY <2>1, ConnUnchanged DEF PollServed, ConnParts
  <2>2. CASE PollFails(p)
    BY <2>2, ConnUnchanged DEF PollFails, ConnParts
  <2>3. CASE PollAnswered(p)
    <3>1. CASE polls[p] \in Final
      BY <2>3, <3>1, FinishKeeps DEF PollAnswered
    <3>2. CASE polls[p] \notin Final
      BY <2>3, <3>2, ConnUnchanged DEF PollAnswered, ConnParts
    <3> QED
      BY <3>1, <3>2
  <2> QED
    BY <2>1, <2>2, <2>3 DEF PollStep
<1>7. CASE AccountMoves \/ SessionEnds \/ LeaveServed
  BY <1>7, ConnUnchanged DEF AccountMoves, SessionEnds, LeaveServed, ConnParts
<1>8. CASE JoinStep
  BY <1>8, ConnUnchanged DEF JoinStep, JoinAsks, JoinServed, JoinReads, JoinAnswered, ConnParts
<1>9. CASE CheckoutStep
  <2>1. UNCHANGED ConnParts
    BY <1>9 DEF CheckoutStep, LoadAsks, LoadServed, LoadAnswered, Submit, OrderServed, AnswerLost,
                OrderAnswered, Answers, ConnParts
  <2> QED
    BY <2>1, ConnUnchanged
<1>10. CASE UNCHANGED vars
  BY <1>10, ConnUnchanged DEF vars, ConnParts
<1> QED
  BY <1>1, <1>2, <1>3, <1>4, <1>5, <1>6, <1>7, <1>8, <1>9, <1>10 DEF Next

-----------------------------------------------------------------------------
(* The orders of a visit *)

OrderParts == <<key, call, visit, orders, failed>>

LEMMA OrdersUnchanged == OrdersOK /\ UNCHANGED OrderParts => OrdersOK'
BY DEF OrdersOK, OrderParts

LEMMA OrdersStep == TypeOK /\ OrdersOK /\ [Next]_vars => OrdersOK'
<1> SUFFICES ASSUME TypeOK, OrdersOK, [Next]_vars PROVE OrdersOK'
  OBVIOUS
<1> USE TabAssumption
<1> USE DEF serverVars, streamVars, connVars, tokenVars, checkoutVars
<1>1. CASE Navigate
  BY <1>1 DEF Navigate, OrdersOK
<1>2. CASE \E p \in Links : BuyerGoes(p)
  BY <1>2, OrdersUnchanged DEF BuyerGoes, OrderParts
<1>3. CASE \E s \in Streams : StreamStep(s)
  BY <1>3, OrdersUnchanged
     DEF StreamStep, Opens, PushReads, PushWrites, StatusArrives, Breaks, OrderParts
<1>4. CASE RetryFires \/ PollTick \/ \E p \in Polls : PollStep(p)
  BY <1>4, OrdersUnchanged
     DEF RetryFires, PollTick, PollStep, PollServed, PollFails, PollAnswered, OrderParts
<1>5. CASE AccountMoves \/ SessionEnds \/ JoinStep \/ LeaveServed
  BY <1>5, OrdersUnchanged
     DEF AccountMoves, SessionEnds, JoinStep, JoinAsks, JoinServed, JoinReads, JoinAnswered,
         LeaveServed, OrderParts
<1>6. CASE LoadAsks \/ LoadServed \/ LoadAnswered
  BY <1>6, OrdersUnchanged DEF LoadAsks, LoadServed, LoadAnswered, OrderParts
<1>7. CASE Submit
  <2>1. PICK k \in (IF key = "new" THEN FreshKeys ELSE {key}) :
          /\ key' = k
          /\ visit' = visit \cup {k}
          /\ call' = [step |-> "sent", key |-> k]
    BY <1>7 DEF Submit
  <2>2. UNCHANGED <<orders, failed>>
    BY <1>7 DEF Submit
  <2>3. (visit' \cap orders') \ failed' \subseteq {k}
    <3>1. CASE key = "new"
      <4>1. (visit \cap orders) \ failed = {}
        BY <3>1 DEF OrdersOK, TypeOK
      <4> QED
        BY <2>1, <2>2, <4>1
    <3>2. CASE key # "new"
      BY <2>1, <2>2, <3>2 DEF OrdersOK
    <3> QED
      BY <3>1, <3>2
  <2> QED
    BY <2>1, <2>3 DEF OrdersOK
<1>8. CASE OrderServed
  <2>1. call \in Calls
    BY <1>8 DEF OrderServed, TypeOK, NoCall
  <2>2. call'.key = call.key
    BY <1>8, <2>1 DEF OrderServed, Calls
  <2>3. call # NoCall
    BY <2>1, NoCallHasNoKey
  <2>4. orders' \subseteq orders \cup {call.key}
    BY <1>8 DEF OrderServed
  <2>5. UNCHANGED <<key, visit, failed>>
    BY <1>8 DEF OrderServed
  <2> QED
    BY <2>2, <2>3, <2>4, <2>5 DEF OrdersOK
<1>9. CASE AnswerLost
  <2>1. call \in Calls
    BY <1>9 DEF AnswerLost, TypeOK, NoCall
  <2>2. call # NoCall /\ call'.key = call.key
    BY <1>9, <2>1, NoCallHasNoKey DEF AnswerLost, Calls
  <2> QED
    BY <1>9, <2>2 DEF AnswerLost, OrdersOK
<1>10. CASE OrderAnswered
  <2>1. call' = NoCall /\ UNCHANGED <<visit, orders>>
    BY <1>10 DEF OrderAnswered, Answers
  <2>2. CASE call.step = "created"
    <3>1. UNCHANGED <<failed, key>>
      BY <1>10, <2>2 DEF OrderAnswered, Answers
    <3> QED
      BY <2>1, <3>1 DEF OrdersOK
  <2>3. CASE call.step # "created"
    <3>1. /\ failed' = failed \cup ({call.key} \cap visit)
          /\ key' = IF key = call.key THEN "new" ELSE key
      BY <1>10, <2>3 DEF OrderAnswered, Answers
    <3> QED
      BY <2>1, <3>1 DEF OrdersOK
  <2> QED
    BY <2>2, <2>3
<1>11. CASE UNCHANGED vars
  BY <1>11, OrdersUnchanged DEF vars, OrderParts
<1> QED
  BY <1>1, <1>2, <1>3, <1>4, <1>5, <1>6, <1>7, <1>8, <1>9, <1>10, <1>11 DEF Next, CheckoutStep

-----------------------------------------------------------------------------
(* The theorems *)

THEOREM TabInvariant == Spec => []IInv
<1>1. Init => IInv
  BY InitHolds
<1>2. IInv /\ [Next]_vars => IInv'
  BY TypeStep, ConnStep, OrdersStep DEF IInv
<1> QED
  BY <1>1, <1>2, PTL DEF Spec

\* Types, and no token that reads as usable outlives its session.
THEOREM TabTypeCorrect == Spec => []TypeOK
<1>1. IInv => TypeOK
  BY DEF IInv
<1> QED
  BY <1>1, TabInvariant, PTL

LEMMA AtMostOne ==
  ASSUME NEW S, \A s, t \in S : s = t
  PROVE  Cardinality(S) <= 1
<1>1. CASE S = {}
  <2>1. Cardinality({}) = 0
    BY FS_EmptySet
  <2> QED
    BY <1>1, <2>1
<1>2. CASE S # {}
  <2>1. PICK s \in S : TRUE
    BY <1>2
  <2>2. S = {s}
    BY <2>1
  <2>3. Cardinality({s}) = 1
    BY FS_Singleton
  <2> QED
    BY <2>2, <2>3
<1> QED
  BY <1>1, <1>2

\* The tab never holds two streams.
THEOREM OneStreamOnly == Spec => []OneStream
<1>1. IInv => OneStream
  BY AtMostOne DEF IInv, ConnOK, OneStream
<1> QED
  BY <1>1, TabInvariant, PTL

\* A queue's page has its stream or its polling until the last answer.
THEOREM AlwaysListening == Spec => []Listening
<1>1. IInv => Listening
  BY DEF IInv, ConnOK, Listening
<1> QED
  BY <1>1, TabInvariant, PTL

\* After the last answer, and on other pages, there is neither.
THEOREM QuietAfterwards == Spec => []Quiet
<1>1. IInv => Quiet
  BY DEF IInv, ConnOK, Quiet
<1> QED
  BY <1>1, TabInvariant, PTL

\* Pressing the button again places no second order, except after an error.
THEOREM OneOrderAVisit == Spec => []OneOrderPerVisit
<1>1. IInv => OneOrderPerVisit
  <2> SUFFICES ASSUME IInv PROVE OneOrderPerVisit
    OBVIOUS
  <2> DEFINE S == (visit \cap orders) \ failed
  <2>1. \A k, l \in S : k = l
    BY DEF IInv, OrdersOK
  <2> HIDE DEF S
  <2>2. Cardinality(S) <= 1
    BY <2>1, AtMostOne
  <2> QED
    BY <2>2 DEF S, OneOrderPerVisit
<1> QED
  BY <1>1, TabInvariant, PTL
=============================================================================
