----------------------------- MODULE RateLimiter -----------------------------
(***************************************************************************)
(* The sliding-window limiter of the API: protection.ts turns a request    *)
(* into rules, ratelimit.lua checks all of them in one call and keeps, per *)
(* rule, a log of the requests let through.                                *)
(*                                                                         *)
(* Two clocks are at work.  A request is stamped by the API server that    *)
(* received it, and reaches Redis up to MaxLag later (a slow network, a    *)
(* busy event loop, two servers whose clocks differ); the keys expire by   *)
(* the clock of Redis, which is the time of this model.                    *)
(***************************************************************************)
EXTENDS Integers, FiniteSets

CONSTANTS
  Requests,  \* the requests made: route, address, user (or Anonymous)
  Anonymous,
  Limit,     \* the limit of each scope
  Window,    \* WINDOW_MS
  Second,    \* a second, the unit of the Retry-After header
  MaxLag,    \* bound: how much older than its arrival a stamp may be
  Horizon    \* bound: the time

Scopes == {"ip", "join-ip", "join-user", "status", "checkout"}

Routes == {"join", "status", "order", "other"}

ASSUME LimiterAssumption ==
  /\ \A r \in Requests : r.route \in Routes
  /\ Limit \in [Scopes -> Nat \ {0}]
  /\ Window \in Nat \ {0} /\ Second \in Nat \ {0} /\ MaxLag \in Nat /\ Horizon \in Nat

VARIABLES
  now,
  log,       \* rl:{scope}:{id}: the entries of the sorted set
  expires,   \* when the key expires
  accepted,  \* history: the requests let through
  told       \* history: the end of the wait last told, while nobody else got in

vars == <<now, log, expires, accepted, told>>

\* rateLimitRulesFor: the rules of a user only apply to one who is logged in.
PerUser == [join |-> {"join-user"}, status |-> {"status"}, order |-> {"checkout"}, other |-> {}]

Rules(r) ==
  {<<"ip", r.ip>>}
  \cup {<<"join-ip", r.ip>> : x \in {r.route} \cap {"join"}}
  \cup {<<scope, r.user>> : scope \in IF r.user = Anonymous THEN {} ELSE PerUser[r.route]}

Keys       == UNION {Rules(r) : r \in Requests}
LimitOf(k) == Limit[k[1]]
Stamps     == now - MaxLag .. now

Never == -1

TypeOK ==
  /\ now \in Nat /\ now >= MaxLag /\ expires \in [Keys -> Nat] /\ told \in [Requests -> Nat \cup {Never}]
  /\ \A e \in accepted : e.stamp \in Nat /\ e.real \in Nat /\ e.rules \subseteq Keys
  /\ \A k \in Keys : IsFiniteSet(log[k]) /\ Cardinality(log[k]) <= LimitOf(k)

Init ==
  /\ now = MaxLag
  /\ log = [k \in Keys |-> {}] /\ expires = [k \in Keys |-> 0]
  /\ accepted = {} /\ told = [r \in Requests |-> Never]

\* ZREMRANGEBYSCORE: an entry exactly a window old is gone.
Kept(k, stamp) == {e \in log[k] : e.stamp > stamp - Window}

Trimmed(r, stamp) == [k \in Keys |-> IF k \in Rules(r) THEN Kept(k, stamp) ELSE log[k]]

Full(k, stamp) == Cardinality(Kept(k, stamp)) >= LimitOf(k)

Blocking(r, stamp) == {k \in Rules(r) : Full(k, stamp)}

\* How long until the oldest entries of the full rules are a window old.
Oldest(k, stamp) == {e \in Kept(k, stamp) : \A f \in Kept(k, stamp) : e.stamp <= f.stamp}
Waits(r, stamp)  ==
  {IF e.stamp + Window - stamp < 1 THEN 1 ELSE e.stamp + Window - stamp :
     e \in UNION {Oldest(k, stamp) : k \in Blocking(r, stamp)}}

\* The wait of the rule that blocks longest.
Longest(r, stamp) == {w \in Waits(r, stamp) : \A v \in Waits(r, stamp) : v <= w}

\* Mutant: the header cuts the milliseconds off.
RetryAfterCut(wait) == {h \in 0 .. wait : h % Second = 0 /\ h > wait - Second}

\* enforceRateLimits: the header counts in whole seconds, rounded up.
RetryAfter(wait) == {h \in wait .. wait + Second - 1 : h % Second = 0}

\* Mutant: the rules that are not full are charged for a request refused.
ChargedWhereFree(r, stamp) == Rules(r) \ Blocking(r, stamp)

\* A request is recorded under all its rules, or under none.
Charged(r, stamp) == IF Blocking(r, stamp) = {} THEN Rules(r) ELSE {}

\* Mutant: the keys expire a second after the last entry.
LifetimeShort == Second

\* PEXPIRE
Lifetime == Window

Entry(r, stamp) == [id |-> Cardinality(accepted), stamp |-> stamp, real |-> now, rules |-> Rules(r)]

\* The script: trim, check, and record.
Record(r, stamp) ==
  /\ log' = [k \in Keys |-> Trimmed(r, stamp)[k] \cup IF k \in Charged(r, stamp) THEN {Entry(r, stamp)} ELSE {}]
  /\ expires' = [k \in Keys |-> IF k \in Charged(r, stamp) THEN now + Lifetime ELSE expires[k]]

Accept(r, stamp) ==
  /\ Blocking(r, stamp) = {}
  /\ Record(r, stamp)
  /\ accepted' = accepted \cup {Entry(r, stamp)}
  /\ told' = [q \in Requests |-> IF Rules(q) \cap Rules(r) # {} THEN Never ELSE told[q]]
  /\ UNCHANGED now

Reject(r, stamp) ==
  /\ Blocking(r, stamp) # {}
  /\ Record(r, stamp)
  /\ \E wait \in Longest(r, stamp) : \E h \in RetryAfter(wait) : told' = [told EXCEPT ![r] = stamp + h]
  /\ UNCHANGED <<now, accepted>>

Tick ==
  /\ now < Horizon
  /\ now' = now + 1
  /\ log' = [k \in Keys |-> IF expires[k] <= now' THEN {} ELSE log[k]]
  /\ UNCHANGED <<expires, accepted, told>>

Next ==
  \/ \E r \in Requests, stamp \in Stamps : Accept(r, stamp) \/ Reject(r, stamp)
  \/ Tick

Spec == Init /\ [][Next]_vars

(***************************************************************************)
(* Properties                                                              *)
(***************************************************************************)

\* However late the stamps, no rule lets more requests through than its limit
\* in any stretch of time as long as the window less the lag.
Recent(k)    == {e \in accepted : k \in e.rules /\ e.real > now - (Window - MaxLag)}
NeverTooMany == \A k \in Keys : Cardinality(Recent(k)) <= LimitOf(k)

\* A request that is refused by one rule is charged to none: whatever fills a
\* log was let through by every rule of its own.
RefusedIsFree == \A k \in Keys : log[k] \subseteq {e \in accepted : k \in e.rules}

\* The wait told is enough: who comes back when it is over is let in, unless
\* somebody who shares a rule was let in meanwhile.
InTime(r, stamp) == told[r] # Never /\ stamp >= told[r]
RetryHonoured == [][\A r \in Requests, stamp \in Stamps : InTime(r, stamp) => ~Reject(r, stamp)]_vars
=============================================================================
