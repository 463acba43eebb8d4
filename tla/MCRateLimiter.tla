---------------------------- MODULE MCRateLimiter ----------------------------
(***************************************************************************)
(* Two users and somebody without an account behind one address; joining   *)
(* is limited more tightly than the address.                               *)
(***************************************************************************)
EXTENDS RateLimiter

CONSTANTS ip1, u1, u2

Join(u)  == [route |-> "join", ip |-> ip1, user |-> u]
Asks     == {Join(u1), Join(Anonymous), [route |-> "status", ip |-> ip1, user |-> u2]}
Limits   == [s \in Scopes |-> IF s = "ip" THEN 2 ELSE 1]
=============================================================================
