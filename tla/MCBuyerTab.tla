----------------------------- MODULE MCBuyerTab -----------------------------
(* Instances of BuyerTab for TLC. *)
EXTENDS BuyerTab

\* The pre-queue and the sale open, the account's turn comes, it is removed by the
\* cleanup or pays and leaves, the sale sells out or is moved into the future.
MCMoves ==
  {<<"NOT_STARTED", "NOT_IN_QUEUE">>, <<"WAITING_ROOM", "WAITING">>, <<"WAITING", "ADMITTED">>,
   <<"WAITING", "NOT_IN_QUEUE">>, <<"ADMITTED", "NOT_IN_QUEUE">>, <<"WAITING", "SOLD_OUT">>,
   <<"WAITING", "WAITING_ROOM">>, <<"WAITING_ROOM", "NOT_STARTED">>,
   <<"ADMITTED", "SOLD_OUT">>}
=============================================================================
