---------------------------- MODULE MCWaitingRoom ----------------------------
(* Instances of WaitingRoom for TLC. *)
EXTENDS WaitingRoom, TLC

\* The status of an event whose schedule is never changed: it opens, pauses,
\* goes on, sells out and ends.
OrdinaryMoves ==
  {<<"SCHEDULED", "PREQUEUE">>, <<"PREQUEUE", "OPEN">>, <<"OPEN", "PAUSED">>,
   <<"PAUSED", "OPEN">>, <<"OPEN", "SOLD_OUT">>, <<"OPEN", "CLOSED">>}

\* The sale opens and stays open.
OpeningOnly == {<<"SCHEDULED", "OPEN">>}

Symmetry == Permutations(Workers)
=============================================================================
