---------------------------- MODULE MCConsentDesk ----------------------------
(***************************************************************************)
(* An instance of ConsentDesk: a destination that was denied and later     *)
(* allowed for a while, or has no verdict yet.                             *)
(***************************************************************************)
EXTENDS ConsentDesk

CONSTANTS r1, r2, d1, d2

SomePasts ==
  {<<>>,
   <<[said |-> "denied", lasts |-> "lasting"], [said |-> "allowed", lasts |-> "timed"]>>}

Scenes ==
  {[events |-> {"modes", "pause", "lasting"}, reqs |-> {r1, r2}, deciders |-> {d1}],
   [events |-> {"clients"}, reqs |-> {r1}, deciders |-> {d1, d2}],
   [events |-> {"clients"}, reqs |-> {r1, r2}, deciders |-> {d1}]}
=============================================================================
