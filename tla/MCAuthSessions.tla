--------------------------- MODULE MCAuthSessions ---------------------------
(***************************************************************************)
(* An instance of AuthSessions: every event at least once with every event *)
(* it races.                                                               *)
(***************************************************************************)
EXTENDS AuthSessions, TLC

CONSTANTS p1, p2, s1, e1

Symmetric == Permutations({p1, p2})

EachEvent ==
  {{"logout", "sockets"}, {"logout", "deciders"}, {"change", "sockets"},
   {"disable", "deciders"}, {"delete", "sockets"}, {"idle", "deciders"},
   {"logout", "expiry"}, {"logout", "crash"}, {"logout", "db", "sockets"}}

OnlyLogout == {{"logout"}}
=============================================================================
