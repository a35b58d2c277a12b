-------------------------- MODULE MCConsentVerdict --------------------------
(***************************************************************************)
(* Instances of ConsentVerdict.  Two rows for one host and port share a    *)
(* domain-list entry, and one drop is about both.                          *)
(***************************************************************************)
EXTENDS ConsentVerdict, TLC

CONSTANTS r1, r2, h, c1, c2, s1, s2

OneHost == [q \in Rows |-> h]
OnePort == [q \in Rows |-> 443]
EachEvent ==
  {{"allowed", "tilrestart", "disconnect"},
   {"allowed", "denied", "forever", "queue", "list"},
   {"denied", "tilrestart", "stop"},
   {"allowed", "timed", "prune"},
   {"denied", "forever", "prune"},
   {"denied", "forever", "delete", "static"},
   {"allowed", "once", "forever", "crash"}}

Symmetric ==
  Permutations(Rows) \cup Permutations(Calls) \cup Permutations(Socks)
=============================================================================
