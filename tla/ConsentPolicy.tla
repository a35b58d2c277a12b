---------------------------- MODULE ConsentPolicy ----------------------------
(***************************************************************************)
(* What a recorded consent verdict promises, whatever revocations,         *)
(* retention sweeps, restarts and offboardings run at the same time.  It   *)
(* comes into effect at most once, when it is decided, and it goes out of  *)
(* effect only for one of four reasons: its time ran out, somebody asked   *)
(* for it to be revoked, the container it was tied to was started afresh,  *)
(* or the user who decided it was deleted.  Housekeeping is not among      *)
(* them.                                                                   *)
(***************************************************************************)
CONSTANT Rows
VARIABLES
  effect,  \* row -> "new", "in", "out"
  span,    \* row -> how long a verdict in effect is to last
  asked,   \* the rows somebody asked to have revoked
  left     \* the rows whose decider has been deleted

vars == <<effect, span, asked, left>>

Spans == {"timed", "tilrestart", "forever"}

Init ==
  /\ effect = [q \in Rows |-> "new"]
  /\ span = [q \in Rows |-> "null"]
  /\ asked = {}
  /\ left = {}

Keep(q) == effect'[q] = effect[q] /\ span'[q] = span[q]

Enter(q) ==
  /\ effect[q] = "new"
  /\ effect'[q] = "in"
  /\ span'[q] \in Spans

\* A request that ends without a lasting verdict.
Close(q) == effect[q] = "new" /\ effect'[q] = "out" /\ span'[q] = "null"

End(q) == effect[q] = "in" /\ effect'[q] = "out" /\ span'[q] = "null"

\* One request is decided, or one verdict ends because its time is up or
\* somebody asked for that.
One(q) ==
  /\ \/ Enter(q)
     \/ End(q) /\ (span[q] = "timed" \/ q \in asked)
  /\ \A p \in Rows \ {q} : Keep(p)
  /\ UNCHANGED <<asked, left>>

Tidy ==
  /\ \A q \in Rows : Keep(q) \/ Close(q)
  /\ UNCHANGED <<asked, left>>

Ask(q) == asked' = asked \cup {q} /\ UNCHANGED <<effect, span, left>>

Restart ==
  /\ \A q \in Rows : Keep(q) \/ (span[q] = "tilrestart" /\ End(q))
  /\ UNCHANGED <<asked, left>>

Offboard(gone) ==
  /\ left' = left \cup gone
  /\ \A q \in Rows : Keep(q) \/ (q \in gone /\ End(q))
  /\ UNCHANGED asked

Next ==
  \/ \E q \in Rows : One(q) \/ Ask(q)
  \/ Tidy
  \/ Restart
  \/ \E gone \in SUBSET Rows : Offboard(gone)

Spec == Init /\ [][Next]_vars
=============================================================================
