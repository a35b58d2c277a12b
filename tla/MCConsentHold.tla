--------------------------- MODULE MCConsentHold ---------------------------
(* ConsentHold on small instances.                                         *)
EXTENDS ConsentHold

CONSTANTS r1, r2, d1, d2, w1, a

\* One destination of one workspace.
MCDestOf == [r \in Relays |-> a]
MCOneWorkspace == [r \in Relays |-> w1]
MCDeciders == [d \in Deciders |-> w1]
=============================================================================
