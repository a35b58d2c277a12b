--------------------------- MODULE ConsentPromise ---------------------------
(***************************************************************************)
(* What the consent coordinator promises the sidecar and the audit trail   *)
(* about each egress request, whatever timeouts, cancellations, database   *)
(* errors and crashes befall the tasks that work on it:                    *)
(*   - it is recorded before it is held, and held at most once;            *)
(*   - it is answered at most once, and the answer never changes;          *)
(*   - it is granted only when its record says allowed;                    *)
(*   - a recorded decision never changes, it only goes with its workspace. *)
(***************************************************************************)
CONSTANT Requests
VARIABLES
  reply,   \* request -> none, pending (held), allow, deny, or lost
  record   \* request -> none, pending, allowed, denied, expired, deleted

vars == <<reply, record>>

Init ==
  /\ reply = [q \in Requests |-> "none"]
  /\ record = [q \in Requests |-> "none"]

Stay(q) == reply'[q] = reply[q] /\ record'[q] = record[q]

Ask(q) ==
  /\ record[q] = "none" /\ record'[q] = "pending"
  /\ reply'[q] = reply[q]

Hold(q) ==
  /\ reply[q] = "none" /\ record[q] \in {"pending", "deleted"}
  /\ reply'[q] = "pending"
  /\ record'[q] = record[q]

Decide(q) ==
  /\ record[q] = "pending" /\ record'[q] \in {"allowed", "denied", "expired"}
  /\ reply'[q] = reply[q]

Grant(q) ==
  /\ reply[q] = "pending" /\ record[q] \in {"allowed", "deleted"}
  /\ reply'[q] = "allow"
  /\ record'[q] = record[q]

\* A refusal may expire the record in the same step.
Refuse(q) ==
  /\ reply[q] = "pending" /\ reply'[q] = "deny"
  /\ \/ record'[q] = record[q]
     \/ record[q] = "pending" /\ record'[q] = "expired"

\* The process died while the request was held.
Lose(q) ==
  /\ reply[q] = "pending" /\ reply'[q] = "lost"
  /\ record'[q] = record[q]

Delete(q) ==
  /\ record[q] # "none" /\ record'[q] = "deleted"
  /\ reply'[q] = reply[q]

Move(q) ==
  \/ Stay(q) \/ Ask(q) \/ Hold(q) \/ Decide(q)
  \/ Grant(q) \/ Refuse(q) \/ Lose(q) \/ Delete(q)

\* A crash, a restart or a deletion moves several requests at once.
Next == \A q \in Requests : Move(q)

Spec == Init /\ [][Next]_vars
=============================================================================
