--------------------------- MODULE MCSidecarGate ---------------------------
(***************************************************************************)
(* SidecarGate with two connections to one address, or one to each of two, *)
(* and one kind of event or two per behaviour.                             *)
(***************************************************************************)
EXTENDS SidecarGate, TLC

CONSTANTS f1, f2, f3, a, b, host

TwoAndOne == (f1 :> a) @@ (f2 :> a) @@ (f3 :> b)

With(flows, events) == [flows |-> flows, events |-> events]

EachEvent ==
  { With({f1, f2}, {"allow", "deny", "once", "timed", "down", "time", "direct"}),
    With({f1, f3}, {"allow", "timed", "dns", "time"}),
    With({f1}, {"deny", "timed", "drop", "dns", "time", "direct"}),
    With({f1}, {"allow", "timed", "forever", "drop", "dns", "time", "direct"}),
    With({f1, f3}, {"allow", "forever", "drop", "dns"}) }

Revocations == { With({f1}, {"allow", "forever", "drop", "dns", "time"}) }

=============================================================================
