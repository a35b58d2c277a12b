---------------------------- MODULE ConsentVerdict ----------------------------
(***************************************************************************)
(* The life of recorded consent verdicts in one workspace: the rows of the *)
(* egress_consent table, the workspace's allowed_domains and               *)
(* rejected_domains lists that carry a "forever" verdict over a restart,   *)
(* the revocation of a verdict (ConsentCoordinator.revoke) with the        *)
(* drop_rule / drop_ack exchange over the sidecar's socket                 *)
(* (SidecarConnections), the retention sweep, the deletion of users and    *)
(* the container restart that reaps "until restart" verdicts.              *)
(*                                                                         *)
(* The sidecar is seen from klangkd: the frames it takes, and the verdicts *)
(* it was last told to go by.  Which of its iptables rules a drop finds    *)
(* and removes is the subject of SidecarGate.                              *)
(***************************************************************************)
EXTENDS Naturals, Sequences, FiniteSets

CONSTANTS
  Rows,       \* ids of egress_consent rows
  Hosts,      \* destination hosts
  HostOf,     \* row -> its dest_host
  PortOf,     \* row -> its dest_port; 0 is "no port"
  Users,      \* users who decide
  NoUser,     \* decided_by NULL
  Calls,      \* calls of revoke
  NoRow,
  Socks,      \* sidecar sockets; one is reused once its handler is done
  NoSock,
  Scenarios   \* the verdicts, durations and events of a behaviour: one of these

\* Events from outside the verdicts: a broken socket, a full send queue, a
\* failed list update, a container restart, a crash of klangkd, the retention
\* sweep, policy records, the deletion of a user.
Events == {"disconnect", "queue", "list", "stop", "crash", "prune", "static", "delete"}
Durations == {"once", "timed", "tilrestart", "forever"}
Verdicts == {"allowed", "denied"}

ASSUME RowsAssumption ==
  /\ HostOf \in [Rows -> Hosts]
  /\ PortOf \in [Rows -> Nat]
  /\ NoUser \notin Users
  /\ NoRow \notin Rows
  /\ NoSock \notin Socks
  /\ Scenarios \subseteq SUBSET (Events \cup Durations \cup Verdicts)

VARIABLES
  dec,        \* row -> its decision column, "none" before and "gone" after it
  said,       \* row -> the decision it was given
  dur,        \* row -> its duration column
  by,         \* row -> its decided_by column
  lapsed,     \* the timed rows whose time is over
  lists,      \* the entries of the two domain lists
  persisting, \* forever rows decided and not yet written to a list
  relaying,   \* rows whose verdict the relay task has yet to send
  asker,      \* row -> the socket its egress frame came over
  call,       \* call -> its progress
  conn,       \* the registered socket
  open,       \* sockets whose handler has not finished
  wire,       \* socket -> frames klangkd sent over it
  back,       \* drop_acks on their way: <<socket, call>>
  side,       \* the socket the sidecar is on
  told,       \* rows whose lasting verdict the sidecar took, no drop since
  static,     \* entries the sidecar was started with
  box,        \* the container: "up", "down", "read"
  spec,       \* the entries its next start was given
  sweep,      \* the retention sweep
  may,        \* the verdicts, durations and events of this behaviour
  asked,      \* history: rows with a revoke that found a verdict
  left,       \* history: rows whose decider was deleted
  met         \* history: entries a revoke and a verdict worked on at once

rowVars == <<dec, said, dur, by, lapsed>>
listVars == <<lists, persisting>>
linkVars == <<asker, conn, open, wire, back>>
sideVars == <<side, told, static, box, spec>>
histVars == <<may, asked, left, met>>
vars == <<rowVars, listVars, relaying, call, linkVars, sideVars, sweep, histVars>>

Decisions == Verdicts \cup {"none", "pending", "expired", "revoked", "gone"}
Steps == {"idle", "read", "ack", "mark", "fresh", "share", "retract", "done"}

-----------------------------------------------------------------------------
(* The domain-list entry a forever verdict maps to: host:port, for a deny  *)
(* without a port the bare host, for an allow without one none (an allow   *)
(* of every port is never made from a single request).                     *)
NoEntry == <<>>

ForeverEntry(q) ==
  IF said[q] = "allowed" /\ PortOf[q] = 0
  THEN NoEntry
  ELSE <<said[q], HostOf[q], PortOf[q]>>

Entries == {<<d, h, p>> : d \in Verdicts, h \in Hosts, p \in {PortOf[q] : q \in Rows}}

SameDest(p, q) == HostOf[p] = HostOf[q] /\ PortOf[p] = PortOf[q]

Decided(q) == dec[q] \in Verdicts

\* list_active and active_verdict_for.
DurationInEffect(q) ==
  \/ dur[q] \in {"tilrestart", "forever"}
  \/ dur[q] = "timed" /\ q \notin lapsed

InEffect(q) == Decided(q) /\ by[q] # NoUser /\ DurationInEffect(q)

Idle == [step |-> "idle", row |-> NoRow, ok |-> FALSE, via |-> "none",
         dropped |-> FALSE, heard |-> FALSE]

\* A call that found a verdict, and whether the sidecar had taken it by then.
Begun(q) == [step |-> "read", row |-> q, ok |-> FALSE, via |-> "none",
             dropped |-> FALSE, heard |-> q \in told]

\* A finished call keeps its answer only.
Ended(ok) == [step |-> "done", row |-> NoRow, ok |-> ok, via |-> "none",
              dropped |-> FALSE, heard |-> FALSE]

Busy(c) == call[c].step \notin {"idle", "done"}

NoSweep == [step |-> "idle", pending |-> {}, decided |-> {}]

\* The rows the drop frame of a revoke for q is about: the frame carries the
\* host and the decision, and no port.
DropTargets(q) == {p \in Rows : HostOf[p] = HostOf[q] /\ said[p] = said[q]}

Init ==
  /\ dec = [q \in Rows |-> "none"]
  /\ said = [q \in Rows |-> "none"]
  /\ dur = [q \in Rows |-> "null"]
  /\ by = [q \in Rows |-> NoUser]
  /\ lapsed = {}
  /\ lists = {}
  /\ persisting = {}
  /\ relaying = {}
  /\ asker = [q \in Rows |-> NoSock]
  /\ call = [c \in Calls |-> Idle]
  /\ conn = NoSock
  /\ open = {}
  /\ wire = [s \in Socks |-> <<>>]
  /\ back = {}
  /\ side = NoSock
  /\ told = {}
  /\ static = {}
  /\ box = "up"
  /\ spec = {}
  /\ sweep = NoSweep
  /\ may \in Scenarios
  /\ asked = {}
  /\ left = {}
  /\ met = {}

-----------------------------------------------------------------------------
(* Requests and verdicts.                                                  *)

\* create_request: at most one pending row per destination.
Ask(q) ==
  /\ dec[q] = "none"
  /\ side \in open
  /\ \A p \in Rows : SameDest(p, q) => dec[p] # "pending"
  /\ dec' = [dec EXCEPT ![q] = "pending"]
  /\ asker' = [asker EXCEPT ![q] = side]
  /\ UNCHANGED <<said, dur, by, lapsed, listVars, relaying, call, conn, open,
                 wire, back, sideVars, sweep, histVars>>

\* A revoke of the same entry is under way.
Meets(q) == \E c \in Calls : Busy(c) /\ ForeverEntry(call[c].row) = ForeverEntry(q)'

\* resolve: decide, wake the relay, go on to persist a forever verdict.
Decide(q, d, t, u) ==
  /\ dec[q] = "pending"
  /\ dec' = [dec EXCEPT ![q] = d]
  /\ said' = [said EXCEPT ![q] = d]
  /\ dur' = [dur EXCEPT ![q] = t]
  /\ by' = [by EXCEPT ![q] = u]
  /\ persisting' = IF t = "forever" /\ ForeverEntry(q)' # NoEntry
                   THEN persisting \cup {q} ELSE persisting
  /\ relaying' = IF asker[q] \in open THEN relaying \cup {q} ELSE relaying
  /\ met' = IF t = "forever" /\ Meets(q) THEN met \cup {ForeverEntry(q)'} ELSE met
  /\ UNCHANGED <<lapsed, lists, call, linkVars, sideVars, sweep, may, asked, left>>

\* A mutation: the name of the event is written for the decision.
ExpireTimeout(q) ==
  /\ dec[q] = "pending"
  /\ dec' = [dec EXCEPT ![q] = "timeout"]
  /\ dur' = [dur EXCEPT ![q] = "once"]
  /\ UNCHANGED <<said, by, lapsed, listVars, relaying, call, linkVars,
                 sideVars, sweep, histVars>>

\* expire_pending.
Expire(q) ==
  /\ dec[q] = "pending"
  /\ dec' = [dec EXCEPT ![q] = "expired"]
  /\ dur' = [dur EXCEPT ![q] = "once"]
  /\ UNCHANGED <<said, by, lapsed, listVars, relaying, call, linkVars,
                 sideVars, sweep, histVars>>

\* record_static_denial and record_static_allow: INSERT OR IGNORE, with no
\* user and no duration.
RecordStatic(q, d) ==
  /\ "static" \in may
  /\ dec[q] = "none"
  /\ \A p \in Rows : SameDest(p, q) => ~(dec[p] = d /\ by[p] = NoUser)
  /\ dec' = [dec EXCEPT ![q] = d]
  /\ said' = [said EXCEPT ![q] = d]
  /\ UNCHANGED <<dur, by, lapsed, listVars, relaying, call, linkVars, sideVars,
                 sweep, histVars>>

Lapse(q) ==
  /\ dur[q] = "timed" /\ q \notin lapsed
  /\ lapsed' = lapsed \cup {q}
  /\ UNCHANGED <<dec, said, dur, by, listVars, relaying, call, linkVars,
                 sideVars, sweep, histVars>>

\* _persist_forever_allow and _persist_forever_deny; a failure is swallowed.
Persist(q) ==
  /\ q \in persisting
  /\ persisting' = persisting \ {q}
  /\ lists' = lists \cup {ForeverEntry(q)}
  /\ UNCHANGED <<rowVars, relaying, call, linkVars, sideVars, sweep, histVars>>

PersistFails(q) ==
  /\ "list" \in may
  /\ q \in persisting
  /\ persisting' = persisting \ {q}
  /\ met' = met \cup {ForeverEntry(q)}
  /\ UNCHANGED <<rowVars, lists, relaying, call, linkVars, sideVars, sweep,
                 may, asked, left>>

\* _relay_verdict: the frame goes out over the socket that asked.
Relay(q) ==
  /\ q \in relaying
  /\ relaying' = relaying \ {q}
  /\ wire' = [wire EXCEPT ![asker[q]] = Append(@, [type |-> "verdict", row |-> q])]
  /\ UNCHANGED <<rowVars, listVars, call, asker, conn, open, back, sideVars,
                 sweep, histVars>>

-----------------------------------------------------------------------------
(* ConsentCoordinator.revoke.                                              *)

Goto(c, step) == call' = [call EXCEPT ![c].step = step]
Return(c, ok) == call' = [call EXCEPT ![c] = Ended(ok)]

\* The row is read.  Anything but a verdict ends the call at once.
RevokeReads(c, q) ==
  /\ call[c].step = "idle"
  /\ call' = [call EXCEPT ![c] =
       IF Decided(q) THEN Begun(q) ELSE Ended(dec[q] = "revoked")]
  /\ asked' = IF Decided(q) THEN asked \cup {q} ELSE asked
  /\ met' = IF \E p \in persisting : ForeverEntry(p) = ForeverEntry(q)
            THEN met \cup {ForeverEntry(q)} ELSE met
  /\ UNCHANGED <<rowVars, listVars, relaying, linkVars, sideVars, sweep, may,
                 left>>

\* send_drop with a socket registered and room in its queue.
RevokeSends(c) ==
  /\ call[c].step = "read"
  /\ conn # NoSock
  /\ call' = [call EXCEPT ![c].step = "ack", ![c].via = "ack"]
  /\ wire' = [wire EXCEPT ![conn] = 
       Append(@, [type |-> "drop", row |-> call[c].row, id |-> c])]
  /\ UNCHANGED <<rowVars, listVars, relaying, asker, conn, open, back, sideVars,
                 sweep, histVars>>

\* send_drop with none, or with a full queue: the call goes on as if there
\* were nothing to drop, though the sidecar may be alive and about to connect.
RevokeSkips(c) ==
  /\ call[c].step = "read"
  /\ conn = NoSock \/ "queue" \in may
  /\ Goto(c, "mark")
  /\ UNCHANGED <<rowVars, listVars, relaying, linkVars, sideVars, sweep, histVars>>

\* resolve_ack; an ack nobody waits for any more is ignored.
AckArrives(s, c) ==
  /\ <<s, c>> \in back
  /\ s \in open
  /\ back' = back \ {<<s, c>>}
  /\ IF call[c].step = "ack" THEN Goto(c, "mark") ELSE UNCHANGED call
  /\ UNCHANGED <<rowVars, listVars, relaying, asker, conn, open, wire, sideVars,
                 sweep, histVars>>

\* REVOKE_ACK_TIMEOUT; an ack that says the drop failed ends the call alike.
AckTimesOut(c) ==
  /\ call[c].step = "ack"
  /\ Return(c, FALSE)
  /\ UNCHANGED <<rowVars, listVars, relaying, linkVars, sideVars, sweep, histVars>>

\* What follows once the row is known to be revoked.
Marked(c) ==
  IF dur[call[c].row] = "forever" /\ ForeverEntry(call[c].row) # NoEntry
  THEN Goto(c, "share") ELSE Return(c, TRUE)

\* EgressConsent.revoke: an UPDATE guarded by the decision.
RevokeMarks(c) ==
  LET q == call[c].row IN
  /\ call[c].step = "mark"
  /\ IF Decided(q)
     THEN dec' = [dec EXCEPT ![q] = "revoked"] /\ Marked(c)
     ELSE Goto(c, "fresh") /\ UNCHANGED dec
  /\ UNCHANGED <<said, dur, by, lapsed, listVars, relaying, linkVars, sideVars,
                 sweep, histVars>>

\* The UPDATE found nothing: a concurrent revoke is a success all the same.
RevokeRereads(c) ==
  /\ call[c].step = "fresh"
  /\ IF dec[call[c].row] = "revoked" THEN Marked(c) ELSE Return(c, FALSE)
  /\ UNCHANGED <<rowVars, listVars, relaying, linkVars, sideVars, sweep, histVars>>

\* _forever_entry_still_shared.
StillShared(q) ==
  \E p \in Rows \ {q} :
    InEffect(p) /\ dur[p] = "forever" /\ ForeverEntry(p) = ForeverEntry(q)

\* A mutation: the entry is retracted whoever else needs it.
RevokeSharesNot(c) ==
  /\ call[c].step = "share"
  /\ Goto(c, "retract")
  /\ UNCHANGED <<rowVars, listVars, relaying, linkVars, sideVars, sweep, histVars>>

RevokeShares(c) ==
  /\ call[c].step = "share"
  /\ IF StillShared(call[c].row) THEN Return(c, TRUE) ELSE Goto(c, "retract")
  /\ UNCHANGED <<rowVars, listVars, relaying, linkVars, sideVars, sweep, histVars>>

\* _remove_list_entry; a failure is swallowed.
RevokeRetracts(c) ==
  /\ call[c].step = "retract"
  /\ lists' = lists \ {ForeverEntry(call[c].row)}
  /\ Return(c, TRUE)
  /\ UNCHANGED <<rowVars, persisting, relaying, linkVars, sideVars, sweep, histVars>>

RetractFails(c) ==
  /\ "list" \in may
  /\ call[c].step = "retract"
  /\ Return(c, TRUE)
  /\ met' = met \cup {ForeverEntry(call[c].row)}
  /\ UNCHANGED <<rowVars, listVars, relaying, linkVars, sideVars, sweep, may,
                 asked, left>>

-----------------------------------------------------------------------------
(* The sidecar and its socket.                                             *)

\* handle_egress_sidecar: a fresh socket takes over the registration.
Connect(s) ==
  /\ box = "up" /\ side = NoSock
  /\ s \notin open
  /\ side' = s
  /\ conn' = s
  /\ open' = open \cup {s}
  /\ UNCHANGED <<rowVars, listVars, relaying, call, asker, wire, back, told,
                 static, box, spec, sweep, histVars>>

\* The connection breaks.  The sidecar goes by what it was told.
Disconnect ==
  /\ "disconnect" \in may
  /\ side # NoSock
  /\ side' = NoSock
  /\ UNCHANGED <<rowVars, listVars, relaying, call, linkVars, told, static,
                 box, spec, sweep, histVars>>

\* A mutation: the acks awaited are resolved instead of failed.
DeregisterResolves(s) ==
  IF conn \in {s, NoSock}
  THEN /\ conn' = NoSock
       /\ call' = [c \in Calls |->
            IF call[c].step = "ack" THEN [call[c] EXCEPT !.step = "mark"] ELSE call[c]]
  ELSE UNCHANGED <<conn, call>>

\* deregister, guarded by identity: only the owner of the registration (or
\* nobody's) clears it, and then every drop_ack awaited fails.
Deregister(s) ==
  IF conn \in {s, NoSock}
  THEN /\ conn' = NoSock
       /\ call' = [c \in Calls |->
            IF call[c].step = "ack"
            THEN Ended(FALSE) ELSE call[c]]
  ELSE UNCHANGED <<conn, call>>

\* The handler of a broken socket finishes: deregister, cancel its relays.
HandlerEnds(s) ==
  /\ s \in open /\ s # side
  /\ Deregister(s)
  /\ open' = open \ {s}
  /\ relaying' = {q \in relaying : asker[q] # s}
  /\ asker' = [q \in Rows |-> IF asker[q] = s THEN NoSock ELSE asker[q]]
  /\ wire' = [wire EXCEPT ![s] = <<>>]
  /\ back' = {b \in back : b[1] # s}
  /\ UNCHANGED <<rowVars, listVars, sideVars, sweep, histVars>>

\* The sidecar takes a verdict: it goes on applying a lasting one.
SidecarApplies ==
  /\ side # NoSock /\ wire[side] # <<>>
  /\ LET f == Head(wire[side]) IN
       /\ f.type = "verdict"
       /\ told' = IF dur[f.row] = "once" THEN told ELSE told \cup {f.row}
  /\ wire' = [wire EXCEPT ![side] = Tail(@)]
  /\ UNCHANGED <<rowVars, listVars, relaying, call, asker, conn, open, back,
                 side, static, box, spec, sweep, histVars>>

\* handle_drop_rule: the sidecar takes the drop and acknowledges it.
SidecarDrops ==
  /\ side # NoSock /\ wire[side] # <<>>
  /\ LET f == Head(wire[side]) IN
       /\ f.type = "drop"
       /\ told' = told \ DropTargets(f.row)
       /\ back' = back \cup {<<side, f.id>>}
       /\ call' = [call EXCEPT ![f.id].dropped = @ \/ call[f.id].step = "ack"]
  /\ wire' = [wire EXCEPT ![side] = Tail(@)]
  /\ UNCHANGED <<rowVars, listVars, relaying, asker, conn, open, side, static,
                 box, spec, sweep, histVars>>

\* The sidecar's own clock ends a timed verdict.
VerdictLapses(q) ==
  /\ q \in told /\ q \in lapsed
  /\ told' = told \ {q}
  /\ UNCHANGED <<rowVars, listVars, relaying, call, linkVars, side, static, box,
                 spec, sweep, histVars>>

-----------------------------------------------------------------------------
(* The container.                                                          *)

\* The container and its sidecar end, and with it what the sidecar was told.
ContainerStops ==
  /\ "stop" \in may
  /\ box = "up"
  /\ box' = "down"
  /\ side' = NoSock
  /\ told' = {}
  /\ static' = {}
  /\ UNCHANGED <<rowVars, listVars, relaying, call, linkVars, spec, sweep, histVars>>

\* A start request reads the workspace, and with it the domain lists.
StartReads ==
  /\ box = "down"
  /\ box' = "read"
  /\ spec' = lists
  /\ UNCHANGED <<rowVars, listVars, relaying, call, linkVars, side, told,
                 static, sweep, histVars>>

\* start_container: clear_tilrestart_duration, then a sidecar with the lists
\* that were read.
ContainerStarts ==
  /\ box = "read"
  /\ box' = "up"
  /\ static' = spec
  /\ spec' = {}
  /\ dec' = [q \in Rows |->
       IF Decided(q) /\ dur[q] = "tilrestart" THEN "gone" ELSE dec[q]]
  /\ UNCHANGED <<said, dur, by, lapsed, listVars, relaying, call, linkVars,
                 side, told, sweep, histVars>>

-----------------------------------------------------------------------------
(* Housekeeping.                                                           *)

PruneEligible(q) ==
  dec[q] \notin {"none", "gone"} /\ ~InEffect(q)

\* prune takes a snapshot of rows old enough, or too many ...
PruneReads(old) ==
  /\ "prune" \in may
  /\ sweep.step = "idle"
  /\ old # {} /\ \A q \in old : PruneEligible(q)
  /\ sweep' = [step |-> "pending",
               pending |-> {q \in old : dec[q] = "pending"},
               decided |-> {q \in old : dec[q] # "pending"}]
  /\ UNCHANGED <<rowVars, listVars, relaying, call, linkVars, sideVars, histVars>>

\* A mutation: deletes what was pending when it looked.
PruneDeletesStale ==
  /\ sweep.step = "pending"
  /\ dec' = [q \in Rows |-> IF q \in sweep.pending THEN "gone" ELSE dec[q]]
  /\ sweep' = [step |-> "decided", pending |-> {}, decided |-> sweep.decided]
  /\ UNCHANGED <<said, dur, by, lapsed, listVars, relaying, call, linkVars,
                 sideVars, histVars>>

\* ... deletes the pending ones that are pending still ...
PruneDeletesPending ==
  /\ sweep.step = "pending"
  /\ dec' = [q \in Rows |->
       IF q \in sweep.pending /\ dec[q] = "pending" THEN "gone" ELSE dec[q]]
  /\ sweep' = [step |-> "decided", pending |-> {}, decided |-> sweep.decided]
  /\ UNCHANGED <<said, dur, by, lapsed, listVars, relaying, call, linkVars,
                 sideVars, histVars>>

\* ... and the decided ones without looking again.
PruneDeletesDecided ==
  /\ sweep.step = "decided"
  /\ dec' = [q \in Rows |-> IF q \in sweep.decided THEN "gone" ELSE dec[q]]
  /\ sweep' = NoSweep
  /\ UNCHANGED <<said, dur, by, lapsed, listVars, relaying, call, linkVars,
                 sideVars, histVars>>

\* Two rows that the unique indexes on policy records would not allow.
Clash(p, q) ==
  /\ p # q /\ SameDest(p, q)
  /\ Decided(p) /\ dec[p] = dec[q]

\* delete_user: ON DELETE SET NULL on decided_by.  The transaction fails as
\* a whole when two rows would then be the same policy record.
DeleteUser(u) ==
  LET mine == {q \in Rows : by[q] = u /\ dec[q] # "gone"} IN
  /\ "delete" \in may
  /\ mine # {}
  /\ ~\E p \in mine, q \in Rows : Clash(p, q) /\ (q \in mine \/ by[q] = NoUser)
  /\ by' = [q \in Rows |-> IF by[q] = u THEN NoUser ELSE by[q]]
  /\ left' = left \cup {q \in Rows : by[q] = u}
  /\ UNCHANGED <<dec, said, dur, lapsed, listVars, relaying, call, linkVars,
                 sideVars, sweep, may, asked, met>>

\* klangkd dies and starts again: expire_all_pending; tasks and sockets are
\* gone, containers and their sidecars are not.
ServerRestarts ==
  /\ "crash" \in may
  /\ open # {}
  /\ dec' = [q \in Rows |-> IF dec[q] = "pending" THEN "expired" ELSE dec[q]]
  /\ call' = [c \in Calls |->
       IF Busy(c) THEN Ended(FALSE) ELSE call[c]]
  /\ met' = met \cup {ForeverEntry(q) : q \in persisting}
                \cup {ForeverEntry(call[c].row) : c \in {b \in Calls : Busy(b)}}
  /\ persisting' = {}
  /\ relaying' = {}
  /\ conn' = NoSock
  /\ open' = {}
  /\ side' = NoSock
  /\ asker' = [q \in Rows |-> NoSock]
  /\ wire' = [s \in Socks |-> <<>>]
  /\ back' = {}
  /\ sweep' = NoSweep
  /\ UNCHANGED <<said, dur, by, lapsed, lists, told, static, box, spec, may,
                 asked, left>>

-----------------------------------------------------------------------------
RowStep(q) ==
  \/ Ask(q)
  \/ \E d \in Verdicts \cap may, t \in Durations \cap may, u \in Users : Decide(q, d, t, u)
  \/ Expire(q)
  \/ \E d \in Verdicts \cap may : RecordStatic(q, d)
  \/ Lapse(q)
  \/ Persist(q)
  \/ PersistFails(q)
  \/ Relay(q)
  \/ VerdictLapses(q)

CallStep(c) ==
  \/ \E q \in Rows : RevokeReads(c, q)
  \/ RevokeSends(c)
  \/ RevokeSkips(c)
  \/ \E s \in Socks : AckArrives(s, c)
  \/ AckTimesOut(c)
  \/ RevokeMarks(c)
  \/ RevokeRereads(c)
  \/ RevokeShares(c)
  \/ RevokeRetracts(c)
  \/ RetractFails(c)

LinkStep ==
  \/ \E s \in Socks : Connect(s) \/ HandlerEnds(s)
  \/ Disconnect
  \/ SidecarApplies
  \/ SidecarDrops

HouseStep ==
  \/ ContainerStops
  \/ StartReads
  \/ ContainerStarts
  \/ \E old \in SUBSET Rows : PruneReads(old)
  \/ PruneDeletesPending
  \/ PruneDeletesDecided
  \/ \E u \in Users : DeleteUser(u)
  \/ ServerRestarts

Next ==
  \/ \E q \in Rows : RowStep(q)
  \/ \E c \in Calls : CallStep(c)
  \/ LinkStep
  \/ HouseStep

Spec == Init /\ [][Next]_vars

-----------------------------------------------------------------------------
(* Properties.                                                             *)

Frames == [type : {"verdict"}, row : Rows]
          \cup [type : {"drop"}, row : Rows, id : Calls]

\* Every variable has its type.
TypeOK ==
  /\ dec \in [Rows -> Decisions]
  /\ said \in [Rows -> Verdicts \cup {"none"}]
  /\ dur \in [Rows -> Durations \cup {"null"}]
  /\ by \in [Rows -> Users \cup {NoUser}]
  /\ lapsed \subseteq Rows
  /\ lists \subseteq Entries
  /\ persisting \subseteq Rows
  /\ relaying \subseteq Rows
  /\ asker \in [Rows -> Socks \cup {NoSock}]
  /\ call \in [Calls -> [step : Steps, row : Rows \cup {NoRow}, ok : BOOLEAN,
                         via : {"none", "ack"}, dropped : BOOLEAN,
                         heard : BOOLEAN]]
  /\ conn \in Socks \cup {NoSock}
  /\ open \subseteq Socks
  /\ wire \in [Socks -> Seq(Frames)]
  /\ back \subseteq Socks \X Calls
  /\ side \in Socks \cup {NoSock}
  /\ told \subseteq Rows
  /\ static \subseteq Entries
  /\ box \in {"up", "down", "read"}
  /\ spec \subseteq Entries
  /\ sweep \in [step : {"idle", "pending", "decided"},
                pending : SUBSET Rows, decided : SUBSET Rows]
  /\ may \in Scenarios
  /\ asked \subseteq Rows
  /\ left \subseteq Rows

Effect(q) ==
  IF dec[q] \in {"none", "pending"} THEN "new"
  ELSE IF InEffect(q) THEN "in" ELSE "out"

\* The module's promise: every step is one ConsentPolicy allows.  A verdict in
\* effect ends only by its time, a revoke, a container start or the deletion
\* of its decider; the retention sweep, whose snapshot may be stale by the
\* time it deletes, never ends one (EgressConsent.prune).
Policy == INSTANCE ConsentPolicy
            WITH effect <- [q \in Rows |-> Effect(q)],
                 span <- [q \in Rows |-> IF InEffect(q) THEN dur[q] ELSE "null"],
                 asked <- asked, left <- left

PolicySpec == Policy!Spec

\* No write to this entry, no revoke of it and no verdict of a deleted user is
\* outstanding, and none overlapped another.
Settled(e) ==
  /\ e \notin met
  /\ \A q \in persisting : ForeverEntry(q) # e
  /\ \A c \in Calls : Busy(c) => ForeverEntry(call[c].row) # e
  /\ \A q \in left : ForeverEntry(q) # e

\* _persist_forever_allow: "A forever allow now lives in BOTH allowed_domains
\* and an egress_consent audit row; revoking it must remove both".  Whatever
\* order the verdicts and the revokes of one host and port come in, as long as
\* a revoke and a verdict of the same entry do not overlap, the entry is on the
\* list exactly while a forever verdict for it is in effect: the first of two
\* revokes keeps it, the last one retracts it.
ListsAgree ==
  \A e \in Entries : Settled(e) =>
    (e \in lists <=>
       \E q \in Rows : InEffect(q) /\ dur[q] = "forever" /\ ForeverEntry(q) = e)

\* _sidecar_acked_drop: "A live sidecar must ack first".  When a call answers
\* True the verdict is out of effect, and if the call sent a drop, then the
\* sidecar took that very drop (not the drop of another call, and no broken
\* socket stood in for its ack), and a verdict it had taken when the call began
\* was not sent to it again: the drop is the last it was told.  (A verdict its
\* relay had yet to send may follow the drop.)  A call that finds no registered
\* socket, or a full queue, sends nothing and answers True as well
\* (RevokeSkips): the property says nothing about the sidecar then.
RevokeIsHonest ==
  [][\A c \in Calls, q \in Rows :
       (Busy(c) /\ call[c].row = q /\ call'[c].step = "done" /\ call'[c].ok) =>
         /\ ~InEffect(q)'
         /\ call[c].via = "ack" =>
              call[c].dropped /\ (call[c].heard => q \notin told')]_vars
=============================================================================
