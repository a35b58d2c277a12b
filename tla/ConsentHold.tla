---------------------------- MODULE ConsentHold ----------------------------
(***************************************************************************)
(* The hold of a blocked egress connection, from the relay task that opens *)
(* it to the verdict it is answered with: klangk/consent/coordinator.py    *)
(* (hold, resolve, the per-hold timeout, stop), the relay tasks of         *)
(* klangk/wshandler/sidecar.py, and the rows of model/egress_consent.py.   *)
(*                                                                         *)
(* The grain is that of asyncio: a step runs from one await to the next.   *)
(* A database call is an await.  A write whose caller may be cancelled     *)
(* after the commit and before the return (create_request, decide) is two  *)
(* steps; any other database call is one.                                  *)
(*                                                                         *)
(* A relay opens at most one request, so a relay also names its request.   *)
(* What the mode, pause and decider gates answer is arbitrary here         *)
(* (GateAnswers, GateInteractive).                                         *)
(***************************************************************************)
EXTENDS Naturals, FiniteSets, Sequences

CONSTANTS
  Relays,            \* egress frames of the sidecars: one relay task each
  Deciders,          \* decider connections; each handles its frames in turn
  Workspaces,
  Dests,             \* (host, port) pairs
  WorkspaceOf,       \* relay -> its workspace
  DestOf,            \* relay -> its destination
  DeciderWorkspace,  \* decider -> the one workspace it may decide for
  RateLimit,         \* egress_consent_rate_limit; 0 is no cap
  Faults,            \* the fault classes that may happen, see FaultClass
  NoRequest          \* what a decider or stop() not at work on a request has

\* db: a database call raises.  relay: a sidecar disconnects, cancelling its
\* relay.  decider: the task of a decider is cancelled.  crash: the process
\* dies.  delete: a workspace is deleted.  busystop: stop() is called with
\* sockets still open; the server closes them all first.
FaultClass == {"db", "relay", "decider", "crash", "delete", "busystop"}

ASSUME ConstantsAssumption ==
  /\ IsFiniteSet(Relays)
  /\ WorkspaceOf \in [Relays -> Workspaces]
  /\ DestOf \in [Relays -> Dests]
  /\ DeciderWorkspace \in [Deciders -> Workspaces]
  /\ RateLimit \in Nat
  /\ Faults \subseteq FaultClass
  /\ NoRequest \notin Relays

VARIABLES
  up,         \* the backend process is running
  gone,       \* deleted workspaces
  relay,      \* relay -> where its task is
  answer,     \* relay -> the verdict sent to the sidecar, or "none"
  row,        \* relay -> decision column of its egress_consent row
  holds,      \* ids in ConsentCoordinator._holds
  fut,        \* relay -> the hold's Future
  timer,      \* relay -> where the hold's timeout task is
  told,       \* relay -> labels of the egress_resolved frames broadcast
  step,       \* decider -> where its resolve() call is
  req,        \* decider -> the request it resolves
  say,        \* decider -> the verdict it gives
  stopAt,     \* where the coordinator's stop() call is
  stopTodo,   \* the ids stop() has yet to visit
  stopReq,    \* the id it is at
  abandoned   \* history: rows whose expiry was given up (see GiveUp)

hold == <<holds, fut, timer, told>>
call == <<step, req, say>>
stop == <<stopAt, stopTodo, stopReq>>
vars == <<up, gone, relay, answer, row, hold, call, stop, abandoned>>

Verdict == {"allow", "deny"}
Label == {"allowed", "denied", "expired"}

RelayState ==
  {"idle", "gate", "count", "create", "created", "wait", "done", "cancelled"}
InFlight == {"gate", "count", "create", "created", "wait"}
TimerState ==
  {"none", "sleeping", "cancelling", "expire1", "expire2", "done"}
CallState ==
  {"idle", "reap", "decide", "decided", "missed", "after",
   "strand1", "strand2", "rescue1", "rescue2"}
StopState == {"no", "scan", "reap", "expire1", "expire2", "done"}

\* Fault: the wire verdict is stored in the decision column.
Recorded_raw(v) == v

\* The decision column, and the egress_resolved label, of a verdict.
Recorded(v) == IF v = "allow" THEN "allowed" ELSE "denied"

Init ==
  /\ up = TRUE
  /\ gone = {}
  /\ relay = [r \in Relays |-> "idle"]
  /\ answer = [r \in Relays |-> "none"]
  /\ row = [r \in Relays |-> "none"]
  /\ holds = {}
  /\ fut = [r \in Relays |-> "none"]
  /\ timer = [r \in Relays |-> "none"]
  /\ told = [r \in Relays |-> <<>>]
  /\ step = [d \in Deciders |-> "idle"]
  /\ req = [d \in Deciders |-> NoRequest]
  /\ say = [d \in Deciders |-> "deny"]
  /\ stopAt = "no"
  /\ stopTodo = {}
  /\ stopReq = NoRequest
  /\ abandoned = {}

-----------------------------------------------------------------------------
(* Pieces the tasks share.                                                 *)

\* Frames still arrive on the sockets.
Serving == up /\ (stopAt = "no" \/ "busystop" \in Faults)

\* asyncio's Task.cancel on a hold's timeout task: it lands at the sleep.
CancelTimer(r) ==
  timer' = [timer EXCEPT ![r] = IF @ = "sleeping" THEN "cancelling" ELSE @]

\* Set the Future unless it is done, and tell the deciders.
Settle(r, v, label) ==
  /\ fut' = [fut EXCEPT ![r] = IF @ = "pending" THEN v ELSE @]
  /\ told' = [told EXCEPT ![r] = Append(@, label)]

\* Fault: the rescue does not look whether the Future is done.
FailClosePopped_unguarded(r) == Settle(r, "deny", "expired")

\* _resolve_popped_fail_close: nothing at all when the Future is done.
FailClosePopped(r) ==
  IF fut[r] = "pending"
  THEN Settle(r, "deny", "expired")
  ELSE UNCHANGED <<fut, told>>

\* Fault: the UPDATE has lost its AND decision = 'pending'.
ExpirePending_unguarded(r) == row' = [row EXCEPT ![r] = "expired"]

\* expire_pending: only a row still pending.
ExpirePending(r) ==
  row' = [row EXCEPT ![r] = IF @ = "pending" THEN "expired" ELSE @]

\* _expire_stranded after its second failure: the row is left to the
\* startup reaper.
GiveUp(r) ==
  abandoned' = IF row[r] = "pending" THEN abandoned \cup {r} ELSE abandoned

\* Rows a workspace may not have twice: the pending-dedup index.
SameDest(r, s) == WorkspaceOf[r] = WorkspaceOf[s] /\ DestOf[r] = DestOf[s]

PendingOf(w) == {r \in Relays : WorkspaceOf[r] = w /\ row[r] = "pending"}

-----------------------------------------------------------------------------
(* The relay task: _relay_verdict, hold, _interactive_hold.                *)

Answer(r, v) ==
  /\ relay' = [relay EXCEPT ![r] = "done"]
  /\ answer' = [answer EXCEPT ![r] = v]

\* An egress frame arrives: dispatch_sidecar_message starts a relay task.
EgressFrame(r) ==
  /\ Serving /\ relay[r] = "idle"
  /\ relay' = [relay EXCEPT ![r] = "gate"]
  /\ UNCHANGED <<up, gone, answer, row, hold, call, stop, abandoned>>

\* Allow mode, a pause, static mode or no decider: answered without a hold.
GateAnswers(r, v) ==
  /\ up /\ relay[r] = "gate"
  /\ Answer(r, v)
  /\ UNCHANGED <<up, gone, row, hold, call, stop, abandoned>>

\* Interactive mode with a decider; RateLimit = 0 skips the count.
GateInteractive(r) ==
  /\ up /\ relay[r] = "gate"
  /\ WorkspaceOf[r] \notin gone
  /\ relay' = [relay EXCEPT ![r] = IF RateLimit = 0 THEN "create" ELSE "count"]
  /\ UNCHANGED <<up, gone, answer, row, hold, call, stop, abandoned>>

CountPending(r) ==
  /\ up /\ relay[r] = "count"
  /\ IF Cardinality(PendingOf(WorkspaceOf[r])) >= RateLimit
     THEN Answer(r, "deny")
     ELSE /\ relay' = [relay EXCEPT ![r] = "create"]
          /\ UNCHANGED answer
  /\ UNCHANGED <<up, gone, row, hold, call, stop, abandoned>>

\* Fault: a plain INSERT, without the dedup index.
CreateRequest_nodedup(r) ==
  /\ up /\ relay[r] = "create"
  /\ row' = [row EXCEPT ![r] = "pending"]
  /\ relay' = [relay EXCEPT ![r] = "created"]
  /\ UNCHANGED <<up, gone, answer, hold, call, stop, abandoned>>

\* create_request commits: INSERT OR IGNORE against the dedup index.  In a
\* deleted workspace the foreign key makes it raise.
CreateRequest(r) ==
  /\ up /\ relay[r] = "create"
  /\ IF \/ WorkspaceOf[r] \in gone
        \/ \E s \in Relays : SameDest(r, s) /\ row[s] = "pending"
     THEN /\ Answer(r, "deny")
          /\ UNCHANGED row
     ELSE /\ row' = [row EXCEPT ![r] = "pending"]
          /\ relay' = [relay EXCEPT ![r] = "created"]
          /\ UNCHANGED answer
  /\ UNCHANGED <<up, gone, hold, call, stop, abandoned>>

\* hold's except Exception arm: a database call of the gates raised.
HoldFails(r) ==
  /\ "db" \in Faults
  /\ up /\ relay[r] \in {"gate", "count", "create"}
  /\ Answer(r, "deny")
  /\ UNCHANGED <<up, gone, row, hold, call, stop, abandoned>>

\* create_request returns and _register_hold runs, in one step.
RegisterHold(r) ==
  /\ up /\ relay[r] = "created"
  /\ relay' = [relay EXCEPT ![r] = "wait"]
  /\ holds' = holds \cup {r}
  /\ fut' = [fut EXCEPT ![r] = "pending"]
  /\ timer' = [timer EXCEPT ![r] = "sleeping"]
  /\ UNCHANGED <<up, gone, answer, row, told, call, stop, abandoned>>

RelayVerdict(r) ==
  /\ up /\ relay[r] = "wait"
  /\ fut[r] \in Verdict
  /\ Answer(r, fut[r])
  /\ UNCHANGED <<up, gone, row, hold, call, stop, abandoned>>

\* The sidecar disconnects.  The Future is shielded; a request whose INSERT
\* has committed is never registered, so nobody will expire it.
CancelRelay(r) ==
  /\ "relay" \in Faults
  /\ up /\ relay[r] \in InFlight
  /\ relay' = [relay EXCEPT ![r] = "cancelled"]
  /\ IF relay[r] = "created" THEN GiveUp(r) ELSE UNCHANGED abandoned
  /\ UNCHANGED <<up, gone, answer, row, hold, call, stop>>

-----------------------------------------------------------------------------
(* The timeout task of a hold: _timeout, _fail_close, _expire_stranded.    *)

TimerWakes(r) ==
  /\ up /\ timer[r] = "sleeping"
  /\ holds' = holds \ {r}
  /\ timer' = [timer EXCEPT ![r] = IF r \in holds THEN "expire1" ELSE "done"]
  /\ UNCHANGED <<up, gone, relay, answer, row, fut, told, call, stop,
                 abandoned>>

\* The task processes its cancellation and returns.
TimerCancelled(r) ==
  /\ up /\ timer[r] = "cancelling"
  /\ timer' = [timer EXCEPT ![r] = "done"]
  /\ UNCHANGED <<up, gone, relay, answer, row, holds, fut, told, call, stop,
                 abandoned>>

TimerExpires(r) ==
  /\ up /\ timer[r] \in {"expire1", "expire2"}
  /\ ExpirePending(r)
  /\ Settle(r, "deny", "expired")
  /\ timer' = [timer EXCEPT ![r] = "done"]
  /\ UNCHANGED <<up, gone, relay, answer, holds, call, stop, abandoned>>

\* Fault: the second failure escapes _fail_close before the Future is set.
TimerExpireFails_escapes(r) ==
  /\ "db" \in Faults
  /\ up /\ timer[r] \in {"expire1", "expire2"}
  /\ timer' = [timer EXCEPT ![r] = IF @ = "expire1" THEN "expire2" ELSE "done"]
  /\ UNCHANGED <<up, gone, relay, answer, row, holds, fut, told, call, stop,
                 abandoned>>

TimerExpireFails(r) ==
  /\ "db" \in Faults
  /\ up
  /\ \/ /\ timer[r] = "expire1"
        /\ timer' = [timer EXCEPT ![r] = "expire2"]
        /\ UNCHANGED <<fut, told, abandoned>>
     \/ /\ timer[r] = "expire2"
        /\ GiveUp(r)
        /\ Settle(r, "deny", "expired")
        /\ timer' = [timer EXCEPT ![r] = "done"]
  /\ UNCHANGED <<up, gone, relay, answer, row, holds, call, stop>>

-----------------------------------------------------------------------------
(* A decider's verdict frame: resolve and what it awaits.  A verdict for a *)
(* request that is not held, or is another workspace's, changes nothing.   *)

Goto(d, at) ==
  /\ step' = [step EXCEPT ![d] = at]
  /\ UNCHANGED <<req, say>>
Return(d) ==
  /\ step' = [step EXCEPT ![d] = "idle"]
  /\ req' = [req EXCEPT ![d] = NoRequest]
  /\ say' = [say EXCEPT ![d] = "deny"]

\* Fault: the timeout is cancelled at once, the hold popped only later.
Resolve_peeks(d, r, v) ==
  /\ Serving /\ step[d] = "idle"
  /\ r \in holds
  /\ WorkspaceOf[r] = DeciderWorkspace[d]
  /\ CancelTimer(r)
  /\ step' = [step EXCEPT ![d] = "reap"]
  /\ req' = [req EXCEPT ![d] = r]
  /\ say' = [say EXCEPT ![d] = v]
  /\ UNCHANGED <<up, gone, relay, answer, row, holds, fut, told, stop,
                 abandoned>>

\* _pop_hold: the pop and the timeout task's cancel are one step.
Resolve(d, r, v) ==
  /\ Serving /\ step[d] = "idle"
  /\ r \in holds
  /\ WorkspaceOf[r] = DeciderWorkspace[d]
  /\ holds' = holds \ {r}
  /\ CancelTimer(r)
  /\ step' = [step EXCEPT ![d] = "reap"]
  /\ req' = [req EXCEPT ![d] = r]
  /\ say' = [say EXCEPT ![d] = v]
  /\ UNCHANGED <<up, gone, relay, answer, row, fut, told, stop, abandoned>>

\* _cancel_hold_task returns once the timeout task has ended.
Reaped(d) ==
  /\ up /\ step[d] = "reap"
  /\ timer[req[d]] = "done"
  /\ Goto(d, "decide")
  /\ UNCHANGED <<up, gone, relay, answer, row, hold, stop, abandoned>>

\* decide commits; it records nothing on a row that is no longer pending.
Decide(d) ==
  LET r == req[d] IN
  /\ up /\ step[d] = "decide"
  /\ IF row[r] = "pending"
     THEN /\ row' = [row EXCEPT ![r] = Recorded(say[d])]
          /\ Goto(d, "decided")
     ELSE /\ Goto(d, "missed")
          /\ UNCHANGED row
  /\ UNCHANGED <<up, gone, relay, answer, hold, stop, abandoned>>

\* Fault: the verdict is relayed although recording it failed.
DecideFails_open(d) ==
  LET v == say[d] IN
  /\ "db" \in Faults
  /\ up /\ step[d] = "decide"
  /\ Settle(req[d], v, Recorded(v))
  /\ Goto(d, "strand1")
  /\ UNCHANGED <<up, gone, relay, answer, row, holds, timer, stop, abandoned>>

\* Fault: the exception escapes with the hold popped.
DecideFails_escapes(d) ==
  /\ "db" \in Faults
  /\ up /\ step[d] = "decide"
  /\ Return(d)
  /\ UNCHANGED <<up, gone, relay, answer, row, hold, stop, abandoned>>

\* decide raises: _finish_resolve denies at once, the row is expired next.
DecideFails(d) ==
  /\ "db" \in Faults
  /\ up /\ step[d] = "decide"
  /\ Settle(req[d], "deny", "expired")
  /\ Goto(d, "strand1")
  /\ UNCHANGED <<up, gone, relay, answer, row, holds, timer, stop, abandoned>>

\* decide returns the row: the verdict goes to the Future and the deciders.
FinishResolve(d) ==
  LET v == say[d] IN
  /\ up /\ step[d] = "decided"
  /\ Settle(req[d], v, Recorded(v))
  /\ Goto(d, "after")
  /\ UNCHANGED <<up, gone, relay, answer, row, holds, timer, stop, abandoned>>

\* decide returns None ("gone"): a deny, labelled expired.
FinishGone(d) ==
  /\ up /\ step[d] = "missed"
  /\ Settle(req[d], "deny", "expired")
  /\ Return(d)
  /\ UNCHANGED <<up, gone, relay, answer, row, holds, timer, stop, abandoned>>

\* A forever entry is persisted and the rules view refreshed; failures of
\* either are swallowed.
AfterVerdict(d) ==
  /\ up /\ step[d] = "after"
  /\ Return(d)
  /\ UNCHANGED <<up, gone, relay, answer, row, hold, stop, abandoned>>

\* Fault: no rescue, the cancellation escapes with the hold popped.
CancelDecider_escapes(d) ==
  /\ "decider" \in Faults
  /\ up /\ step[d] # "idle"
  /\ Return(d)
  /\ UNCHANGED <<up, gone, relay, answer, row, hold, stop, abandoned>>

\* The first or only cancellation of the task: resolve's except arm.
CancelDecider(d) ==
  /\ "decider" \in Faults
  /\ up
  /\ step[d] \in {"reap", "decide", "decided", "missed", "after",
                     "strand1", "strand2"}
  /\ FailClosePopped(req[d])
  /\ Goto(d, "rescue1")
  /\ UNCHANGED <<up, gone, relay, answer, row, holds, timer, stop, abandoned>>

\* _expire_stranded in resolve, from the error arm or from the rescue.
DeciderExpires(d) ==
  /\ up
  /\ step[d] \in {"strand1", "strand2", "rescue1", "rescue2"}
  /\ ExpirePending(req[d])
  /\ Return(d)
  /\ UNCHANGED <<up, gone, relay, answer, hold, stop, abandoned>>

DeciderExpireFails(d) ==
  /\ "db" \in Faults
  /\ up
  /\ \/ /\ step[d] \in {"strand1", "rescue1"}
        /\ Goto(d, IF step[d] = "strand1" THEN "strand2" ELSE "rescue2")
        /\ UNCHANGED abandoned
     \/ /\ step[d] \in {"strand2", "rescue2"}
        /\ GiveUp(req[d])
        /\ Return(d)
  /\ UNCHANGED <<up, gone, relay, answer, row, hold, stop>>

-----------------------------------------------------------------------------
(* ConsentCoordinator.stop.                                                *)

\* stop() is done with an id.
StopVisited ==
  /\ stopAt' = "scan"
  /\ stopReq' = NoRequest
  /\ UNCHANGED stopTodo

StopBegins ==
  /\ up /\ stopAt = "no"
  /\ \/ "busystop" \in Faults
     \/ /\ \A r \in Relays : relay[r] \notin InFlight
        /\ \A d \in Deciders : step[d] = "idle"
  /\ stopAt' = "scan"
  /\ stopTodo' = holds
  /\ UNCHANGED stopReq
  /\ UNCHANGED <<up, gone, relay, answer, row, hold, call, abandoned>>

\* Fault: an id that is no longer held is not taken off the list.
StopNext_stuck(r) ==
  /\ up /\ stopAt = "scan" /\ r \in stopTodo
  /\ r \in holds
  /\ stopTodo' = stopTodo \ {r}
  /\ CancelTimer(r) /\ stopAt' = "reap" /\ stopReq' = r
  /\ UNCHANGED <<up, gone, relay, answer, row, holds, fut, told, call,
                 abandoned>>

\* The next id of the snapshot: cancel its timeout task if it is still held.
StopNext(r) ==
  /\ up /\ stopAt = "scan" /\ r \in stopTodo
  /\ stopTodo' = stopTodo \ {r}
  /\ IF r \in holds
     THEN CancelTimer(r) /\ stopAt' = "reap" /\ stopReq' = r
     ELSE UNCHANGED <<timer, stopAt, stopReq>>
  /\ UNCHANGED <<up, gone, relay, answer, row, holds, fut, told, call,
                 abandoned>>

\* The timeout task has ended: _fail_close pops the hold, if nobody has.
StopReaped ==
  /\ up /\ stopAt = "reap"
  /\ timer[stopReq] = "done"
  /\ holds' = holds \ {stopReq}
  /\ IF stopReq \in holds
     THEN stopAt' = "expire1" /\ UNCHANGED <<stopTodo, stopReq>>
     ELSE StopVisited
  /\ UNCHANGED <<up, gone, relay, answer, row, fut, timer, told, call,
                 abandoned>>

StopExpires ==
  /\ up /\ stopAt \in {"expire1", "expire2"}
  /\ ExpirePending(stopReq)
  /\ Settle(stopReq, "deny", "expired")
  /\ StopVisited
  /\ UNCHANGED <<up, gone, relay, answer, holds, timer, call, abandoned>>

StopExpireFails ==
  /\ "db" \in Faults
  /\ up
  /\ \/ /\ stopAt = "expire1"
        /\ stopAt' = "expire2"
        /\ UNCHANGED <<fut, told, stopTodo, stopReq, abandoned>>
     \/ /\ stopAt = "expire2"
        /\ GiveUp(stopReq)
        /\ Settle(stopReq, "deny", "expired")
        /\ StopVisited
  /\ UNCHANGED <<up, gone, relay, answer, row, holds, timer, call>>

StopEnds ==
  /\ up /\ stopAt = "scan" /\ stopTodo = {}
  /\ stopAt' = "done"
  /\ UNCHANGED <<up, gone, relay, answer, row, hold, call, stopTodo, stopReq,
                 abandoned>>

-----------------------------------------------------------------------------
(* The process, and the workspaces it serves.                              *)

\* The process exits after stop(), or dies: everything in memory is lost.
Exit ==
  /\ up
  /\ stopAt = "done" \/ "crash" \in Faults
  /\ up' = FALSE
  /\ relay' = [r \in Relays |->
                IF relay[r] \in InFlight THEN "cancelled" ELSE relay[r]]
  /\ holds' = {}
  /\ fut' = [r \in Relays |-> IF fut[r] = "pending" THEN "lost" ELSE fut[r]]
  /\ timer' = [r \in Relays |-> "none"]
  /\ step' = [d \in Deciders |-> "idle"]
  /\ req' = [d \in Deciders |-> NoRequest]
  /\ say' = [d \in Deciders |-> "deny"]
  /\ stopAt' = "no"
  /\ stopTodo' = {}
  /\ stopReq' = NoRequest
  /\ UNCHANGED <<gone, answer, row, told, abandoned>>

\* Fault: no startup reaper.
Restart_noreap ==
  /\ ~up
  /\ up' = TRUE
  /\ UNCHANGED <<gone, relay, answer, row, hold, call, stop, abandoned>>

\* lifespan startup: expire_all_pending before anyone can connect.
Restart ==
  /\ ~up
  /\ up' = TRUE
  /\ row' = [r \in Relays |-> IF row[r] = "pending" THEN "expired" ELSE row[r]]
  /\ abandoned' = {}
  /\ UNCHANGED <<gone, relay, answer, hold, call, stop>>

\* Deleting a workspace cascades to its egress_consent rows.
DeleteWorkspace(w) ==
  /\ "delete" \in Faults
  /\ up /\ w \notin gone
  /\ gone' = gone \cup {w}
  /\ row' = [r \in Relays |->
              IF WorkspaceOf[r] = w /\ row[r] # "none" THEN "deleted"
                                                       ELSE row[r]]
  /\ abandoned' = {r \in abandoned : WorkspaceOf[r] # w}
  /\ UNCHANGED <<up, relay, answer, hold, call, stop>>

-----------------------------------------------------------------------------
(* Next-state relation, by task.                                           *)

RelayStep(r) ==
  \/ \E v \in Verdict : GateAnswers(r, v)
  \/ GateInteractive(r)
  \/ CountPending(r)
  \/ CreateRequest(r)
  \/ HoldFails(r)
  \/ RegisterHold(r)
  \/ RelayVerdict(r)

TimerStep(r) ==
  \/ TimerWakes(r)
  \/ TimerCancelled(r)
  \/ TimerExpires(r)
  \/ TimerExpireFails(r)

ResolveStep(d) ==
  \/ Reaped(d)
  \/ Decide(d)
  \/ DecideFails(d)
  \/ FinishResolve(d)
  \/ FinishGone(d)
  \/ AfterVerdict(d)
  \/ DeciderExpires(d)
  \/ DeciderExpireFails(d)

StopStep ==
  \/ \E r \in Relays : StopNext(r)
  \/ StopReaped
  \/ StopExpires
  \/ StopExpireFails
  \/ StopEnds

Next ==
  \/ \E r \in Relays : EgressFrame(r) \/ RelayStep(r) \/ CancelRelay(r)
  \/ \E r \in Relays : TimerStep(r)
  \/ \E d \in Deciders, r \in Relays, v \in Verdict : Resolve(d, r, v)
  \/ \E d \in Deciders : ResolveStep(d) \/ CancelDecider(d)
  \/ StopBegins
  \/ StopStep
  \/ Exit
  \/ Restart
  \/ \E w \in Workspaces : DeleteWorkspace(w)

Spec == Init /\ [][Next]_vars

\* The event loop runs every ready task, a sleep ends, and a database call
\* returns or raises; a stopped process exits.  Nothing makes a frame arrive,
\* a decider decide, or the process stop, die or start.
Fairness ==
  /\ \A r \in Relays : WF_vars(RelayStep(r)) /\ WF_vars(TimerStep(r))
  /\ \A d \in Deciders : WF_vars(ResolveStep(d))
  /\ WF_vars(StopStep)
  /\ WF_vars(stopAt = "done" /\ Exit)

FairSpec == Spec /\ Fairness

-----------------------------------------------------------------------------
(* Properties.                                                             *)

\* Every variable has its type.
TypeOK ==
  /\ up \in BOOLEAN
  /\ gone \subseteq Workspaces
  /\ relay \in [Relays -> RelayState]
  /\ answer \in [Relays -> Verdict \cup {"none"}]
  /\ row \in [Relays -> {"none", "pending", "deleted"} \cup Label]
  /\ holds \subseteq Relays
  /\ fut \in [Relays -> Verdict \cup {"none", "pending", "lost"}]
  /\ timer \in [Relays -> TimerState]
  /\ told \in [Relays -> Seq(Label)]
  /\ step \in [Deciders -> CallState]
  /\ req \in [Deciders -> Relays \cup {NoRequest}]
  /\ say \in [Deciders -> Verdict]
  /\ stopAt \in StopState
  /\ stopTodo \subseteq Relays
  /\ stopReq \in Relays \cup {NoRequest}
  /\ abandoned \subseteq Relays

\* The tasks that have popped hold r and have yet to set its Future.
DeciderOwns(d, r) ==
  req[d] = r /\ step[d] \in {"reap", "decide", "decided", "missed"}
TimerOwns(r) == timer[r] \in {"expire1", "expire2"}
StopOwns(r) == stopReq = r /\ stopAt \in {"expire1", "expire2"}

\* A hold in _holds is unanswered and still has its timeout: the timer is
\* asleep, or stop() has cancelled it and is about to fail-close the hold.
HeldWillExpire ==
  \A r \in holds :
    /\ fut[r] = "pending"
    /\ \/ timer[r] = "sleeping"
       \/ stopAt = "reap" /\ stopReq = r

\* A hold popped from _holds with its Future unset is in the hands of exactly
\* one task, so a verdict, a timeout and a shutdown never both answer it and
\* never all drop it.
PoppedHasOneOwner ==
  \A r \in Relays :
    fut[r] = "pending" /\ r \notin holds =>
      /\ TimerOwns(r) \/ StopOwns(r) \/ \E d \in Deciders : DeciderOwns(d, r)
      /\ ~(TimerOwns(r) /\ StopOwns(r))
      /\ \A d \in Deciders :
           DeciderOwns(d, r) =>
             /\ ~TimerOwns(r) /\ ~StopOwns(r)
             /\ \A e \in Deciders : DeciderOwns(e, r) => e = d

\* An allow out of a hold was first recorded: the Future is allow only when
\* the row says allowed (or went with its workspace).
AllowIsRecorded ==
  \A r \in Relays : fut[r] = "allow" => row[r] \in {"allowed", "deleted"}

\* The deciders are told once, and what they are told is the verdict: one
\* egress_resolved frame per hold, allowed exactly when the relay gets allow.
ToldOnce ==
  \A r \in Relays :
    told[r] \in CASE fut[r] = "allow" -> {<<"allowed">>}
                  [] fut[r] = "deny" -> {<<"denied">>, <<"expired">>}
                  [] OTHER -> {<<>>}

\* Two live prompts are never about the same destination of a workspace.
OnePromptPerDest ==
  \A r, s \in holds :
    r # s /\ SameDest(r, s) => WorkspaceOf[r] \in gone

\* A pending row is about to become a hold, is held, is being worked on by
\* the task that popped it, or is one whose expiry was given up; a dead
\* process leaves the rest to the startup reaper.
PendingIsAccountedFor ==
  \A r \in Relays :
    up /\ row[r] = "pending" =>
      \/ relay[r] = "created"
      \/ r \in holds
      \/ TimerOwns(r)
      \/ StopOwns(r)
      \/ \E d \in Deciders : req[d] = r
      \/ r \in abandoned

\* The coordinator keeps its promise about every request: recorded before it
\* is held, answered once, granted only on a recorded allow, first decision
\* wins.
Promise == INSTANCE ConsentPromise WITH
             Requests <- Relays, reply <- fut, record <- row
ImplementsPromise == Promise!Spec

\* No hold is ever left pending forever.
HoldIsAnswered ==
  \A r \in Relays : fut[r] = "pending" ~> fut[r] # "pending"

\* A relay never hangs: it answers its sidecar or is cancelled.
RelayEnds ==
  \A r \in Relays : relay[r] \in InFlight ~> relay[r] \notin InFlight

\* stop() terminates.
StopReturns == stopAt = "scan" ~> stopAt \in {"done", "no"}

\* A request does not stay pending: it is decided or expired, or the process
\* ends and leaves it to the startup reaper.
PendingEnds ==
  \A r \in Relays : row[r] = "pending" ~> row[r] # "pending" \/ ~up

-----------------------------------------------------------------------------
(* The inductive invariant behind the safety properties.                   *)

\* A relay that has not registered a hold has no trace in the coordinator.
FreshIsUntouched ==
  \A r \in Relays :
    relay[r] \in {"idle", "gate", "count", "create", "created"} =>
      /\ fut[r] = "none" /\ timer[r] = "none" /\ r \notin holds
      /\ stopReq # r
      /\ \A d \in Deciders : req[d] # r
      /\ row[r] \in IF relay[r] = "created" THEN {"pending", "deleted"}
                                            ELSE {"none"}

\* A held request is unanswered, undecided and nobody's but its timer's or
\* stop()'s.
HeldIsUntouched ==
  \A r \in holds :
    /\ fut[r] = "pending" /\ row[r] \in {"pending", "deleted"}
    /\ \A d \in Deciders : req[d] # r
    /\ ~StopOwns(r)
    /\ \/ timer[r] = "sleeping"
       \/ stopAt = "reap" /\ stopReq = r /\ timer[r] \in {"cancelling", "done"}

\* A sleeping timer has its hold; an expiring one has the hold to itself.
TimerIsAlone ==
  \A r \in Relays :
    /\ timer[r] = "sleeping" => r \in holds
    /\ TimerOwns(r) =>
         /\ fut[r] = "pending" /\ r \notin holds /\ stopReq # r
         /\ \A d \in Deciders : req[d] # r

\* A resolve() in progress has its request to itself, and knows its row.
CallAlone(d) ==
  /\ step[d] = "idle" => req[d] = NoRequest
  /\ step[d] # "idle" =>
       /\ req[d] \in Relays /\ req[d] \notin holds
       /\ timer[req[d]] \in {"cancelling", "done"}
       /\ ~StopOwns(req[d])
       /\ \A e \in Deciders : e # d => req[e] # req[d]
  /\ step[d] \in {"reap", "decide", "decided", "missed"} =>
       fut[req[d]] = "pending"
  /\ step[d] \in {"after", "strand1", "strand2", "rescue1", "rescue2"} =>
       fut[req[d]] \in Verdict
  /\ step[d] = "decided" => row[req[d]] \in {Recorded(say[d]), "deleted"}
  /\ step[d] \in {"missed", "after"} => row[req[d]] # "pending"

CallIsAlone == \A d \in Deciders : CallAlone(d)

\* stop() waits only for a timer it has cancelled, and expires only a hold it
\* has popped.
StopIsAlone ==
  /\ stopAt = "reap" =>
       stopReq \in Relays /\ timer[stopReq] \in {"cancelling", "done"}
  /\ stopAt \in {"expire1", "expire2"} =>
       /\ stopReq \in Relays /\ stopReq \notin holds
       /\ timer[stopReq] = "done" /\ fut[stopReq] = "pending"
  /\ stopAt \in {"no", "scan", "done"} => stopReq = NoRequest

PoppedHasOwner ==
  \A r \in Relays :
    fut[r] = "pending" /\ r \notin holds =>
      TimerOwns(r) \/ StopOwns(r) \/ \E d \in Deciders : DeciderOwns(d, r)

RowsAreUnique ==
  /\ \A r, s \in Relays :
       row[r] = "pending" /\ row[s] = "pending" /\ SameDest(r, s) => r = s
  /\ \A r \in Relays : row[r] = "deleted" => WorkspaceOf[r] \in gone

\* A dead process has no tasks.
DownIsEmpty ==
  ~up =>
    /\ holds = {}
    /\ \A r \in Relays : relay[r] \notin InFlight /\ timer[r] = "none"

IInv ==
  /\ TypeOK
  /\ FreshIsUntouched
  /\ HeldIsUntouched
  /\ TimerIsAlone
  /\ CallIsAlone
  /\ StopIsAlone
  /\ PoppedHasOwner
  /\ RowsAreUnique
  /\ DownIsEmpty
  /\ AllowIsRecorded
  /\ ToldOnce
  /\ PendingIsAccountedFor
=============================================================================
