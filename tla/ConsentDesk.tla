----------------------------- MODULE ConsentDesk -----------------------------
(***************************************************************************)
(* Who is asked about a held connection, and who is not: the gates in      *)
(* front of a hold (ConsentCoordinator.hold), the egress mode and the      *)
(* pause of the workspace, the registry of live deciders with its leases   *)
(* and its reaper (ConsentDeciderRegistry), the decider's socket with its  *)
(* bounded send queue (handle_consent_decider, SafeWebSocket), and the     *)
(* list of prompts the client keeps (ConsentDeciderService).               *)
(*                                                                         *)
(* All requests are for one destination of one workspace.  What happens    *)
(* inside a hold is the subject of ConsentHold.                            *)
(***************************************************************************)
EXTENDS Naturals, Sequences, FiniteSets, Functions

CONSTANTS
  Reqs,       \* blocked connections that reach hold()
  Deciders,   \* connections of decider clients
  QueueSize,  \* SEND_QUEUE_SIZE
  Pasts,      \* the destination's verdicts at the start, oldest first
  Scenarios   \* who takes part in a behaviour and what may happen in it

Modes == {"static", "allow", "interactive"}
Verdicts == {"allowed", "denied"}
\* once is over at once; timed runs out; lasting stays.
Lasts == {"over", "timed", "lasting"}

\* Changes of mode, the pause, verdicts that last, clients that fail.
Events == {"modes", "pause", "lasting", "clients"}

ASSUME DeskAssumption ==
  /\ QueueSize \in Nat \ {0}
  /\ Pasts \subseteq Seq([said : Verdicts, lasts : Lasts])
  /\ Scenarios \subseteq [events : SUBSET Events, reqs : SUBSET Reqs,
                         deciders : SUBSET Deciders]

VARIABLES
  may,      \* the scenario of this behaviour
  mode,     \* workspaces.egress_mode
  pause,    \* consent_paused_until lies ahead
  since,    \* history: the pause was stored after the last change of mode
  past,     \* the destination's verdicts, in the order of decided_at
  req,      \* request -> [step, ans]
  client,   \* decider -> its client: "off", "on", "silent"
  srv,      \* decider -> where its handler is
  held,     \* decider -> what its handler works on
  reg,      \* the deciders in the registry
  fresh,    \* those pinged within the timeout
  queue,    \* decider -> frames on their way to the client
  shows,    \* decider -> prompts the client shows
  lost      \* history: deciders whose lease ran out while registered

wsVars == <<may, mode, pause, since>>
deskVars == <<client, srv, held, reg, fresh, queue, shows, lost>>
vars == <<wsVars, past, req, deskVars>>

Steps == {"idle", "allow", "paused", "static", "create", "created", "held",
          "settle", "expire", "stranded", "done"}
Answers == {"none", "allowed", "denied"}
Nothing == [what |-> "nothing", of |-> {}]

-----------------------------------------------------------------------------
\* has_decider and broadcast go to registered deciders with a live lease.
Live == reg \cap fresh

\* SafeWebSocket.send_json raises once the queue is full.
Full(d) == Len(queue[d]) >= QueueSize

\* A mutation: only deciders that have had their replay.
BroadcastLate(f) ==
  LET to == {d \in Live : srv[d] \notin {"registered", "replay"}} IN
  /\ queue' = [d \in Deciders |->
       IF d \in to /\ ~Full(d) THEN Append(queue[d], f) ELSE queue[d]]
  /\ reg' = reg \ {d \in to : Full(d)}

\* broadcast: a decider whose queue is full is dropped from the registry; its
\* socket and its handler stay.
Broadcast(f) ==
  /\ queue' = [d \in Deciders |->
       IF d \in Live /\ ~Full(d) THEN Append(queue[d], f) ELSE queue[d]]
  /\ reg' = reg \ {d \in Live : Full(d)}

Frame(type, r) == [type |-> type, req |-> r]

Pending(r) == req[r].step \in {"created", "held", "settle", "expire", "stranded"}

\* active_verdict_for: the newest verdict whose duration has not run out.
InEffect(i) == past[i].lasts # "over"

\* A mutation: the newest verdict, if its duration has not run out.
NewestVerdict ==
  IF past = <<>> \/ ~InEffect(Len(past)) THEN "none" ELSE past[Len(past)].said

ActiveVerdict ==
  LET on == {i \in DOMAIN past : InEffect(i)} IN
  IF on = {} THEN "none"
  ELSE past[CHOOSE i \in on : \A j \in on : j <= i].said

Goto(r, step) == req' = [req EXCEPT ![r] = [step |-> step, ans |-> req[r].ans]]
Answer(r, ans) == req' = [req EXCEPT ![r] = [step |-> "done", ans |-> ans]]

Init ==
  /\ may \in Scenarios
  /\ mode \in IF "modes" \in may.events THEN Modes ELSE {"interactive"}
  /\ pause = FALSE
  /\ since = FALSE
  /\ past \in IF "lasting" \in may.events THEN Pasts ELSE {<<>>}
  /\ req = [r \in Reqs |-> [step |-> "idle", ans |-> "none"]]
  /\ client = [d \in Deciders |-> "off"]
  /\ srv = [d \in Deciders |-> "none"]
  /\ held = [d \in Deciders |-> Nothing]
  /\ reg = {}
  /\ fresh = {}
  /\ queue = [d \in Deciders |-> <<>>]
  /\ shows = [d \in Deciders |-> {}]
  /\ lost = {}

-----------------------------------------------------------------------------
(* The gates.                                                              *)

IsPaused == mode = "interactive" /\ pause
IsInteractive == mode = "interactive" /\ Live # {}

\* One read of the workspace decides which gate answers.
Hold(r) ==
  /\ r \in may.reqs
  /\ req[r].step = "idle"
  /\ Goto(r, IF mode = "allow" THEN "allow"
             ELSE IF IsPaused THEN "paused"
             ELSE IF IsInteractive THEN "create" ELSE "static")
  /\ UNCHANGED <<wsVars, past, deskVars>>

AllowModeVerdict(r) ==
  /\ req[r].step = "allow"
  /\ Answer(r, "allowed")
  /\ UNCHANGED <<wsVars, past, deskVars>>

StaticDenialVerdict(r) ==
  /\ req[r].step = "static"
  /\ Answer(r, "denied")
  /\ UNCHANGED <<wsVars, past, deskVars>>

PausedVerdict(r) ==
  /\ req[r].step = "paused"
  /\ Answer(r, IF ActiveVerdict = "denied" THEN "denied" ELSE "allowed")
  /\ UNCHANGED <<wsVars, past, deskVars>>

\* create_request; one pending row per destination.
HoldCreates(r) ==
  /\ req[r].step = "create"
  /\ IF \E p \in Reqs : Pending(p) THEN Answer(r, "denied") ELSE Goto(r, "created")
  /\ UNCHANGED <<wsVars, past, deskVars>>

\* The cap on pending rows is reached, or the database fails.
HoldRefused(r) ==
  /\ req[r].step = "create"
  /\ Answer(r, "denied")
  /\ UNCHANGED <<wsVars, past, deskVars>>

\* _register_hold and _fanout.
RegisterHold(r) ==
  /\ req[r].step = "created"
  /\ Goto(r, "held")
  /\ Broadcast(Frame("request", r))
  /\ UNCHANGED <<wsVars, past, client, srv, held, fresh, shows, lost>>

\* _timeout pops the hold, _fail_close expires the row and answers.
TimesOut(r) ==
  /\ req[r].step = "held"
  /\ Goto(r, "expire")
  /\ UNCHANGED <<wsVars, past, deskVars>>

\* A mutation: the answer names the row's state.
FailCloseExpired(r) ==
  /\ req[r].step = "expire"
  /\ Answer(r, "expired")
  /\ Broadcast(Frame("resolved", r))
  /\ UNCHANGED <<wsVars, past, client, srv, held, fresh, shows, lost>>

FailClose(r) ==
  /\ req[r].step = "expire"
  /\ Answer(r, "denied")
  /\ Broadcast(Frame("resolved", r))
  /\ UNCHANGED <<wsVars, past, client, srv, held, fresh, shows, lost>>

-----------------------------------------------------------------------------
(* The decider's socket: handshake, registration, replay, frames.          *)

\* The handshake checks the token, the permission and the mode.
Handshake(d) ==
  /\ d \in may.deciders
  /\ srv[d] = "none" /\ client[d] = "off"
  /\ mode = "interactive"
  /\ srv' = [srv EXCEPT ![d] = "checked"]
  /\ UNCHANGED <<wsVars, past, req, client, held, reg, fresh, queue, shows, lost>>

\* accept and register.  The client starts with an empty list.
Register(d) ==
  /\ srv[d] = "checked"
  /\ srv' = [srv EXCEPT ![d] = "registered"]
  /\ client' = [client EXCEPT ![d] = "on"]
  /\ reg' = reg \cup {d}
  /\ fresh' = fresh \cup {d}
  /\ shows' = [shows EXCEPT ![d] = {}]
  /\ UNCHANGED <<wsVars, past, req, held, queue, lost>>

\* snapshot: the pending rows are read ...
ReplayReads(d) ==
  /\ srv[d] = "registered"
  /\ srv' = [srv EXCEPT ![d] = "replay"]
  /\ held' = [held EXCEPT ![d] = [what |-> "rows", of |-> {r \in Reqs : Pending(r)}]]
  /\ UNCHANGED <<wsVars, past, req, client, reg, fresh, queue, shows, lost>>

\* The handler is done: deregister, stop_sender.
Finish(d) ==
  /\ srv' = [srv EXCEPT ![d] = "none"]
  /\ held' = [held EXCEPT ![d] = Nothing]
  /\ client' = [client EXCEPT ![d] = "off"]
  /\ reg' = reg \ {d}
  /\ fresh' = fresh \ {d}
  /\ queue' = [queue EXCEPT ![d] = <<>>]
  /\ shows' = [shows EXCEPT ![d] = {}]
  /\ lost' = lost \ {d}

\* A mutation: without the look at the holds.
ReplayedAll(d) == held[d].of

\* ... and those that are held still are sent.
Replayed(d) == {r \in held[d].of : req[r].step = "held"}

\* The frames of a replay that fits the queue, one for each row, in any order.
Replay(d) == {Frame("request", r) : r \in Replayed(d)}

ReplayFrames(d) ==
  {frames \in UNION {[1 .. n -> Replay(d)] : n \in 0 .. QueueSize} :
     Len(frames) = Cardinality(Replay(d)) /\ Range(frames) = Replay(d)}

ReplaySends(d) ==
  /\ srv[d] = "replay"
  /\ LET fits == Len(queue[d]) + Cardinality(Replay(d)) <= QueueSize IN
       \/ ~fits /\ Finish(d)
       \/ /\ fits
          /\ srv' = [srv EXCEPT ![d] = "loop"]
          /\ held' = [held EXCEPT ![d] = Nothing]
          /\ \E frames \in ReplayFrames(d) : queue' = [queue EXCEPT ![d] = @ \o frames]
          /\ UNCHANGED <<client, reg, fresh, shows, lost>>
  /\ UNCHANGED <<wsVars, past, req>>

\* A frame of a client that is there, taken by a handler that waits for one.
Receives(d) == client[d] = "on" /\ srv[d] = "loop"

\* ping: touch is a no-op for a decider no longer registered; the pong may
\* find the queue full, and ends the handler then.
Ping(d) ==
  /\ Receives(d)
  /\ \/ Full(d) /\ Finish(d)
     \/ /\ ~Full(d)
        /\ fresh' = IF d \in reg THEN fresh \cup {d} ELSE fresh
        /\ UNCHANGED <<client, srv, held, reg, queue, shows, lost>>
  /\ UNCHANGED <<wsVars, past, req>>

\* verdict: resolve pops the hold.  A request no longer held is ignored.
Verdict(d, r, v, t) ==
  /\ Receives(d)
  /\ r \in shows[d]
  /\ req[r].step = "held"
  /\ Goto(r, "settle")
  /\ srv' = [srv EXCEPT ![d] = "resolve"]
  /\ held' = [held EXCEPT ![d] = [what |-> "verdict", of |-> {r}, said |-> v, lasts |-> t]]
  /\ UNCHANGED <<wsVars, past, client, reg, fresh, queue, shows, lost>>

\* decide commits, and the answer is given.
Resolve(d, r) ==
  /\ srv[d] = "resolve" /\ r \in held[d].of
  /\ past' = Append(past, [said |-> held[d].said, lasts |-> held[d].lasts])
  /\ Answer(r, held[d].said)
  /\ Broadcast(Frame("resolved", r))
  /\ srv' = [srv EXCEPT ![d] = "loop"]
  /\ held' = [held EXCEPT ![d] = Nothing]
  /\ UNCHANGED <<wsVars, client, fresh, shows, lost>>

\* decide fails: a denial, and then the row is expired.
ResolveFails(d, r) ==
  /\ srv[d] = "resolve" /\ r \in held[d].of
  /\ req' = [req EXCEPT ![r] = [step |-> "stranded", ans |-> "denied"]]
  /\ Broadcast(Frame("resolved", r))
  /\ srv' = [srv EXCEPT ![d] = "loop"]
  /\ held' = [held EXCEPT ![d] = Nothing]
  /\ UNCHANGED <<wsVars, past, client, fresh, shows, lost>>

ExpireStranded(r) ==
  /\ req[r].step = "stranded"
  /\ Goto(r, "done")
  /\ UNCHANGED <<wsVars, past, deskVars>>

\* pause looks at the mode ...
PauseChecks(d) ==
  /\ "pause" \in may.events
  /\ Receives(d)
  /\ mode = "interactive"
  /\ srv' = [srv EXCEPT ![d] = "pause"]
  /\ UNCHANGED <<wsVars, past, req, client, held, reg, fresh, queue, shows, lost>>

\* ... and stores the window.
PauseStores(d) ==
  /\ srv[d] = "pause"
  /\ pause' = TRUE
  /\ since' = TRUE
  /\ srv' = [srv EXCEPT ![d] = "loop"]
  /\ UNCHANGED <<may, mode, past, req, client, held, reg, fresh, queue, shows, lost>>

Unpause(d) ==
  /\ Receives(d)
  /\ pause
  /\ pause' = FALSE
  /\ UNCHANGED <<may, mode, since, past, req, deskVars>>

\* The client applies a frame to its list.
ClientApplies(d) ==
  /\ client[d] = "on" /\ queue[d] # <<>>
  /\ LET f == Head(queue[d]) IN
       shows' = [shows EXCEPT ![d] =
         IF f.type = "request" THEN @ \cup {f.req} ELSE @ \ {f.req}]
  /\ queue' = [queue EXCEPT ![d] = Tail(@)]
  /\ UNCHANGED <<wsVars, past, req, client, srv, held, reg, fresh, lost>>

-----------------------------------------------------------------------------
(* What happens to a client, and the registry's reaper.                    *)

\* A suspended machine or a throttled tab: no pings, nothing read.
Suspends(d) ==
  /\ "clients" \in may.events
  /\ client[d] = "on"
  /\ client' = [client EXCEPT ![d] = "silent"]
  /\ UNCHANGED <<wsVars, past, req, srv, held, reg, fresh, queue, shows, lost>>

Wakes(d) ==
  /\ client[d] = "silent"
  /\ client' = [client EXCEPT ![d] = "on"]
  /\ UNCHANGED <<wsVars, past, req, srv, held, reg, fresh, queue, shows, lost>>

\* The client is gone; the server may not notice.
Breaks(d) ==
  /\ "clients" \in may.events
  /\ client[d] # "off"
  /\ client' = [client EXCEPT ![d] = "off"]
  /\ UNCHANGED <<wsVars, past, req, srv, held, reg, fresh, queue, shows, lost>>

\* The receive loop sees the disconnect.
Disconnected(d) ==
  /\ client[d] = "off"
  /\ srv[d] \in {"registered", "replay", "loop"}
  /\ Finish(d)
  /\ UNCHANGED <<wsVars, past, req>>

\* The last ping is longer ago than the timeout.
LeaseLapses(d) ==
  /\ d \in Live
  /\ "clients" \in may.events
  /\ client[d] # "on" \/ srv[d] # "loop"
  /\ fresh' = fresh \ {d}
  /\ lost' = lost \cup {d}
  /\ UNCHANGED <<wsVars, past, req, client, srv, held, reg, queue, shows>>

\* A mutation: the reaper looks at live deciders only.
ReapLive(d) ==
  /\ d \in Live \ fresh
  /\ reg' = reg \ {d}
  /\ UNCHANGED <<wsVars, past, req, client, srv, held, fresh, queue, shows, lost>>

\* _reap_loop drops the registration.  The socket stays open.
Reap(d) ==
  /\ d \in reg \ fresh
  /\ reg' = reg \ {d}
  /\ UNCHANGED <<wsVars, past, req, client, srv, held, fresh, queue, shows, lost>>

\* _close_and_drop: the token is revoked or the account disabled.
Kick(d) ==
  /\ "clients" \in may.events
  /\ d \in reg
  /\ reg' = reg \ {d}
  /\ client' = [client EXCEPT ![d] = "off"]
  /\ UNCHANGED <<wsVars, past, req, srv, held, fresh, queue, shows, lost>>

-----------------------------------------------------------------------------
(* The workspace and the clock.                                            *)

\* A mutation: the pause ends only with interactive mode.
PauseAfterLeaving(m) == pause /\ ~(mode = "interactive" /\ m # mode)

\* update_workspace: a real change of mode ends the pause, an echo does not.
PauseAfterSwitch(m) == pause /\ m = mode

SwitchMode(m) ==
  /\ "modes" \in may.events
  /\ mode' = m
  /\ pause' = PauseAfterSwitch(m)
  /\ since' = (since /\ m = mode)
  /\ UNCHANGED <<may, past, req, deskVars>>

PauseLapses ==
  /\ pause
  /\ pause' = FALSE
  /\ UNCHANGED <<may, mode, since, past, req, deskVars>>

VerdictLapses(i) ==
  /\ past[i].lasts = "timed"
  /\ past' = [past EXCEPT ![i].lasts = "over"]
  /\ UNCHANGED <<wsVars, req, deskVars>>

-----------------------------------------------------------------------------
Chosen == IF "lasting" \in may.events THEN {"timed", "lasting"} ELSE {"over"}

ReqStep(r) ==
  \/ Hold(r) \/ AllowModeVerdict(r) \/ StaticDenialVerdict(r)
  \/ PausedVerdict(r) \/ HoldCreates(r) \/ HoldRefused(r)
  \/ RegisterHold(r) \/ TimesOut(r) \/ FailClose(r) \/ ExpireStranded(r)

DeciderStep(d) ==
  \/ Handshake(d) \/ Register(d) \/ ReplayReads(d) \/ ReplaySends(d)
  \/ Ping(d) \/ PauseChecks(d) \/ PauseStores(d) \/ Unpause(d)
  \/ \E r \in Reqs, v \in Verdicts, t \in Chosen : Verdict(d, r, v, t)
  \/ \E r \in Reqs : Resolve(d, r) \/ ResolveFails(d, r)
  \/ ClientApplies(d) \/ Suspends(d) \/ Wakes(d) \/ Breaks(d)
  \/ Disconnected(d) \/ LeaseLapses(d) \/ Reap(d) \/ Kick(d)

Next ==
  \/ \E r \in Reqs : ReqStep(r)
  \/ \E d \in Deciders : DeciderStep(d)
  \/ \E m \in Modes : SwitchMode(m)
  \/ PauseLapses
  \/ \E i \in DOMAIN past : VerdictLapses(i)

Spec == Init /\ [][Next]_vars

-----------------------------------------------------------------------------
(* Properties.                                                             *)

\* Every variable has its type and no queue outgrows SEND_QUEUE_SIZE.
TypeOK ==
  /\ may \in Scenarios
  /\ mode \in Modes
  /\ pause \in BOOLEAN /\ since \in BOOLEAN
  /\ past \in Seq([said : Verdicts, lasts : Lasts])
  /\ req \in [Reqs -> [step : Steps, ans : Answers]]
  /\ client \in [Deciders -> {"off", "on", "silent"}]
  /\ srv \in [Deciders -> {"none", "checked", "registered", "replay", "loop",
                           "resolve", "pause"}]
  /\ \A d \in Deciders : held[d].of \subseteq Reqs
  /\ reg \subseteq Deciders /\ fresh \subseteq Deciders /\ lost \subseteq Deciders
  /\ \A d \in Deciders : /\ Len(queue[d]) <= QueueSize
                         /\ \A i \in DOMAIN queue[d] : queue[d][i].req \in Reqs
  /\ shows \in [Deciders -> SUBSET Reqs]

\* handle_consent_decider: "Tolerate the duplicate to never miss".  However a
\* hold and a connect interleave, a decider that is registered, has had its
\* replay and never let its lease run out shows every held request, or the
\* frame that will make it do so is on its way.
HeldIsShown ==
  \A d \in reg \ lost, r \in Reqs :
    (srv[d] \notin {"registered", "replay"} /\ req[r].step = "held") =>
      r \in shows[d] \/ \E i \in DOMAIN queue[d] : queue[d][i] = Frame("request", r)

\* snapshot: a request already popped "must not be replayed", it "then lingers
\* with no further resolve to clear it".  A client that has read all its
\* frames shows no request that is over.
NoGhost ==
  \A d \in reg \ lost :
    (srv[d] \notin {"registered", "replay"} /\ queue[d] = <<>>) =>
      \A r \in shows[d] : req[r].step \in {"held", "settle", "expire"}

\* _ws_is_paused, _mode_switch_pause_clear: "a mode switch must not leave a
\* stale window behind".  Whenever the pause is honoured it was stored after
\* the last change of mode, also when a pause that had checked the mode was
\* stored only after a switch.
PauseIsOfThisEpoch == IsPaused => since

\* active_verdict_for: "the pause must keep blocking a host the user previously
\* denied": while paused, a request goes through only if no denial is in effect,
\* or a later verdict in effect allows it.
PauseKeepsDenials ==
  [][\A r \in Reqs :
       (req[r].step = "paused" /\ req'[r].ans = "allowed") =>
         \A i \in DOMAIN past :
           (past[i].said = "denied" /\ InEffect(i)) =>
             \E j \in DOMAIN past : j > i /\ InEffect(j) /\ past[j].said = "allowed"]_vars

\* The clock and the reaper go on, and a client that is there pings.  Nothing
\* makes a client come back, or the server notice that it has gone.
Fairness ==
  \A d \in Deciders : WF_vars(LeaseLapses(d)) /\ WF_vars(Reap(d)) /\ WF_vars(Ping(d))

FairSpec == Spec /\ Fairness

\* deciders.py: "a workspace can be stranded in interactive mode for at most
\* that long, not indefinitely".  The registration of a client that is gone
\* ends, though nobody tells the server.
GoneIsReaped ==
  \A d \in Deciders : (d \in reg /\ client[d] = "off") ~> (d \notin reg)
=============================================================================
