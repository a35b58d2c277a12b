----------------------------- MODULE SidecarGate -----------------------------
(***************************************************************************)
(* The egress gate inside a workspace's network sidecar (klangksidecar):   *)
(* the OUTPUT chain, the learned and rejected records that go with its     *)
(* rules, the in-session host lists, the verdict cache, the SYNs held for  *)
(* a verdict (nfqueue.py), the DNS proxy that names and learns addresses   *)
(* (resolve.py), the sweeper (rules.py) and the consent client with its    *)
(* drop_rule (consent.py).                                                 *)
(*                                                                         *)
(* The event loop runs the actions below one at a time.  A job handed to   *)
(* the thread-pool executor runs later, in any order, and atomically: it   *)
(* holds LOCK.  One host name and one port; an address that no resolution  *)
(* has named goes by itself.                                               *)
(***************************************************************************)
EXTENDS Naturals, Sequences, SeqFilter, Functions

CONSTANTS
  Flows,      \* connections (source ports)
  IPs,        \* addresses of the host
  DstOf,      \* connection -> its address
  Host,       \* the host name
  MaxTasks,   \* bound: verdict tasks at one time
  MaxTime,    \* bound: ticks of the clock
  MaxQueries, \* bound: DNS queries
  TimedTtl,   \* a timed verdict, in ticks
  DnsTtl,     \* a DNS answer, floored at MIN_TTL
  ShortTtl,   \* VERDICT_CACHE_TTL and CONSENT_REJECT_TTL
  Scenarios   \* which connections and events a behaviour has

Durations == {"once", "timed", "forever"}
Events == Durations \cup {"allow", "deny", "down", "drop", "dns", "time", "direct"}

ASSUME GateAssumption ==
  /\ DstOf \in [Flows -> IPs]
  /\ Host \notin IPs
  /\ "any" \notin Flows
  /\ {MaxTasks, MaxTime, MaxQueries, TimedTtl, DnsTtl, ShortTtl} \subseteq Nat \ {0}
  /\ Scenarios \subseteq [flows : SUBSET Flows, events : SUBSET Events]

VARIABLES
  may,       \* the scenario of this behaviour
  now,       \* time.time()
  up,        \* the consent client is connected
  conn,      \* connection -> "none", "syn", "open", "refused"
  chain,     \* the OUTPUT chain, first rule first
  learned,   \* LEARNED: address -> its record
  rejected,  \* REJECTED: rule -> its expiry
  allows,    \* SESSION_HOST_ALLOWS: name -> expiry, 0 for none
  denies,    \* SESSION_HOST_DENIES
  cache,     \* VERDICT_CACHE: connection -> [said, expire]
  inflight,  \* INFLIGHT
  task,      \* decide_and_verdict tasks
  jobs,      \* calls of allow, reject, record_hosts in the executor
  query,     \* the DNS query under way: "none", "learn", "record"
  queries,   \* DNS queries made
  drop,      \* handle_drop_rule: [step, name, said, ips, quiet]
  granted,   \* history: until when allow verdicts let the host through
  reasons,   \* history: verdicts given, for a connection or a name, and outages
  crossed,   \* history: addresses learned after the allow they were let in by
  revoked    \* history: an allow was revoked, no other given, none in flight

ruleVars == <<chain, learned, rejected>>
listVars == <<allows, denies, cache>>
history == <<granted, reasons, crossed, revoked>>
dnsVars == <<query, queries>>
vars == <<may, now, up, conn, ruleVars, listVars, inflight, task, jobs, dnsVars,
          drop, history>>

Names == IPs \cup {Host}
Forever == MaxTime + TimedTtl + 1
Tasks == 1 .. MaxTasks
NoRec == [expire |-> 0, rule |-> 0, ports |-> {}, name |-> "none"]
NoTask == [step |-> "none"]
NoDrop == [step |-> "none"]
NoVerdict == [said |-> "none", expire |-> 0]
Accept(ip, port) == [kind |-> "ACCEPT", ip |-> ip, of |-> port]
Reject(ip, sport) == [kind |-> "REJECT", ip |-> ip, of |-> sport]

\* duration_ttl
Ttl(dur) == IF dur = "timed" THEN TimedTtl ELSE Forever - now

Later(a, b) == IF a > b THEN a ELSE b

Init ==
  /\ may \in Scenarios
  /\ now = 0
  /\ up = TRUE
  /\ conn = [f \in Flows |-> "none"]
  /\ chain = <<>>
  /\ learned = [ip \in IPs |-> NoRec]
  /\ rejected = [r \in {} |-> 0]
  /\ allows = [n \in Names |-> 0]
  /\ denies = [n \in Names |-> 0]
  /\ cache = [f \in Flows |-> NoVerdict]
  /\ inflight = {}
  /\ task = [t \in Tasks |-> NoTask]
  /\ jobs = {}
  /\ query = "none"
  /\ queries = 0
  /\ drop = NoDrop
  /\ granted = 0
  /\ reasons = {}
  /\ crossed = {}
  /\ revoked = FALSE

-----------------------------------------------------------------------------
(* The OUTPUT chain.                                                       *)

\* install, install_reject: at the top, unless it is there already.
Insert(rule, rules) == IF rule \in Range(rules) THEN rules ELSE <<rule>> \o rules
Delete(gone, rules) == Filter(rules, gone)

Matches(rule, f) ==
  /\ rule.ip = DstOf[f]
  /\ rule.kind = "REJECT" => rule.of \in {"any", f}

\* What the first matching rule does; NFQUEUE is the last rule of the chain.
Fate(f) ==
  LET hits == {i \in DOMAIN chain : Matches(chain[i], f)} IN
  IF hits = {} THEN "queue"
  ELSE chain[CHOOSE i \in hits : \A j \in hits : i <= j].kind

\* host_for
HostFor(ip) == IF learned[ip].name = "none" THEN ip ELSE learned[ip].name

InSession(list, name) == list[name] > now

-----------------------------------------------------------------------------
(* Connections: cb, the callback for a queued SYN.                         *)

\* A connection to an address the workspace has resolved, or has by itself.
Connect(f) ==
  /\ f \in may.flows
  /\ "direct" \in may.events \/ learned[DstOf[f]] # NoRec
  /\ conn[f] = "none"
  /\ conn' = [conn EXCEPT ![f] = "syn"]
  /\ UNCHANGED <<may, now, up, ruleVars, listVars, inflight, task, jobs, dnsVars,
                 drop, history>>

Ends(f, how) == conn' = [conn EXCEPT ![f] = IF @ = "syn" THEN how ELSE @]
Remember(f, said) ==
  cache' = [cache EXCEPT ![f] = [said |-> said, expire |-> now + ShortTtl]]

AllowJob(ip, port, ttl) ==
  [call |-> "allow", ip |-> ip, of |-> port, ttl |-> ttl, task |-> 0]
RejectJob(ip, sport, ttl) ==
  [call |-> "reject", ip |-> ip, of |-> sport, ttl |-> ttl, task |-> 0]

\* Mutant: a REJECT drops the SYN instead of answering it.
SynMeetsAccept(f) ==
  /\ conn[f] = "syn"
  /\ Fate(f) = "ACCEPT"
  /\ Ends(f, "open")
  /\ UNCHANGED <<may, now, up, ruleVars, listVars, inflight, task, jobs, dnsVars,
                 drop, history>>

\* A SYN or a retransmission that a rule above NFQUEUE settles.
SynMeetsRule(f) ==
  /\ conn[f] = "syn"
  /\ Fate(f) # "queue"
  /\ Ends(f, IF Fate(f) = "ACCEPT" THEN "open" ELSE "refused")
  /\ UNCHANGED <<may, now, up, ruleVars, listVars, inflight, task, jobs, dnsVars,
                 drop, history>>

Queued(f) == conn[f] = "syn" /\ Fate(f) = "queue"

\* fail_fast_no_consent
SynWithoutConsent(f) ==
  /\ Queued(f)
  /\ ~up
  /\ jobs' = jobs \cup {RejectJob(DstOf[f], "any", ShortTtl)}
  /\ Ends(f, "refused")
  /\ reasons' = reasons \cup {<<"outage", "deny">>}
  /\ UNCHANGED <<may, now, up, ruleVars, listVars, inflight, task, dnsVars, drop,
                 granted, crossed, revoked>>

CachedVerdict(f) == IF cache[f].expire > now THEN cache[f].said ELSE "none"

\* apply_cached_verdict
SynMeetsCache(f) ==
  /\ Queued(f)
  /\ up
  /\ CachedVerdict(f) # "none"
  /\ Ends(f, IF CachedVerdict(f) = "allow" THEN "open" ELSE "refused")
  /\ UNCHANGED <<may, now, up, ruleVars, listVars, inflight, task, jobs, dnsVars,
                 drop, history>>

\* Mutant: a retransmission of a held SYN is not told from a new one.
PassesAgain(f) == Queued(f) /\ up /\ CachedVerdict(f) = "none"

\* A SYN of a held connection is dropped; any other goes on to the gates.
Passes(f) ==
  /\ Queued(f)
  /\ up
  /\ CachedVerdict(f) = "none"
  /\ f \notin inflight

\* _allow_session_host
SynMeetsAllow(f) ==
  LET name == HostFor(DstOf[f]) IN
  /\ Passes(f)
  /\ InSession(allows, name)
  /\ jobs' = jobs \cup {AllowJob(DstOf[f], "port", allows[name] - now)}
  /\ Remember(f, "allow")
  /\ Ends(f, "open")
  /\ UNCHANGED <<may, now, up, ruleVars, allows, denies, inflight, task, dnsVars,
                 drop, history>>

\* deny_session_host
SynMeetsDeny(f) ==
  LET name == HostFor(DstOf[f]) IN
  /\ Passes(f)
  /\ ~InSession(allows, name)
  /\ InSession(denies, name)
  /\ jobs' = jobs \cup {RejectJob(DstOf[f], "any", denies[name] - now)}
  /\ Remember(f, "deny")
  /\ Ends(f, "refused")
  /\ UNCHANGED <<may, now, up, ruleVars, allows, denies, inflight, task, dnsVars,
                 drop, history>>

\* _dispatch_verdict: the SYN is held and a task asks for its verdict.
SynIsHeld(f) ==
  LET name == HostFor(DstOf[f]) IN
  /\ Passes(f)
  /\ ~InSession(allows, name)
  /\ ~InSession(denies, name)
  /\ inflight' = inflight \cup {f}
  /\ \E t \in Tasks :
       /\ task[t].step = "none" /\ \A s \in Tasks : s < t => task[s].step # "none"
       /\ task' = [task EXCEPT ![t] = [step |-> "ask", flow |-> f, name |-> name,
                                      said |-> "none", dur |-> "once"]]
  /\ UNCHANGED <<may, now, up, conn, ruleVars, listVars, jobs, dnsVars, drop,
                 history>>

-----------------------------------------------------------------------------
(* Verdicts: SidecarConsentClient.request and decide_and_verdict.          *)

Told(t, said, dur) ==
  [step |-> "told", flow |-> task[t].flow, name |-> task[t].name, said |-> said,
   dur |-> dur]

\* A verdict frame.  The receive loop handles one frame at a time.
Verdict(t, said, dur) ==
  /\ {said, dur} \subseteq may.events
  /\ up /\ drop.step = "none"
  /\ task[t].step = "ask"
  /\ task' = [task EXCEPT ![t] = Told(t, said, dur)]
  /\ granted' = IF said = "allow" /\ dur # "once"
                THEN Later(granted, now + Ttl(dur)) ELSE granted
  /\ reasons' = reasons \cup
       {<<IF dur = "once" THEN task[t].flow ELSE task[t].name, said>>}
  /\ revoked' = (revoked /\ (said = "deny" \/ dur = "once"))
  /\ UNCHANGED <<may, now, up, conn, ruleVars, listVars, inflight, jobs, dnsVars,
                 drop, crossed>>

\* The hold times out: deny, once.
RequestTimesOut(t) ==
  /\ task[t].step = "ask"
  /\ task' = [task EXCEPT ![t] = Told(t, "deny", "once")]
  /\ reasons' = reasons \cup {<<task[t].flow, "deny">>}
  /\ UNCHANGED <<may, now, up, conn, ruleVars, listVars, inflight, jobs, dnsVars,
                 drop, granted, crossed, revoked>>

\* _fail_close_pending: the receive loop notices between two frames.
Disconnect ==
  LET asking == {t \in Tasks : task[t].step = "ask"} IN
  /\ "down" \in may.events
  /\ up /\ drop.step = "none"
  /\ up' = FALSE
  /\ cache' = [f \in Flows |-> NoVerdict]
  /\ task' = [t \in Tasks |-> IF t \in asking THEN Told(t, "deny", "once") ELSE task[t]]
  /\ reasons' = reasons \cup {<<task[t].flow, "deny">> : t \in asking}
  /\ UNCHANGED <<may, now, conn, ruleVars, allows, denies, inflight, jobs, dnsVars,
                 drop, granted, crossed, revoked>>

Reconnect ==
  /\ ~up
  /\ up' = TRUE
  /\ UNCHANGED <<may, now, conn, ruleVars, listVars, inflight, task, jobs, dnsVars,
                 drop, history>>

\* Mutant: every REJECT is scoped to the destination.
DenyDestination(f, dur) == "any"

\* The source port a deny's REJECT is scoped to (_deny_reject_args).
DenyScope(f, dur) == IF dur = "once" THEN f ELSE "any"

\* The task goes on: cache, session list, then the rule, in the executor.  A
\* deny forges its RST first; an allow for this connection only needs no rule.
TaskWakes(t) ==
  LET w == task[t]
      lasting == w.dur # "once"
      until == now + Ttl(w.dur)
      job == IF w.said = "allow" THEN AllowJob(DstOf[w.flow], "all", Ttl(w.dur))
             ELSE RejectJob(DstOf[w.flow], DenyScope(w.flow, w.dur),
                            IF lasting THEN Ttl(w.dur) ELSE ShortTtl) IN
  /\ w.step = "told"
  /\ Remember(w.flow, w.said)
  /\ allows' = IF lasting /\ w.said = "allow"
               THEN [allows EXCEPT ![w.name] = Later(@, until)] ELSE allows
  /\ denies' = IF lasting /\ w.said = "deny"
               THEN [denies EXCEPT ![w.name] = Later(@, until)] ELSE denies
  /\ IF w.said = "allow" /\ ~lasting
     THEN /\ Ends(w.flow, "open")
          /\ task' = [task EXCEPT ![t] = NoTask]
          /\ inflight' = inflight \ {w.flow}
          /\ UNCHANGED jobs
     ELSE /\ conn' = IF w.said = "deny" /\ conn[w.flow] = "syn"
                     THEN [conn EXCEPT ![w.flow] = "refused"] ELSE conn
          /\ task' = [task EXCEPT ![t].step = "apply"]
          /\ jobs' = jobs \cup {[job EXCEPT !.task = t]}
          /\ UNCHANGED inflight
  /\ UNCHANGED <<may, now, up, ruleVars, dnsVars, drop, history>>

-----------------------------------------------------------------------------
(* The executor.                                                           *)

\* _record_allow: an address without a record gets one that names no host.
RecordAllow(ip, port, expire) ==
  learned' = [learned EXCEPT ![ip] =
    [expire |-> Later(@.expire, expire), rule |-> Later(@.rule, expire),
     ports |-> @.ports \cup {port}, name |-> @.name]]

\* Mutant: the records of the superseded REJECTs stay.
AllowKeepsRecords(ip, port, ttl) ==
  /\ RecordAllow(ip, port, now + ttl)
  /\ chain' = Delete(IF port = "all" THEN {r \in DOMAIN rejected : r.ip = ip} ELSE {},
                     Insert(Accept(ip, port), chain))
  /\ UNCHANGED rejected

\* allow: an ACCEPT for all ports removes the REJECTs of the address.
Allow(ip, port, ttl) ==
  LET gone == IF port = "all" THEN {r \in DOMAIN rejected : r.ip = ip} ELSE {} IN
  /\ RecordAllow(ip, port, now + ttl)
  /\ chain' = Delete(gone, Insert(Accept(ip, port), chain))
  /\ rejected' = Restrict(rejected, DOMAIN rejected \ gone)

\* reject
RejectFor(ip, sport, ttl) ==
  LET r == Reject(ip, sport)
      old == IF r \in DOMAIN rejected THEN rejected[r] ELSE 0 IN
  /\ chain' = Insert(r, chain)
  /\ rejected' = [s \in DOMAIN rejected \cup {r} |->
       IF s = r THEN Later(old, now + ttl) ELSE rejected[s]]
  /\ UNCHANGED learned

\* record_hosts
RecordHost(ip) ==
  /\ learned' = [learned EXCEPT ![ip] =
       [expire |-> Later(@.expire, now + DnsTtl), rule |-> @.rule,
        ports |-> @.ports, name |-> Host]]
  /\ UNCHANGED <<chain, rejected>>

\* Mutant: the connection stays in INFLIGHT when its task ends.
RunJobStaysInflight(j) ==
  /\ j \in jobs
  /\ jobs' = jobs \ {j}
  /\ \/ j.call = "allow" /\ Allow(j.ip, j.of, j.ttl)
     \/ j.call = "reject" /\ RejectFor(j.ip, j.of, j.ttl)
     \/ j.call = "record" /\ RecordHost(j.ip)
  /\ task' = [t \in Tasks |-> IF t = j.task THEN NoTask ELSE task[t]]
  /\ UNCHANGED <<may, now, up, conn, listVars, inflight, dnsVars, drop, history>>

\* A call runs; the task that awaits it verdicts its SYN and ends.
RunJob(j) ==
  /\ j \in jobs
  /\ jobs' = jobs \ {j}
  /\ \/ j.call = "allow" /\ Allow(j.ip, j.of, j.ttl)
     \/ j.call = "reject" /\ RejectFor(j.ip, j.of, j.ttl)
     \/ j.call = "record" /\ RecordHost(j.ip)
  /\ IF j.task = 0 THEN UNCHANGED <<conn, task, inflight>>
     ELSE LET w == task[j.task] IN
          /\ Ends(w.flow, IF w.said = "allow" THEN "open" ELSE "refused")
          /\ task' = [task EXCEPT ![j.task] = NoTask]
          /\ inflight' = inflight \ {w.flow}
  /\ UNCHANGED <<may, now, up, listVars, dnsVars, drop, history>>

\* sweep_once: rules past their time go; a record stays while its name is valid.
Sweep ==
  LET late(ip) == learned[ip].ports # {} /\ learned[ip].rule <= now
      left(ip) == IF late(ip) THEN [learned[ip] EXCEPT !.ports = {}] ELSE learned[ip]
      old == {r \in DOMAIN rejected : rejected[r] <= now}
      rules == {Accept(ip, p) : ip \in {i \in IPs : late(i)}, p \in {"all", "port"}} IN
  /\ learned' = [ip \in IPs |->
       IF left(ip).expire <= now /\ left(ip).ports = {} THEN NoRec ELSE left(ip)]
  /\ rejected' = Restrict(rejected, DOMAIN rejected \ old)
  /\ chain' = Delete(rules \cup old, chain)
  /\ ruleVars' # ruleVars
  /\ UNCHANGED <<may, now, up, conn, listVars, inflight, task, jobs, dnsVars, drop,
                 history>>

-----------------------------------------------------------------------------
(* The DNS proxy: handle_packet.                                           *)

\* ports_for decides which path the query takes before it is forwarded.
Query ==
  /\ "dns" \in may.events
  /\ query = "none"
  /\ queries < MaxQueries
  /\ queries' = queries + 1
  /\ query' = IF InSession(allows, Host) THEN "learn" ELSE "record"
  /\ UNCHANGED <<may, now, up, conn, ruleVars, listVars, inflight, task, jobs,
                 drop, history>>

\* Mutant: rules learned from DNS are not capped.
NoCap == DnsTtl

\* session_allow_rule_cap: no cap without an allow in effect.
RuleCap == IF InSession(allows, Host) THEN allows[Host] - now ELSE DnsTtl

\* respond_allowed, respond_recorded
QueryAnswered(ip) ==
  /\ query # "none"
  /\ query' = "none"
  /\ jobs' = jobs \cup
       {IF query = "learn"
        THEN AllowJob(ip, "port", IF RuleCap < DnsTtl THEN RuleCap ELSE DnsTtl)
        ELSE [call |-> "record", ip |-> ip, of |-> "none", ttl |-> 0, task |-> 0]}
  /\ crossed' = IF query = "learn" /\ ~InSession(allows, Host)
                THEN crossed \cup {ip} ELSE crossed
  /\ UNCHANGED <<may, now, up, conn, ruleVars, listVars, inflight, task, queries,
                 drop, granted, reasons, revoked>>

QueryFails ==
  /\ query # "none"
  /\ query' = "none"
  /\ UNCHANGED <<may, now, up, conn, ruleVars, listVars, inflight, task, jobs,
                 queries, drop, history>>

-----------------------------------------------------------------------------
(* Revocation: handle_drop_rule.                                           *)

\* An allow the sidecar has been told of and not yet put into effect.
AllowInFlight ==
  \/ \E j \in jobs : j.call = "allow"
  \/ \E t \in Tasks :
       task[t].step = "told" /\ task[t].said = "allow" /\ task[t].dur # "once"
  \/ query = "learn"

\* Mutant: the session list is not cleared.
DropStartsOnly(name, said) ==
  /\ {"drop", said} \subseteq may.events
  /\ up /\ drop.step = "none"
  /\ <<name, said>> \in reasons
  /\ drop' = [step |-> "run", name |-> name, said |-> said, ips |-> {},
              quiet |-> ~AllowInFlight]
  /\ UNCHANGED <<may, now, up, conn, ruleVars, listVars, inflight, task, jobs,
                 dnsVars, history>>

\* klangkd revokes a lasting verdict it has given, perhaps more than once.
\* The session list is cleared on the loop, before the executor window.
DropStarts(name, said) ==
  /\ {"drop", said} \subseteq may.events
  /\ up /\ drop.step = "none"
  /\ <<name, said>> \in reasons
  /\ drop' = [step |-> "run", name |-> name, said |-> said, ips |-> {},
              quiet |-> ~AllowInFlight]
  /\ allows' = IF said = "allow" THEN [allows EXCEPT ![name] = 0] ELSE allows
  /\ denies' = IF said = "deny" THEN [denies EXCEPT ![name] = 0] ELSE denies
  /\ UNCHANGED <<may, now, up, conn, ruleVars, cache, inflight, task, jobs, dnsVars,
                 history>>

\* _drop_targets: the addresses that go by this name.
DropTargets(name) ==
  {ip \in IPs : learned[ip].name = name} \cup (IPs \cap {name})

\* drop_for_host, in the executor.
DropRuns ==
  LET ips == DropTargets(drop.name)
      old == {r \in DOMAIN rejected : r.ip \in ips} IN
  /\ drop.step = "run"
  /\ drop' = [step |-> "ran", name |-> drop.name, said |-> drop.said, ips |-> ips,
              quiet |-> drop.quiet]
  /\ IF drop.said = "allow"
     THEN /\ learned' = [ip \in IPs |-> IF ip \in ips THEN NoRec ELSE learned[ip]]
          /\ chain' = Delete({Accept(ip, p) : ip \in ips, p \in {"all", "port"}}, chain)
          /\ UNCHANGED rejected
     ELSE /\ rejected' = Restrict(rejected, DOMAIN rejected \ old)
          /\ chain' = Delete(old, chain)
          /\ UNCHANGED learned
  /\ revoked' = \/ revoked
                \/ /\ drop.said = "allow" /\ drop.quiet /\ ~AllowInFlight
                   /\ \A n \in Names \ {drop.name} : ~InSession(allows, n)
  /\ UNCHANGED <<may, now, up, conn, listVars, inflight, task, jobs, dnsVars, granted,
                 reasons, crossed>>

\* clear_verdict_cache, then the drop_ack.
DropEnds ==
  /\ drop.step = "ran"
  /\ drop' = NoDrop
  /\ cache' = [f \in Flows |-> IF DstOf[f] \in drop.ips THEN NoVerdict ELSE cache[f]]
  /\ UNCHANGED <<may, now, up, conn, ruleVars, allows, denies, inflight, task, jobs,
                 dnsVars, history>>

-----------------------------------------------------------------------------
\* A call in the executor takes less than a tick.
Tick ==
  /\ "time" \in may.events
  /\ now < MaxTime
  /\ jobs = {} /\ drop.step = "none"
  /\ \A t \in Tasks : task[t].step # "told"
  /\ now' = now + 1
  /\ UNCHANGED <<may, up, conn, ruleVars, listVars, inflight, task, jobs, dnsVars,
                 drop, history>>

Syn(f) ==
  \/ SynMeetsRule(f) \/ SynWithoutConsent(f) \/ SynMeetsCache(f)
  \/ SynMeetsAllow(f) \/ SynMeetsDeny(f) \/ SynIsHeld(f)

Next ==
  \/ \E f \in Flows : Connect(f) \/ Syn(f)
  \/ \E t \in Tasks, said \in {"allow", "deny"}, dur \in Durations :
       Verdict(t, said, dur)
  \/ \E t \in Tasks : RequestTimesOut(t) \/ TaskWakes(t)
  \/ Disconnect \/ Reconnect
  \/ \E j \in jobs : RunJob(j)
  \/ Sweep
  \/ Query \/ QueryFails
  \/ \E ip \in IPs : QueryAnswered(ip)
  \/ \E name \in Names, said \in {"allow", "deny"} : DropStarts(name, said)
  \/ DropRuns \/ DropEnds
  \/ Tick

Spec == Init /\ [][Next]_vars

\* The kernel retransmits a SYN until it is answered, request gives up after
\* its hold timeout, the loop runs its ready tasks, the executor its calls.
Fairness ==
  /\ WF_vars(\E f \in Flows : Syn(f))
  /\ WF_vars(\E t \in Tasks : RequestTimesOut(t) \/ TaskWakes(t))
  /\ WF_vars(\E j \in jobs : RunJob(j))

FairSpec == Spec /\ Fairness

-----------------------------------------------------------------------------
(* Properties.                                                             *)

Verdicts == {"none", "allow", "deny"}

\* Types: every piece of the sidecar's state has the shape its code gives it,
\* and every task that holds a SYN is one of a connection in INFLIGHT.
TypeOK ==
  /\ now \in 0 .. MaxTime
  /\ up \in BOOLEAN
  /\ conn \in [Flows -> {"none", "syn", "open", "refused"}]
  /\ \A ip \in IPs : learned[ip].ports \subseteq {"all", "port"}
  /\ \A ip \in IPs : learned[ip].rule <= learned[ip].expire
  /\ allows \in [Names -> 0 .. Forever] /\ denies \in [Names -> 0 .. Forever]
  /\ \A f \in Flows : cache[f].said \in Verdicts
  /\ inflight = {task[t].flow : t \in {u \in Tasks : task[u].step # "none"}}
  /\ query \in {"none", "learn", "record"}
  /\ drop.step \in {"none", "run", "ran"}

\* The ACCEPT rules that LEARNED has ports for.
Accepts == UNION {{Accept(ip, p) : p \in learned[ip].ports} : ip \in IPs}

\* The OUTPUT chain and the records that will remove its rules agree: every
\* ACCEPT has its port in LEARNED, every REJECT its key in REJECTED, and the
\* other way round, and no rule is there twice.  (allow, reject, drop_for_host
\* and sweep_once, "atomic under LOCK".)
RulesHaveRecords ==
  /\ Range(chain) = Accepts \cup DOMAIN rejected
  /\ IsInjective(chain)

\* One connection has at most one verdict task, however often its SYN is
\* retransmitted while it is held (INFLIGHT).
OneTaskPerConnection ==
  \A t, u \in Tasks :
    t # u /\ task[t].step # "none" /\ task[u].step # "none"
      => task[t].flow # task[u].flow

\* A `once` verdict, a timeout and a lost connection settle one connection
\* only: another one gets through or is refused because of its own verdict, a
\* lasting one, or an outage (_deny_reject_args, the key of VERDICT_CACHE).
OnceIsPerConnection ==
  \A f \in Flows :
    /\ conn[f] = "open" => \E n \in Names \cup {f} : <<n, "allow">> \in reasons
    /\ conn[f] = "refused" =>
         \E n \in Names \cup {f, "outage"} : <<n, "deny">> \in reasons

\* No ACCEPT rule is kept past the longest allow the decider gave, through
\* any of the three places that install one (decide_and_verdict,
\* _allow_session_host, learn_all with its cap), except for an address that
\* was learned by a query begun under an allow and answered after it ended.
RuleLapsesWithVerdict ==
  \A ip \in IPs \ crossed : learned[ip].ports # {} => learned[ip].rule <= granted

Accepted == {ip \in IPs : learned[ip].ports # {}}

\* Once drop_for_host has run for the last allow, and nothing was under way
\* when it did, no ACCEPT rule comes back without a new verdict, whatever SYNs
\* and queries arrive before or after the ack (_drop_session_rules).
RevokedStaysRevoked ==
  [][revoked /\ revoked' => Accepted' \subseteq Accepted]_vars

\* Every connect() ends: the SYN of a connection is accepted or refused,
\* with the decider away, the consent link down or the rules being dropped.
ConnectEnds ==
  \A f \in Flows : conn[f] = "syn" ~> conn[f] \in {"open", "refused"}

\* What handle_drop_rule says of its ack, "the rule is gone": after the drop
\* of the only allow there was, with nothing under way, no ACCEPT rule is left.
AckMeansGone == revoked /\ drop.step = "none" => Accepted = {}

=============================================================================
