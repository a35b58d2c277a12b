------------------------- MODULE SidecarGateProofs -------------------------
(***************************************************************************)
(* Proofs about SidecarGate, for any number of connections, addresses and  *)
(* tasks and any lifetimes.  With the inductive invariant GateInv: a       *)
(* connection has one verdict task, no rule is kept past the verdict that  *)
(* let it in, and a revoked allow does not come back.  With RuleInv on top *)
(* of it: the types, the agreement of the chain with the records that will *)
(* remove its rules, and that a verdict for one connection settles no      *)
(* other one.                                                              *)
(***************************************************************************)
EXTENDS SidecarGate, SeqFilterProofs, TLAPS

Held == [step : {"ask", "told", "apply"}, flow : Flows, name : Names,
         said : Verdicts, dur : Durations]
Scopes == Flows \cup {"any", "all", "port", "none"}
Record == [expire : Nat, rule : Nat, ports : SUBSET Scopes,
           name : Names \cup {"none"}]
Job == [call : {"allow", "reject", "record"}, ip : IPs,
        of : Scopes, ttl : Nat,
        task : Tasks \cup {0}]
Dropping == [step : {"run", "ran"}, name : Names, said : {"allow", "deny"},
             ips : SUBSET IPs, quiet : BOOLEAN]

GateType ==
  /\ now \in 0 .. MaxTime
  /\ learned \in [IPs -> Record]
  /\ allows \in [Names -> Nat]
  /\ denies \in [Names -> Nat]
  /\ task \in [Tasks -> Held \cup {NoTask}]
  /\ jobs \subseteq Job
  /\ drop \in Dropping \cup {NoDrop}
  /\ granted \in Nat
  /\ crossed \subseteq IPs

\* Every task holds a connection of INFLIGHT, no two the same one, and a call
\* in the executor that a task awaits is the only one it awaits.
TaskInv ==
  /\ \A t \in Tasks : task[t].step # "none" => task[t].flow \in inflight
  /\ OneTaskPerConnection
  /\ \A j \in jobs : j.task # 0 => task[j.task].step = "apply"
  /\ \A i, j \in jobs : i.task = j.task /\ i.task # 0 => i = j

\* Whatever may still become an ACCEPT rule ends with an allow that was given.
LapseInv ==
  /\ \A n \in Names : allows[n] <= granted
  /\ \A t \in Tasks :
       task[t].step = "told" /\ task[t].said = "allow" /\ task[t].dur # "once"
         => now + Ttl(task[t].dur) <= granted
  /\ \A j \in jobs : j.call = "allow" => now + j.ttl <= granted \/ j.ip \in crossed
  /\ \A ip \in IPs \ crossed : learned[ip].rule <= granted

\* A lasting allow that its task has not yet put into effect.
ToldAllow ==
  \E t \in Tasks :
    task[t].step = "told" /\ task[t].said = "allow" /\ task[t].dur # "once"

\* After a revocation nothing is left that could install a rule.
RevokeInv ==
  /\ revoked => ~AllowInFlight /\ \A n \in Names : ~InSession(allows, n)
  /\ drop.step = "run" /\ drop.said = "allow" /\ drop.quiet
       => ~ToldAllow /\ allows[drop.name] = 0

GateInv == GateType /\ TaskInv /\ LapseInv /\ RevokeInv

-----------------------------------------------------------------------------
(* Facts about constants and helpers.                                      *)

LEMMA Constants ==
  /\ MaxTasks \in Nat /\ MaxTime \in Nat /\ MaxQueries \in Nat
  /\ TimedTtl \in Nat /\ DnsTtl \in Nat /\ ShortTtl \in Nat
  /\ Forever \in Nat /\ Forever > MaxTime
  /\ 0 \notin Tasks
BY GateAssumption DEF Forever, Tasks

\* A verdict's lifetime is a number, and its end is not before now.
LEMMA TtlType ==
  ASSUME now \in 0 .. MaxTime, NEW dur \in Durations
  PROVE  Ttl(dur) \in Nat /\ now + Ttl(dur) \in Nat
BY Constants DEF Ttl, Durations

\* A connection goes by the host's name or by its address.
LEMMA HostForType ==
  ASSUME learned \in [IPs -> Record], NEW ip \in IPs
  PROVE  HostFor(ip) \in Names
BY Zenon DEF HostFor, Record, Names

LEMMA LaterType ==
  ASSUME NEW a \in Nat, NEW b \in Nat
  PROVE  Later(a, b) \in Nat /\ a <= Later(a, b) /\ b <= Later(a, b)
BY DEF Later

LEMMA NoRecType == NoRec \in Record
BY Zenon DEF NoRec, Record

-----------------------------------------------------------------------------
(* Types.                                                                  *)

LEMMA InitType == Init => GateType /\ TaskInv /\ LapseInv /\ RevokeInv
<1> SUFFICES ASSUME Init PROVE GateType /\ TaskInv /\ LapseInv /\ RevokeInv
  OBVIOUS
<1>1. GateType
  BY Constants, NoRecType DEF Init, GateType
<1>2. TaskInv
  BY Zenon DEF Init, TaskInv, OneTaskPerConnection, NoTask
<1>3. LapseInv
  BY DEF Init, LapseInv, NoTask, NoRec
<1>4. RevokeInv
  BY Zenon DEF Init, RevokeInv, NoDrop
<1> QED BY Zenon, <1>1, <1>2, <1>3, <1>4

\* The three kinds of call are jobs.
LEMMA JobTypes ==
  ASSUME NEW ip \in IPs, NEW ttl \in Nat, NEW f \in Flows, NEW t \in Tasks
  PROVE  /\ AllowJob(ip, "port", ttl) \in Job
         /\ AllowJob(ip, "all", ttl) \in Job
         /\ RejectJob(ip, "any", ttl) \in Job
         /\ RejectJob(ip, f, ttl) \in Job
         /\ [AllowJob(ip, "all", ttl) EXCEPT !.task = t] \in Job
         /\ [RejectJob(ip, "any", ttl) EXCEPT !.task = t] \in Job
         /\ [RejectJob(ip, f, ttl) EXCEPT !.task = t] \in Job
BY Zenon DEF AllowJob, RejectJob, Job, Scopes

LEMMA ToldType ==
  ASSUME task \in [Tasks -> Held \cup {NoTask}], NEW t \in Tasks,
         task[t].step = "ask", NEW said \in {"allow", "deny"}, NEW dur \in Durations
  PROVE  Told(t, said, dur) \in Held
BY DEF Told, Held, NoTask, Verdicts

LEMMA HeldFields ==
  ASSUME task \in [Tasks -> Held \cup {NoTask}], NEW t \in Tasks,
         task[t].step # "none"
  PROVE  /\ task[t] \in Held
         /\ task[t].flow \in Flows /\ task[t].name \in Names
         /\ task[t].dur \in Durations /\ DstOf[task[t].flow] \in IPs
BY GateAssumption DEF Held, NoTask

\* What a call does to the task that awaits it, and a drop to the records.
LEMMA RunTask ==
  ASSUME NEW j \in jobs, RunJob(j)
  PROVE  task' = task \/ task' = [task EXCEPT ![j.task] = NoTask]
<1>1. CASE j.task = 0
  BY Zenon, <1>1 DEF RunJob
<1>2. CASE j.task # 0
  BY Zenon, <1>2 DEF RunJob
<1> QED BY Zenon, <1>1, <1>2

LEMMA DropLearned ==
  ASSUME DropRuns
  PROVE  \/ learned' = learned
         \/ \E ips : learned' = [ip \in IPs |-> IF ip \in ips THEN NoRec ELSE learned[ip]]
<1>1. CASE drop.said = "allow"
  BY SMTT(30), <1>1 DEF DropRuns
<1>2. CASE drop.said # "allow"
  BY SMTT(30), <1>2 DEF DropRuns
<1> QED BY Zenon, <1>1, <1>2

LEMMA TypeStep ==
  ASSUME GateType, Next
  PROVE  GateType'
<1>1. ASSUME NEW f \in Flows, Connect(f) PROVE GateType'
  BY Zenon, <1>1 DEF Connect, ruleVars, listVars, history, GateType
<1>2. ASSUME NEW f \in Flows, SynMeetsRule(f) PROVE GateType'
  BY Zenon, <1>2 DEF SynMeetsRule, ruleVars, listVars, history, GateType
<1>3. ASSUME NEW f \in Flows, SynWithoutConsent(f) PROVE GateType'
  <2>1. DstOf[f] \in IPs
    BY Zenon, GateAssumption
  <2>2. RejectJob(DstOf[f], "any", ShortTtl) \in Job
    BY Zenon, <2>1, Constants DEF RejectJob, Job, Scopes
  <2> QED BY Zenon, <1>3, <2>2 DEF SynWithoutConsent, ruleVars, listVars, GateType
<1>4. ASSUME NEW f \in Flows, SynMeetsCache(f) PROVE GateType'
  BY Zenon, <1>4 DEF SynMeetsCache, ruleVars, listVars, history, GateType
<1>5. ASSUME NEW f \in Flows, SynMeetsAllow(f) PROVE GateType'
  <2>1. DstOf[f] \in IPs
    BY Zenon, GateAssumption
  <2>2. HostFor(DstOf[f]) \in Names
    BY Zenon, <2>1, HostForType DEF GateType
  <2>3. allows[HostFor(DstOf[f])] - now \in Nat
    BY <2>2, <1>5, Constants DEF SynMeetsAllow, InSession, GateType
  <2>4. AllowJob(DstOf[f], "port", allows[HostFor(DstOf[f])] - now) \in Job
    BY Zenon, <2>1, <2>3 DEF AllowJob, Job, Scopes
  <2> QED BY Zenon, <1>5, <2>4 DEF SynMeetsAllow, ruleVars, history, GateType
<1>6. ASSUME NEW f \in Flows, SynMeetsDeny(f) PROVE GateType'
  <2>1. DstOf[f] \in IPs
    BY Zenon, GateAssumption
  <2>2. HostFor(DstOf[f]) \in Names
    BY Zenon, <2>1, HostForType DEF GateType
  <2>3. denies[HostFor(DstOf[f])] - now \in Nat
    BY <2>2, <1>6, Constants DEF SynMeetsDeny, InSession, GateType
  <2>4. RejectJob(DstOf[f], "any", denies[HostFor(DstOf[f])] - now) \in Job
    BY Zenon, <2>1, <2>3 DEF RejectJob, Job, Scopes
  <2> QED BY Zenon, <1>6, <2>4 DEF SynMeetsDeny, ruleVars, history, GateType
<1>7. ASSUME NEW f \in Flows, SynIsHeld(f) PROVE GateType'
  <2>1. DstOf[f] \in IPs
    BY Zenon, GateAssumption
  <2>2. HostFor(DstOf[f]) \in Names
    BY Zenon, <2>1, HostForType DEF GateType
  <2>3. [step |-> "ask", flow |-> f, name |-> HostFor(DstOf[f]),
         said |-> "none", dur |-> "once"] \in Held
    BY Zenon, <2>2 DEF Held, Verdicts, Durations, GateType
  <2> QED BY Zenon, <1>7, <2>3 DEF SynIsHeld, ruleVars, listVars, history, GateType
<1>8. ASSUME NEW t \in Tasks, NEW said \in {"allow", "deny"}, NEW dur \in Durations,
             Verdict(t, said, dur)
      PROVE  GateType'
  <2>1. Told(t, said, dur) \in Held
    BY Zenon, <1>8, ToldType DEF Verdict, GateType
  <2>2. now + Ttl(dur) \in Nat
    BY Zenon, TtlType DEF GateType
  <2>3. granted' \in Nat
    BY Zenon, <1>8, <2>2, LaterType DEF Verdict, GateType
  <2> QED BY Zenon, <1>8, <2>1, <2>3 DEF Verdict, ruleVars, listVars, GateType
<1>9. ASSUME NEW t \in Tasks, RequestTimesOut(t) PROVE GateType'
  <2>1. Told(t, "deny", "once") \in Held
    BY Zenon, <1>9, ToldType DEF RequestTimesOut, Durations, GateType
  <2> QED BY Zenon, <1>9, <2>1 DEF RequestTimesOut, ruleVars, listVars, GateType
<1>10. ASSUME Disconnect PROVE GateType'
  <2>1. \A t \in Tasks : task[t].step = "ask" => Told(t, "deny", "once") \in Held
    BY Zenon, ToldType DEF Durations, GateType
  <2> QED BY Zenon, <1>10, <2>1 DEF Disconnect, ruleVars, GateType
<1>11. ASSUME Reconnect PROVE GateType'
  BY Zenon, <1>11 DEF Reconnect, ruleVars, listVars, history, GateType
<1>12. ASSUME NEW t \in Tasks, TaskWakes(t) PROVE GateType'
  <2>1. /\ task[t] \in Held
        /\ task[t].flow \in Flows /\ task[t].name \in Names
        /\ task[t].dur \in Durations /\ DstOf[task[t].flow] \in IPs
    BY Zenon, <1>12, HeldFields DEF TaskWakes, GateType
  <2>2. Ttl(task[t].dur) \in Nat /\ now + Ttl(task[t].dur) \in Nat
    BY Zenon, <2>1, TtlType DEF GateType
  <2>3. allows' \in [Names -> Nat]
    BY Zenon, <1>12, <2>1, <2>2, LaterType DEF TaskWakes, GateType
  <2>4. denies' \in [Names -> Nat]
    BY Zenon, <1>12, <2>1, <2>2, LaterType DEF TaskWakes, GateType
  <2>5. task' \in [Tasks -> Held \cup {NoTask}]
    <3>1. [task[t] EXCEPT !.step = "apply"] \in Held
      BY Zenon, <2>1 DEF Held, GateType
    <3> QED BY Zenon, <1>12, <3>1 DEF TaskWakes, GateType
  <2>6. jobs' \subseteq Job
    <3>1. [AllowJob(DstOf[task[t].flow], "all", Ttl(task[t].dur)) EXCEPT !.task = t]
            \in Job
      BY Zenon, <2>1, <2>2, JobTypes
    <3>2. DenyScope(task[t].flow, task[t].dur) \in Flows \cup {"any"}
      BY Zenon, <2>1 DEF DenyScope, GateType
    <3>3. \A ttl \in Nat :
            [RejectJob(DstOf[task[t].flow], DenyScope(task[t].flow, task[t].dur), ttl)
               EXCEPT !.task = t] \in Job
      BY Zenon, <2>1, <3>2 DEF RejectJob, Job, Scopes
    <3> QED BY <1>12, <2>2, <3>1, <3>3, Constants DEF TaskWakes, GateType
  <2> QED BY Zenon, <1>12, <2>3, <2>4, <2>5, <2>6 DEF TaskWakes, ruleVars, history, GateType
<1>13. ASSUME NEW j \in jobs, RunJob(j) PROVE GateType'
  <2>1. j \in Job /\ j.ip \in IPs /\ j.ttl \in Nat /\ now + j.ttl \in Nat
    BY Constants DEF Job, GateType
  <2>2. learned' \in [IPs -> Record]
    <3>1. CASE j.call = "allow" /\ Allow(j.ip, j.of, j.ttl)
      <4>1. j.of \in Scopes
        BY Zenon, <2>1 DEF Job, GateType
      <4> QED BY Zenon, <3>1, <4>1, <2>1, LaterType DEF Allow, RecordAllow, Record, GateType
    <3>2. CASE RejectFor(j.ip, j.of, j.ttl)
      BY Zenon, <3>2 DEF RejectFor, GateType
    <3>3. CASE RecordHost(j.ip)
      <4>1. now + DnsTtl \in Nat
        BY Constants DEF GateType
      <4>2. learned[j.ip].expire \in Nat
        BY Zenon, <2>1 DEF Record, GateType
      <4>3. Later(learned[j.ip].expire, now + DnsTtl) \in Nat
        BY Zenon, <4>1, <4>2, LaterType DEF GateType
      <4> QED BY Zenon, <3>3, <2>1, <4>3 DEF RecordHost, Record, Names, GateType
    <3> QED BY Zenon, <1>13, <3>1, <3>2, <3>3 DEF RunJob, GateType
  <2>3. task' \in [Tasks -> Held \cup {NoTask}]
    BY Zenon, <1>13, <2>1 DEF RunJob, Job, GateType
  <2> QED BY Zenon, <1>13, <2>2, <2>3 DEF RunJob, listVars, history, GateType
<1>14. ASSUME Sweep PROVE GateType'
  <2>1. learned' \in [IPs -> Record]
    BY Zenon, <1>14, NoRecType DEF Sweep, Record, GateType
  <2> QED BY Zenon, <1>14, <2>1 DEF Sweep, listVars, history, GateType
<1>15. ASSUME Query PROVE GateType'
  BY Zenon, <1>15 DEF Query, ruleVars, listVars, history, GateType
<1>16. ASSUME QueryFails PROVE GateType'
  BY Zenon, <1>16 DEF QueryFails, ruleVars, listVars, history, GateType
<1>17. ASSUME NEW ip \in IPs, QueryAnswered(ip) PROVE GateType'
  <2>1. RuleCap \in Nat
    BY Constants DEF RuleCap, InSession, Names, GateType
  <2>2. /\ AllowJob(ip, "port", RuleCap) \in Job
        /\ AllowJob(ip, "port", DnsTtl) \in Job
        /\ [call |-> "record", ip |-> ip, of |-> "none", ttl |-> 0, task |-> 0] \in Job
    BY Zenon, <2>1, Constants DEF AllowJob, Job, Scopes
  <2>3. jobs' \subseteq Job
    BY Zenon, <1>17, <2>2 DEF QueryAnswered, GateType
  <2> QED BY Zenon, <1>17, <2>3 DEF QueryAnswered, ruleVars, listVars, GateType
<1>18. ASSUME NEW name \in Names, NEW said \in {"allow", "deny"}, DropStarts(name, said)
       PROVE  GateType'
  <2>1. drop' \in Dropping
    <3>1. \A q \in BOOLEAN :
            [step |-> "run", name |-> name, said |-> said, ips |-> {}, quiet |-> q]
              \in Dropping
      BY Zenon DEF Dropping, GateType
    <3>2. (~AllowInFlight) \in BOOLEAN
      OBVIOUS
    <3>3. drop' = [step |-> "run", name |-> name, said |-> said, ips |-> {},
                   quiet |-> ~AllowInFlight]
      BY Zenon, <1>18 DEF DropStarts, GateType
    <3> HIDE DEF AllowInFlight
    <3> QED BY Zenon, <3>1, <3>2, <3>3
  <2> QED BY Zenon, <1>18, <2>1 DEF DropStarts, ruleVars, history, GateType
<1>19. ASSUME DropRuns PROVE GateType'
  <2>1. drop' \in Dropping
    BY <1>19 DEF DropRuns, DropTargets, Dropping, NoDrop, GateType
  <2>2. learned' \in [IPs -> Record]
    BY <1>19, NoRecType DEF DropRuns, GateType
  <2> QED BY Zenon, <1>19, <2>1, <2>2 DEF DropRuns, listVars, GateType
<1>20. ASSUME DropEnds PROVE GateType'
  BY Zenon, <1>20 DEF DropEnds, ruleVars, history, GateType
<1>21. ASSUME Tick PROVE GateType'
  BY <1>21, Constants DEF Tick, ruleVars, listVars, history, GateType
<1> QED
  BY Zenon, <1>1, <1>2, <1>3, <1>4, <1>5, <1>6, <1>7, <1>8, <1>9, <1>10, <1>11, <1>12,
     <1>13, <1>14, <1>15, <1>16, <1>17, <1>18, <1>19, <1>20, <1>21 DEF Next, Syn

-----------------------------------------------------------------------------
(* One task per connection.                                                *)

\* A call that no task awaits changes nothing about tasks.
LEMMA TaskFrame ==
  ASSUME TaskInv, task' = task, inflight' = inflight,
         \A j \in jobs' : j \in jobs \/ j.task = 0
  PROVE  TaskInv'
BY Zenon DEF TaskInv, OneTaskPerConnection

\* The task of a connection that has been told goes on being its task.
LEMMA TaskKept ==
  ASSUME GateType, TaskInv, inflight' = inflight, jobs' = jobs,
         task' \in [Tasks -> Held \cup {NoTask}],
         \A t \in Tasks : \/ task'[t] = task[t]
                          \/ /\ task[t].step = "ask" /\ task'[t].step = "told"
                             /\ task'[t].flow = task[t].flow
  PROVE  TaskInv'
<1>1. \A t \in Tasks : /\ task'[t].step # "none" <=> task[t].step # "none"
                       /\ task'[t].step # "none" => task'[t].flow = task[t].flow
                       /\ task[t].step = "apply" => task'[t].step = "apply"
  OBVIOUS
<1>2. \A j \in jobs : j.task # 0 => j.task \in Tasks
  BY Zenon DEF GateType, Job
<1> QED BY <1>1, <1>2 DEF TaskInv, OneTaskPerConnection

LEMMA TaskStep ==
  ASSUME GateType, TaskInv, Next
  PROVE  TaskInv'
<1>1. ASSUME NEW f \in Flows, Connect(f) PROVE TaskInv'
  BY Zenon, <1>1, TaskFrame DEF Connect
<1>2. ASSUME NEW f \in Flows, SynMeetsRule(f) PROVE TaskInv'
  BY Zenon, <1>2, TaskFrame DEF SynMeetsRule
<1>3. ASSUME NEW f \in Flows, SynWithoutConsent(f) PROVE TaskInv'
  BY <1>3, TaskFrame DEF SynWithoutConsent, RejectJob
<1>4. ASSUME NEW f \in Flows, SynMeetsCache(f) PROVE TaskInv'
  BY Zenon, <1>4, TaskFrame DEF SynMeetsCache
<1>5. ASSUME NEW f \in Flows, SynMeetsAllow(f) PROVE TaskInv'
  BY <1>5, TaskFrame DEF SynMeetsAllow, AllowJob
<1>6. ASSUME NEW f \in Flows, SynMeetsDeny(f) PROVE TaskInv'
  BY <1>6, TaskFrame DEF SynMeetsDeny, RejectJob
<1>7. ASSUME NEW f \in Flows, SynIsHeld(f) PROVE TaskInv'
  <2> DEFINE new == [step |-> "ask", flow |-> f, name |-> HostFor(DstOf[f]),
                     said |-> "none", dur |-> "once"]
  <2>1. PICK t \in Tasks : task[t].step = "none" /\ task' = [task EXCEPT ![t] = new]
    BY Zenon, <1>7 DEF SynIsHeld
  <2>2. /\ f \notin inflight /\ inflight' = inflight \cup {f} /\ jobs' = jobs
    BY Zenon, <1>7 DEF SynIsHeld, Passes
  <2>3. task'[t].flow = f /\ \A s \in Tasks \ {t} : task'[s] = task[s]
    BY Zenon, <2>1 DEF GateType
  <2>4. \A j \in jobs : j.task # 0 => j.task \in Tasks /\ j.task # t
    BY Zenon, <2>1 DEF GateType, Job, TaskInv
  <2> QED BY <2>2, <2>3, <2>4 DEF TaskInv, OneTaskPerConnection
<1>8. ASSUME NEW t \in Tasks, NEW said \in {"allow", "deny"}, NEW dur \in Durations,
             Verdict(t, said, dur)
      PROVE  TaskInv'
  <2>1. task' \in [Tasks -> Held \cup {NoTask}]
    BY Zenon, TypeStep DEF GateType
  <2> QED BY Zenon, <1>8, <2>1, TaskKept DEF Verdict, Told, GateType
<1>9. ASSUME NEW t \in Tasks, RequestTimesOut(t) PROVE TaskInv'
  <2>1. task' \in [Tasks -> Held \cup {NoTask}]
    BY Zenon, TypeStep DEF GateType
  <2> QED BY Zenon, <1>9, <2>1, TaskKept DEF RequestTimesOut, Told, GateType
<1>10. ASSUME Disconnect PROVE TaskInv'
  <2>1. task' \in [Tasks -> Held \cup {NoTask}]
    BY Zenon, TypeStep DEF GateType
  <2> QED BY Zenon, <1>10, <2>1, TaskKept DEF Disconnect, Told, GateType
<1>11. ASSUME Reconnect PROVE TaskInv'
  BY Zenon, <1>11, TaskFrame DEF Reconnect
<1>12. ASSUME NEW t \in Tasks, TaskWakes(t) PROVE TaskInv'
  <2>1. task[t].step = "told"
    BY Zenon, <1>12 DEF TaskWakes
  <2>2. \A j \in jobs : j.task # 0 => j.task \in Tasks /\ j.task # t
    BY Zenon, <2>1 DEF GateType, Job, TaskInv
  <2>3. CASE task[t].said = "allow" /\ task[t].dur = "once"
    <3>1. /\ task' = [task EXCEPT ![t] = NoTask]
          /\ inflight' = inflight \ {task[t].flow} /\ jobs' = jobs
      BY Zenon, <1>12, <2>3 DEF TaskWakes
    <3>2. task'[t].step = "none" /\ \A s \in Tasks \ {t} : task'[s] = task[s]
      BY Zenon, <3>1 DEF GateType, NoTask
    <3> QED BY <2>1, <2>2, <3>1, <3>2 DEF TaskInv, OneTaskPerConnection
  <2>4. CASE ~(task[t].said = "allow" /\ task[t].dur = "once")
    <3>1. /\ task' = [task EXCEPT ![t].step = "apply"]
          /\ inflight' = inflight
      BY Zenon, <1>12, <2>4 DEF TaskWakes
    <3>2. PICK j : jobs' = jobs \cup {j} /\ j.task = t
      <4> DEFINE w == task[t]
                 yes == AllowJob(DstOf[w.flow], "all", Ttl(w.dur))
                 no == RejectJob(DstOf[w.flow], DenyScope(w.flow, w.dur),
                                 IF w.dur # "once" THEN Ttl(w.dur) ELSE ShortTtl)
                 one == IF w.said = "allow" THEN yes ELSE no
      <4>1. jobs' = jobs \cup {[one EXCEPT !.task = t]}
        BY Zenon, <1>12, <2>4 DEF TaskWakes
      <4>2. [yes EXCEPT !.task = t].task = t /\ [no EXCEPT !.task = t].task = t
        BY Zenon DEF AllowJob, RejectJob
      <4>3. [one EXCEPT !.task = t].task = t
        BY Zenon, <4>2
      <4> QED BY Zenon, <4>1, <4>3
    <3>3. /\ task'[t].step = "apply" /\ task'[t].flow = task[t].flow
          /\ \A s \in Tasks \ {t} : task'[s] = task[s]
      BY Zenon, <3>1, <2>1, HeldFields DEF GateType, Held
    <3>4. \A s \in Tasks : /\ task'[s].step # "none" <=> task[s].step # "none"
                           /\ task'[s].step # "none" => task'[s].flow = task[s].flow
      BY Zenon, <3>3, <2>1
    <3>5. \A i \in jobs' : i.task # 0 => task'[i.task].step = "apply"
      BY Zenon, <2>2, <3>2, <3>3 DEF TaskInv
    <3>6. \A i, k \in jobs' : i.task = k.task /\ i.task # 0 => i = k
      BY Zenon, <2>2, <3>2 DEF TaskInv
    <3> QED BY <3>1, <3>4, <3>5, <3>6 DEF TaskInv, OneTaskPerConnection
  <2> QED BY Zenon, <2>3, <2>4
<1>13. ASSUME NEW j \in jobs, RunJob(j) PROVE TaskInv'
  <2>1. CASE j.task = 0
    BY Zenon, <1>13, <2>1, TaskFrame DEF RunJob
  <2>2. CASE j.task # 0
    <3>1. /\ task' = [task EXCEPT ![j.task] = NoTask]
          /\ inflight' = inflight \ {task[j.task].flow} /\ jobs' = jobs \ {j}
      BY Zenon, <1>13, <2>2 DEF RunJob
    <3>2. j.task \in Tasks /\ task[j.task].step = "apply"
      BY Zenon, <2>2 DEF GateType, Job, TaskInv
    <3>3. task'[j.task].step = "none" /\ \A s \in Tasks \ {j.task} : task'[s] = task[s]
      BY Zenon, <3>1, <3>2 DEF GateType, NoTask
    <3>4. \A i \in jobs' : i.task # 0 => i.task \in Tasks /\ i.task # j.task
      BY Zenon, <2>2, <3>1 DEF GateType, Job, TaskInv
    <3> QED BY <3>1, <3>2, <3>3, <3>4 DEF TaskInv, OneTaskPerConnection
  <2> QED BY Zenon, <2>1, <2>2
<1>14. ASSUME Sweep PROVE TaskInv'
  BY Zenon, <1>14, TaskFrame DEF Sweep
<1>15. ASSUME Query PROVE TaskInv'
  BY Zenon, <1>15, TaskFrame DEF Query
<1>16. ASSUME QueryFails PROVE TaskInv'
  BY Zenon, <1>16, TaskFrame DEF QueryFails
<1>17. ASSUME NEW ip \in IPs, QueryAnswered(ip) PROVE TaskInv'
  BY <1>17, TaskFrame DEF QueryAnswered, AllowJob
<1>18. ASSUME NEW name \in Names, NEW said \in {"allow", "deny"}, DropStarts(name, said)
       PROVE  TaskInv'
  BY Zenon, <1>18, TaskFrame DEF DropStarts
<1>19. ASSUME DropRuns PROVE TaskInv'
  BY Zenon, <1>19, TaskFrame DEF DropRuns
<1>20. ASSUME DropEnds PROVE TaskInv'
  BY Zenon, <1>20, TaskFrame DEF DropEnds
<1>21. ASSUME Tick PROVE TaskInv'
  BY Zenon, <1>21, TaskFrame DEF Tick
<1> QED
  BY Zenon, <1>1, <1>2, <1>3, <1>4, <1>5, <1>6, <1>7, <1>8, <1>9, <1>10, <1>11, <1>12,
     <1>13, <1>14, <1>15, <1>16, <1>17, <1>18, <1>19, <1>20, <1>21 DEF Next, Syn

-----------------------------------------------------------------------------
(* Rules lapse with their verdicts.                                        *)

Lasting(w) == w.step = "told" /\ w.said = "allow" /\ w.dur # "once"

\* What a step within a tick must show of the lists, tasks, calls and records
\* it changes.
LEMMA LapseFrame ==
  ASSUME GateType, GateType', LapseInv, now' = now, granted <= granted',
         crossed \subseteq crossed',
         \A n \in Names : allows'[n] = allows[n] \/ allows'[n] <= granted',
         \A t \in Tasks :
           Lasting(task'[t]) => \/ task'[t] = task[t]
                                \/ now + Ttl(task'[t].dur) <= granted',
         \A j \in jobs' : \/ j \in jobs \/ j.call # "allow"
                          \/ now + j.ttl <= granted' \/ j.ip \in crossed',
         \A ip \in IPs : \/ learned'[ip].rule <= learned[ip].rule
                         \/ learned'[ip].rule <= granted' \/ ip \in crossed'
  PROVE  LapseInv'
<1>1. \A n \in Names : allows[n] \in Nat /\ allows'[n] \in Nat
  BY Zenon DEF GateType
<1>2. \A ip \in IPs : learned[ip].rule \in Nat /\ learned'[ip].rule \in Nat
  BY Zenon DEF GateType, Record
<1>3. \A j \in Job : j.ttl \in Nat
  BY Zenon DEF Job
<1>4. granted \in Nat /\ granted' \in Nat /\ now \in Nat
  BY DEF GateType
<1>5. \A n \in Names : allows'[n] <= granted'
  BY <1>1, <1>4 DEF LapseInv
<1>6. \A t \in Tasks : Lasting(task'[t]) => now + Ttl(task'[t].dur) <= granted'
  <2> SUFFICES ASSUME NEW t \in Tasks, Lasting(task[t]), task'[t] = task[t]
               PROVE  now + Ttl(task[t].dur) <= granted'
    OBVIOUS
  <2>1. now + Ttl(task[t].dur) <= granted
    BY Zenon DEF LapseInv, Lasting
  <2>2. task[t].dur \in Durations
    BY Zenon, HeldFields DEF GateType, Lasting
  <2>3. now + Ttl(task[t].dur) \in Nat
    BY Zenon, <2>2, TtlType DEF GateType
  <2> QED BY <2>1, <2>3, <1>4
<1>7. \A j \in jobs' : j.call = "allow" => now + j.ttl <= granted' \/ j.ip \in crossed'
  <2> SUFFICES ASSUME NEW j \in jobs, j.call = "allow", j.ip \notin crossed'
               PROVE  now + j.ttl <= granted'
    OBVIOUS
  <2>1. now + j.ttl <= granted
    BY Zenon DEF LapseInv
  <2>2. j.ttl \in Nat
    BY Zenon, <1>3 DEF GateType
  <2> QED BY <2>1, <2>2, <1>4
<1>8. \A ip \in IPs \ crossed' : learned'[ip].rule <= granted'
  BY <1>2, <1>4 DEF LapseInv
<1>9. \A dur : Ttl(dur)' = Ttl(dur)
  BY Zenon DEF Ttl
<1> QED BY Zenon, <1>5, <1>6, <1>7, <1>8, <1>9 DEF LapseInv, Lasting

\* Steps that only add calls other than allow, or none.
LEMMA LapseSame ==
  ASSUME GateType, GateType', LapseInv, now' = now, granted' = granted,
         crossed' = crossed, allows' = allows, learned' = learned,
         \A t \in Tasks : Lasting(task'[t]) => task'[t] = task[t],
         \A j \in jobs' : j \in jobs \/ j.call # "allow"
  PROVE  LapseInv'
<1>1. granted <= granted'
  BY DEF GateType
<1>2. \A ip \in IPs : learned'[ip].rule <= learned[ip].rule
  BY DEF GateType, Record
<1> QED BY Zenon, <1>1, <1>2, LapseFrame

LEMMA LapseStep ==
  ASSUME GateType, LapseInv, Next
  PROVE  LapseInv'
<1>a. GateType'
  BY Zenon, TypeStep
<1>b. granted \in Nat /\ now \in Nat /\ \A n \in Names : allows[n] \in Nat
  BY DEF GateType
<1>c. \A n \in Names : allows[n] <= granted
  BY Zenon DEF LapseInv
<1>d. \A ip \in IPs : learned[ip].rule \in Nat
  BY Zenon DEF GateType, Record
<1>1. ASSUME NEW f \in Flows, Connect(f) PROVE LapseInv'
  BY Zenon, <1>1, <1>a, LapseSame DEF Connect, ruleVars, listVars, history
<1>2. ASSUME NEW f \in Flows, SynMeetsRule(f) PROVE LapseInv'
  BY Zenon, <1>2, <1>a, LapseSame DEF SynMeetsRule, ruleVars, listVars, history
<1>3. ASSUME NEW f \in Flows, SynWithoutConsent(f) PROVE LapseInv'
  BY <1>3, <1>a, LapseSame DEF SynWithoutConsent, RejectJob, ruleVars, listVars
<1>4. ASSUME NEW f \in Flows, SynMeetsCache(f) PROVE LapseInv'
  BY Zenon, <1>4, <1>a, LapseSame DEF SynMeetsCache, ruleVars, listVars, history
<1>5. ASSUME NEW f \in Flows, SynMeetsAllow(f) PROVE LapseInv'
  <2> DEFINE left == allows[HostFor(DstOf[f])] - now
  <2>1. HostFor(DstOf[f]) \in Names
    BY Zenon, GateAssumption, HostForType DEF GateType
  <2>2. now + left <= granted
    BY <2>1, <1>b, <1>c
  <2>3. /\ jobs' = jobs \cup {AllowJob(DstOf[f], "port", left)}
        /\ now' = now /\ granted' = granted /\ crossed' = crossed /\ allows' = allows
        /\ task' = task /\ learned' = learned
    BY Zenon, <1>5 DEF SynMeetsAllow, ruleVars, history
  <2>4. AllowJob(DstOf[f], "port", left).ttl = left
    BY Zenon DEF AllowJob
  <2> HIDE DEF left
  <2> QED BY SMTT(30), <2>2, <2>3, <2>4, <1>a, <1>b, <1>d, LapseFrame
<1>6. ASSUME NEW f \in Flows, SynMeetsDeny(f) PROVE LapseInv'
  BY <1>6, <1>a, LapseSame DEF SynMeetsDeny, RejectJob, ruleVars, history
<1>7. ASSUME NEW f \in Flows, SynIsHeld(f) PROVE LapseInv'
  <2>1. \A t \in Tasks : Lasting(task'[t]) => task'[t] = task[t]
    BY SMTT(30), <1>7 DEF SynIsHeld, Lasting, GateType
  <2> QED BY Zenon, <1>7, <2>1, <1>a, LapseSame DEF SynIsHeld, ruleVars, listVars, history
<1>8. ASSUME NEW t \in Tasks, NEW said \in {"allow", "deny"}, NEW dur \in Durations,
             Verdict(t, said, dur)
      PROVE  LapseInv'
  <2>1. now + Ttl(dur) \in Nat
    BY Zenon, TtlType DEF GateType
  <2>2. \/ granted' = granted /\ ~(said = "allow" /\ dur # "once")
        \/ granted' = Later(granted, now + Ttl(dur))
    BY Zenon, <1>8 DEF Verdict
  <2>3. /\ granted <= granted'
        /\ said = "allow" /\ dur # "once" => now + Ttl(dur) <= granted'
    BY SMTT(30), <2>1, <2>2, <1>b DEF Later
  <2>4. /\ now' = now /\ crossed' = crossed /\ allows' = allows /\ learned' = learned
        /\ jobs' = jobs /\ task' = [task EXCEPT ![t] = Told(t, said, dur)]
    BY Zenon, <1>8 DEF Verdict, ruleVars, listVars
  <2>5. Told(t, said, dur).said = said /\ Told(t, said, dur).dur = dur
    BY Zenon DEF Told
  <2>6. \A u \in Tasks :
          Lasting(task'[u]) => \/ task'[u] = task[u]
                               \/ now + Ttl(task'[u].dur) <= granted'
    BY Zenon, <2>3, <2>4, <2>5 DEF Lasting, GateType
  <2>7. \A ip \in IPs : learned'[ip].rule <= learned[ip].rule
    BY <2>4, <1>d
  <2> QED BY Zenon, <2>3, <2>4, <2>6, <2>7, <1>a, LapseFrame
<1>9. ASSUME NEW t \in Tasks, RequestTimesOut(t) PROVE LapseInv'
  <2>1. \A u \in Tasks : Lasting(task'[u]) => task'[u] = task[u]
    BY Zenon, <1>9 DEF RequestTimesOut, Told, Lasting, GateType
  <2> QED BY Zenon, <1>9, <2>1, <1>a, LapseSame DEF RequestTimesOut, ruleVars, listVars
<1>10. ASSUME Disconnect PROVE LapseInv'
  <2>1. \A u \in Tasks : Lasting(task'[u]) => task'[u] = task[u]
    BY Zenon, <1>10 DEF Disconnect, Told, Lasting, GateType
  <2> QED BY Zenon, <1>10, <2>1, <1>a, LapseSame DEF Disconnect, ruleVars
<1>11. ASSUME Reconnect PROVE LapseInv'
  BY Zenon, <1>11, <1>a, LapseSame DEF Reconnect, ruleVars, listVars, history
<1>12. ASSUME NEW t \in Tasks, TaskWakes(t) PROVE LapseInv'
  <2> DEFINE w == task[t]
             until == now + Ttl(w.dur)
             yes == AllowJob(DstOf[w.flow], "all", Ttl(w.dur))
  <2>1. w \in Held /\ w.name \in Names /\ w.dur \in Durations
    BY Zenon, <1>12, HeldFields DEF TaskWakes, GateType
  <2>2. Ttl(w.dur) \in Nat /\ until \in Nat
    BY Zenon, <2>1, TtlType DEF GateType
  <2>3. w.said = "allow" /\ w.dur # "once" => until <= granted
    BY Zenon, <1>12 DEF TaskWakes, LapseInv
  <2>4. /\ now' = now /\ granted' = granted /\ crossed' = crossed /\ learned' = learned
    BY Zenon, <1>12 DEF TaskWakes, ruleVars, history
  <2>5. \A n \in Names : allows'[n] = allows[n] \/ allows'[n] <= granted'
    <3>1. CASE w.said = "allow" /\ w.dur # "once"
      <4>1. allows' = [allows EXCEPT ![w.name] = Later(@, until)]
        BY Zenon, <1>12, <3>1 DEF TaskWakes
      <4>2. Later(allows[w.name], until) <= granted
        BY Zenon, <3>1, <2>1, <2>3, <1>c DEF Later
      <4> QED BY Zenon, <4>1, <4>2, <2>1, <2>4 DEF GateType
    <3>2. CASE ~(w.said = "allow" /\ w.dur # "once")
      BY Zenon, <1>12, <3>2 DEF TaskWakes
    <3> QED BY Zenon, <3>1, <3>2
  <2>6. \A u \in Tasks : Lasting(task'[u]) => task'[u] = task[u]
    BY <1>12, <2>1 DEF TaskWakes, Lasting, NoTask, GateType, Held
  <2>7. \A j \in jobs' : \/ j \in jobs \/ j.call # "allow" \/ now + j.ttl <= granted'
    <3>1. CASE w.said = "allow" /\ w.dur # "once"
      <4>1. jobs' = jobs \cup {[yes EXCEPT !.task = t]}
        BY Zenon, <1>12, <3>1 DEF TaskWakes
      <4>2. [yes EXCEPT !.task = t].ttl = Ttl(w.dur)
        BY Zenon DEF AllowJob
      <4> QED BY Zenon, <4>1, <4>2, <3>1, <2>3, <2>4
    <3>2. CASE w.said = "allow" /\ w.dur = "once"
      BY Zenon, <1>12, <3>2 DEF TaskWakes
    <3>3. CASE w.said # "allow"
      <4>1. PICK of, ttl : jobs' = jobs \cup
              {[RejectJob(DstOf[w.flow], of, ttl) EXCEPT !.task = t]}
        BY Zenon, <1>12, <3>3 DEF TaskWakes
      <4>2. [RejectJob(DstOf[w.flow], of, ttl) EXCEPT !.task = t].call = "reject"
        BY Zenon DEF RejectJob
      <4> QED BY Zenon, <4>1, <4>2
    <3> QED BY Zenon, <3>1, <3>2, <3>3
  <2> QED BY <2>4, <2>5, <2>6, <2>7, <1>a, <1>b, <1>d, LapseFrame
<1>13. ASSUME NEW j \in jobs, RunJob(j) PROVE LapseInv'
  <2>1. j.ip \in IPs /\ j.ttl \in Nat
    BY Zenon DEF GateType, Job
  <2>2. /\ now' = now /\ granted' = granted /\ crossed' = crossed /\ allows' = allows
        /\ jobs' = jobs \ {j}
    BY Zenon, <1>13 DEF RunJob, listVars, history
  <2>3. \A u \in Tasks : Lasting(task'[u]) => task'[u] = task[u]
    <3>1. task' = task \/ task' = [task EXCEPT ![j.task] = NoTask]
      BY Zenon, <1>13, RunTask
    <3> QED BY <3>1 DEF Lasting, NoTask, GateType
  <2>4. \A ip \in IPs : \/ learned'[ip].rule <= learned[ip].rule
                        \/ learned'[ip].rule <= granted' \/ ip \in crossed'
    <3>1. CASE j.call = "allow" /\ Allow(j.ip, j.of, j.ttl)
      <4>1. \A ip \in IPs \ {j.ip} : learned'[ip] = learned[ip]
        BY Zenon, <3>1 DEF Allow, RecordAllow, GateType
      <4>2. learned'[j.ip].rule = Later(learned[j.ip].rule, now + j.ttl)
        BY Zenon, <3>1, <2>1 DEF Allow, RecordAllow, GateType
      <4>3. now + j.ttl <= granted \/ j.ip \in crossed
        BY Zenon, <3>1 DEF LapseInv
      <4> QED BY <4>1, <4>2, <4>3, <2>1, <2>2, <1>b, <1>d DEF Later
    <3>2. CASE RejectFor(j.ip, j.of, j.ttl)
      BY <3>2, <1>d DEF RejectFor
    <3>3. CASE RecordHost(j.ip)
      <4>1. \A ip \in IPs : learned'[ip].rule = learned[ip].rule
        BY Zenon, <3>3 DEF RecordHost, GateType
      <4> QED BY <4>1, <1>d
    <3> QED BY Zenon, <1>13, <3>1, <3>2, <3>3 DEF RunJob
  <2> QED BY <2>2, <2>3, <2>4, <1>a, <1>b, LapseFrame
<1>14. ASSUME Sweep PROVE LapseInv'
  <2>1. \A ip \in IPs : learned'[ip].rule <= learned[ip].rule
    BY <1>14, <1>d DEF Sweep, NoRec, GateType, Record
  <2>2. /\ now' = now /\ granted' = granted /\ crossed' = crossed /\ allows' = allows
        /\ jobs' = jobs /\ task' = task
    BY Zenon, <1>14 DEF Sweep, listVars, history
  <2> QED BY <2>1, <2>2, <1>a, <1>b, LapseFrame
<1>15. ASSUME Query PROVE LapseInv'
  BY Zenon, <1>15, <1>a, LapseSame DEF Query, ruleVars, listVars, history
<1>16. ASSUME QueryFails PROVE LapseInv'
  BY Zenon, <1>16, <1>a, LapseSame DEF QueryFails, ruleVars, listVars, history
<1>17. ASSUME NEW ip \in IPs, QueryAnswered(ip) PROVE LapseInv'
  <2> DEFINE ttl == IF RuleCap < DnsTtl THEN RuleCap ELSE DnsTtl
  <2>1. /\ now' = now /\ granted' = granted /\ crossed \subseteq crossed'
        /\ allows' = allows /\ task' = task /\ learned' = learned
    BY Zenon, <1>17 DEF QueryAnswered, ruleVars, listVars
  <2>2. \/ \A j \in jobs' : j \in jobs \/ j.call # "allow"
        \/ query = "learn" /\ jobs' = jobs \cup {AllowJob(ip, "port", ttl)}
    BY <1>17 DEF QueryAnswered
  <2>3. query = "learn" /\ ip \notin crossed' => now + ttl <= granted
    <3>1. query = "learn" /\ ip \notin crossed' => InSession(allows, Host)
      BY Zenon, <1>17 DEF QueryAnswered
    <3>2. Host \in Names
      BY Zenon DEF Names
    <3>3. InSession(allows, Host) => ttl <= allows[Host] - now
      BY <3>2, <1>b, Constants DEF RuleCap
    <3>4. ttl \in Nat
      BY <3>2, <1>b, Constants DEF RuleCap, InSession
    <3> QED BY SMTT(30), <3>1, <3>2, <3>3, <3>4, <1>b, <1>c
  <2>4. /\ AllowJob(ip, "port", ttl).ttl = ttl /\ AllowJob(ip, "port", ttl).ip = ip
    BY Zenon DEF AllowJob
  <2> HIDE DEF ttl
  <2>5. \A j \in jobs' : \/ j \in jobs \/ j.call # "allow"
                         \/ now + j.ttl <= granted' \/ j.ip \in crossed'
    BY Zenon, <2>1, <2>2, <2>3, <2>4
  <2> QED BY <2>1, <2>5, <1>a, <1>b, <1>d, LapseFrame
<1>18. ASSUME NEW name \in Names, NEW said \in {"allow", "deny"}, DropStarts(name, said)
       PROVE  LapseInv'
  <2>1. \A n \in Names : allows'[n] = allows[n] \/ allows'[n] <= granted
    BY SMTT(30), <1>18, <1>b DEF DropStarts, GateType
  <2>2. /\ now' = now /\ granted' = granted /\ crossed' = crossed
        /\ jobs' = jobs /\ task' = task /\ learned' = learned
    BY Zenon, <1>18 DEF DropStarts, ruleVars, history
  <2> QED BY SMTT(30), <2>1, <2>2, <1>a, <1>b, <1>d, LapseFrame
<1>19. ASSUME DropRuns PROVE LapseInv'
  <2>0. \A ip \in IPs : learned'[ip] = NoRec \/ learned'[ip] = learned[ip]
    BY Zenon, <1>19, DropLearned
  <2>1. \A ip \in IPs : learned'[ip].rule <= learned[ip].rule
    BY <2>0, <1>d DEF NoRec
  <2>2. /\ now' = now /\ granted' = granted /\ crossed' = crossed /\ allows' = allows
        /\ jobs' = jobs /\ task' = task
    BY Zenon, <1>19 DEF DropRuns, listVars
  <2> QED BY <2>1, <2>2, <1>a, <1>b, LapseFrame
<1>20. ASSUME DropEnds PROVE LapseInv'
  BY Zenon, <1>20, <1>a, LapseSame DEF DropEnds, ruleVars, history
<1>21. ASSUME Tick PROVE LapseInv'
  <2>1. /\ jobs' = {} /\ allows' = allows /\ learned' = learned /\ task' = task
        /\ granted' = granted /\ crossed' = crossed
    BY Zenon, <1>21 DEF Tick, ruleVars, listVars, history
  <2>2. \A t \in Tasks : ~Lasting(task'[t])
    BY Zenon, <1>21, <2>1 DEF Tick, Lasting
  <2> QED BY Zenon, <2>1, <2>2 DEF LapseInv, Lasting
<1> QED
  BY Zenon, <1>1, <1>2, <1>3, <1>4, <1>5, <1>6, <1>7, <1>8, <1>9, <1>10, <1>11, <1>12,
     <1>13, <1>14, <1>15, <1>16, <1>17, <1>18, <1>19, <1>20, <1>21 DEF Next, Syn

-----------------------------------------------------------------------------
(* Revocation.                                                             *)

\* Steps that neither begin an allow nor a revocation.
LEMMA RevokeFrame ==
  ASSUME GateType, GateType', RevokeInv, now <= now', revoked' => revoked,
         drop' = drop \/ drop'.step # "run",
         \A n \in Names : allows'[n] = allows[n],
         \A t \in Tasks : Lasting(task'[t]) => task'[t] = task[t],
         \A j \in jobs' : j \in jobs \/ j.call # "allow",
         query' = "learn" => query = "learn"
  PROVE  RevokeInv'
<1>1. now \in Nat /\ now' \in Nat /\ \A n \in Names : allows[n] \in Nat
  BY DEF GateType
<1>2. ~ToldAllow => ~ToldAllow'
  BY Zenon DEF ToldAllow, Lasting
<1>3. ~AllowInFlight => ~AllowInFlight'
  BY Zenon DEF AllowInFlight, Lasting
<1>4. \A n \in Names : ~InSession(allows, n) => ~InSession(allows, n)'
  BY SMTT(30), <1>1 DEF InSession
<1>5. drop'.step = "run" /\ drop'.said = "allow" /\ drop'.quiet
        => ~ToldAllow' /\ allows'[drop'.name] = 0
  <2> SUFFICES ASSUME drop' = drop, drop.step = "run", drop.said = "allow", drop.quiet
               PROVE  ~ToldAllow' /\ allows'[drop.name] = 0
    OBVIOUS
  <2>1. ~ToldAllow /\ allows[drop.name] = 0
    BY Zenon DEF RevokeInv
  <2>2. drop.name \in Names
    BY DEF GateType, Dropping, NoDrop
  <2> QED BY Zenon, <2>1, <2>2, <1>2
<1> QED BY Zenon, <1>3, <1>4, <1>5 DEF RevokeInv

LEMMA RevokeSame ==
  ASSUME GateType, GateType', RevokeInv, UNCHANGED <<now, allows, query, drop, revoked>>,
         \A t \in Tasks : Lasting(task'[t]) => task'[t] = task[t],
         \A j \in jobs' : j \in jobs \/ j.call # "allow"
  PROVE  RevokeInv'
<1>1. now <= now'
  BY DEF GateType
<1> QED BY Zenon, <1>1, RevokeFrame

LEMMA RevokeStep ==
  ASSUME GateType, RevokeInv, Next
  PROVE  RevokeInv'
<1>a. GateType'
  BY Zenon, TypeStep
<1>b. now \in Nat /\ now <= now
  BY DEF GateType
<1>e. allows \in [Names -> Nat]
  BY Zenon DEF GateType
<1>1. ASSUME NEW f \in Flows, Connect(f) PROVE RevokeInv'
  BY Zenon, <1>1, <1>a, RevokeSame DEF Connect, listVars, dnsVars, history
<1>2. ASSUME NEW f \in Flows, SynMeetsRule(f) PROVE RevokeInv'
  BY Zenon, <1>2, <1>a, RevokeSame DEF SynMeetsRule, listVars, dnsVars, history
<1>3. ASSUME NEW f \in Flows, SynWithoutConsent(f) PROVE RevokeInv'
  BY <1>3, <1>a, RevokeSame DEF SynWithoutConsent, RejectJob, listVars, dnsVars
<1>4. ASSUME NEW f \in Flows, SynMeetsCache(f) PROVE RevokeInv'
  BY Zenon, <1>4, <1>a, RevokeSame DEF SynMeetsCache, listVars, dnsVars, history
<1>5. ASSUME NEW f \in Flows, SynMeetsAllow(f) PROVE RevokeInv'
  <2>1. HostFor(DstOf[f]) \in Names
    BY Zenon, GateAssumption, HostForType DEF GateType
  <2>2. ~revoked
    BY Zenon, <1>5, <2>1 DEF SynMeetsAllow, RevokeInv
  <2> QED BY Zenon, <1>5, <2>2 DEF SynMeetsAllow, RevokeInv, ToldAllow, history
<1>6. ASSUME NEW f \in Flows, SynMeetsDeny(f) PROVE RevokeInv'
  BY SMTT(30), <1>6, <1>a, RevokeSame DEF SynMeetsDeny, RejectJob, dnsVars, history
<1>7. ASSUME NEW f \in Flows, SynIsHeld(f) PROVE RevokeInv'
  <2>1. \A t \in Tasks : Lasting(task'[t]) => task'[t] = task[t]
    BY SMTT(30), <1>7 DEF SynIsHeld, Lasting, GateType
  <2> QED BY Zenon, <1>7, <2>1, <1>a, RevokeSame DEF SynIsHeld, listVars, dnsVars, history
<1>8. ASSUME NEW t \in Tasks, NEW said \in {"allow", "deny"}, NEW dur \in Durations,
             Verdict(t, said, dur)
      PROVE  RevokeInv'
  <2>1. drop' = drop /\ drop.step = "none"
    BY Zenon, <1>8 DEF Verdict
  <2>2. CASE revoked /\ (said = "deny" \/ dur = "once")
    <3>1. \A u \in Tasks : Lasting(task'[u]) => task'[u] = task[u]
      BY Zenon, <1>8, <2>2 DEF Verdict, Told, Lasting, GateType
    <3> QED BY Zenon, <1>8, <2>1, <2>2, <3>1, <1>a, <1>b, RevokeFrame
            DEF Verdict, listVars, dnsVars
  <2>3. CASE ~(revoked /\ (said = "deny" \/ dur = "once"))
    BY Zenon, <1>8, <2>1, <2>3 DEF Verdict, RevokeInv
  <2> QED BY Zenon, <2>2, <2>3
<1>9. ASSUME NEW t \in Tasks, RequestTimesOut(t) PROVE RevokeInv'
  <2>1. \A u \in Tasks : Lasting(task'[u]) => task'[u] = task[u]
    BY Zenon, <1>9 DEF RequestTimesOut, Told, Lasting, GateType
  <2> QED BY Zenon, <1>9, <2>1, <1>a, RevokeSame DEF RequestTimesOut, listVars, dnsVars
<1>10. ASSUME Disconnect PROVE RevokeInv'
  <2>1. \A u \in Tasks : Lasting(task'[u]) => task'[u] = task[u]
    BY Zenon, <1>10 DEF Disconnect, Told, Lasting, GateType
  <2> QED BY Zenon, <1>10, <2>1, <1>a, RevokeSame DEF Disconnect, dnsVars
<1>11. ASSUME Reconnect PROVE RevokeInv'
  BY Zenon, <1>11, <1>a, RevokeSame DEF Reconnect, listVars, dnsVars, history
<1>12. ASSUME NEW t \in Tasks, TaskWakes(t) PROVE RevokeInv'
  <2> DEFINE w == task[t]
  <2>1. w \in Held /\ w.name \in Names /\ w.dur \in Durations /\ w.step = "told"
    BY Zenon, <1>12, HeldFields DEF TaskWakes, GateType
  <2>2. /\ now' = now /\ revoked' = revoked /\ drop' = drop /\ query' = query
    BY Zenon, <1>12 DEF TaskWakes, dnsVars, history
  <2>3. \A u \in Tasks : Lasting(task'[u]) => task'[u] = task[u]
    BY <1>12, <2>1 DEF TaskWakes, Lasting, NoTask, GateType, Held
  <2>4. CASE w.said = "allow" /\ w.dur # "once"
    <3>1. ToldAllow /\ AllowInFlight
      BY Zenon, <2>1, <2>4 DEF ToldAllow, AllowInFlight
    <3> QED BY Zenon, <2>2, <3>1 DEF RevokeInv
  <2>5. CASE ~(w.said = "allow" /\ w.dur # "once")
    <3>1. allows' = allows
      BY Zenon, <1>12, <2>5 DEF TaskWakes
    <3>2. \A j \in jobs' : j \in jobs \/ j.call # "allow"
      <4>1. CASE w.said = "allow"
        BY Zenon, <1>12, <4>1, <2>5 DEF TaskWakes
      <4>2. CASE w.said # "allow"
        <5>1. PICK of, ttl : jobs' = jobs \cup
                {[RejectJob(DstOf[w.flow], of, ttl) EXCEPT !.task = t]}
          BY Zenon, <1>12, <4>2 DEF TaskWakes
        <5>2. [RejectJob(DstOf[w.flow], of, ttl) EXCEPT !.task = t].call = "reject"
          BY Zenon DEF RejectJob
        <5> QED BY Zenon, <5>1, <5>2
      <4> QED BY Zenon, <4>1, <4>2
    <3> QED BY Zenon, <2>2, <2>3, <3>1, <3>2, <1>a, <1>b, RevokeFrame
  <2> QED BY Zenon, <2>4, <2>5
<1>13. ASSUME NEW j \in jobs, RunJob(j) PROVE RevokeInv'
  <2>1. \A u \in Tasks : Lasting(task'[u]) => task'[u] = task[u]
    <3>1. task' = task \/ task' = [task EXCEPT ![j.task] = NoTask]
      BY Zenon, <1>13, RunTask
    <3> QED BY <3>1 DEF Lasting, NoTask, GateType
  <2>2. /\ now' = now /\ revoked' = revoked /\ drop' = drop /\ query' = query
        /\ allows' = allows /\ jobs' \subseteq jobs
    BY Zenon, <1>13 DEF RunJob, listVars, dnsVars, history
  <2> QED BY Zenon, <2>1, <2>2, <1>a, RevokeSame
<1>14. ASSUME Sweep PROVE RevokeInv'
  BY Zenon, <1>14, <1>a, RevokeSame DEF Sweep, listVars, dnsVars, history
<1>15. ASSUME Query PROVE RevokeInv'
  <2>1. Host \in Names
    BY Zenon DEF Names
  <2>2. CASE InSession(allows, Host)
    BY Zenon, <1>15, <2>1, <2>2 DEF Query, RevokeInv, ToldAllow, listVars, history
  <2>3. CASE ~InSession(allows, Host)
    BY Zenon, <1>15, <2>3, <1>a, <1>b, RevokeFrame DEF Query, listVars, history
  <2> QED BY Zenon, <2>2, <2>3
<1>16. ASSUME QueryFails PROVE RevokeInv'
  BY Zenon, <1>16, <1>a, <1>b, RevokeFrame DEF QueryFails, listVars, history
<1>17. ASSUME NEW ip \in IPs, QueryAnswered(ip) PROVE RevokeInv'
  <2>1. CASE query = "learn"
    <3>1. ~revoked
      BY Zenon, <2>1 DEF RevokeInv, AllowInFlight
    <3> QED BY Zenon, <1>17, <3>1 DEF QueryAnswered, RevokeInv, ToldAllow, listVars
  <2>2. CASE query # "learn"
    BY SMTT(30), <1>17, <2>2, <1>a, <1>b, RevokeFrame DEF QueryAnswered, listVars
  <2> QED BY Zenon, <2>1, <2>2
<1>18. ASSUME NEW name \in Names, NEW said \in {"allow", "deny"}, DropStarts(name, said)
       PROVE  RevokeInv'
  <2>1. /\ now' = now /\ revoked' = revoked /\ query' = query
        /\ jobs' = jobs /\ task' = task
    BY Zenon, <1>18 DEF DropStarts, dnsVars, history
  <2>0. allows' = IF said = "allow" THEN [allows EXCEPT ![name] = 0] ELSE allows
    BY Zenon, <1>18 DEF DropStarts
  <2>2. \A n \in Names : allows'[n] = allows[n] \/ allows'[n] = 0
    BY Zenon, <2>0, <1>e
  <2>3. revoked' => ~AllowInFlight' /\ \A n \in Names : ~InSession(allows, n)'
    <3>1. AllowInFlight' <=> AllowInFlight
      BY Zenon, <2>1 DEF AllowInFlight
    <3>2. \A n \in Names : ~InSession(allows, n) => ~InSession(allows, n)'
      BY <2>1, <2>2, <1>b DEF InSession
    <3> QED BY Zenon, <2>1, <3>1, <3>2 DEF RevokeInv
  <2>4. drop'.quiet = ~AllowInFlight /\ drop'.name = name /\ drop'.said = said
    BY Zenon, <1>18 DEF DropStarts
  <2>5. said = "allow" => allows'[name] = 0
    BY Zenon, <2>0, <1>e
  <2>6. ~AllowInFlight => ~ToldAllow'
    BY Zenon, <2>1 DEF AllowInFlight, ToldAllow
  <2> QED BY Zenon, <2>3, <2>4, <2>5, <2>6 DEF RevokeInv
<1>19. ASSUME DropRuns PROVE RevokeInv'
  <2>1. /\ now' = now /\ allows' = allows /\ query' = query
        /\ jobs' = jobs /\ task' = task /\ drop'.step = "ran" /\ drop.step = "run"
    BY Zenon, <1>19 DEF DropRuns, listVars, dnsVars
  <2>2. AllowInFlight' <=> AllowInFlight
    BY Zenon, <2>1 DEF AllowInFlight
  <2>3. \A n \in Names : InSession(allows, n)' <=> InSession(allows, n)
    BY Zenon, <2>1 DEF InSession
  <2>4. revoked' => ~AllowInFlight /\ \A n \in Names : ~InSession(allows, n)
    <3>1. CASE revoked
      BY Zenon, <3>1 DEF RevokeInv
    <3>2. CASE ~revoked /\ revoked'
      <4>1. /\ drop.said = "allow" /\ drop.quiet /\ ~AllowInFlight
            /\ \A n \in Names \ {drop.name} : ~InSession(allows, n)
        BY Zenon, <1>19, <3>2 DEF DropRuns
      <4>2. allows[drop.name] = 0
        BY Zenon, <4>1, <2>1 DEF RevokeInv
      <4> QED BY SMTT(30), <4>1, <4>2, <1>b DEF InSession
    <3> QED BY Zenon, <3>1, <3>2
  <2>5. ~(drop'.step = "run")
    BY Zenon, <2>1
  <2> QED BY Zenon, <2>2, <2>3, <2>4, <2>5 DEF RevokeInv
<1>20. ASSUME DropEnds PROVE RevokeInv'
  BY Zenon, <1>20, <1>a, <1>b, RevokeFrame DEF DropEnds, NoDrop, dnsVars, history
<1>21. ASSUME Tick PROVE RevokeInv'
  BY <1>21, <1>a, <1>b, RevokeFrame DEF Tick, listVars, dnsVars, history
<1> QED
  BY Zenon, <1>1, <1>2, <1>3, <1>4, <1>5, <1>6, <1>7, <1>8, <1>9, <1>10, <1>11, <1>12,
     <1>13, <1>14, <1>15, <1>16, <1>17, <1>18, <1>19, <1>20, <1>21 DEF Next, Syn

-----------------------------------------------------------------------------
(* Types, once more: what TypeOK speaks of and GateType leaves open.       *)

Cached == [said : Verdicts, expire : Nat]

PlainType ==
  /\ up \in BOOLEAN
  /\ conn \in [Flows -> {"none", "syn", "open", "refused"}]
  /\ query \in {"none", "learn", "record"}
  /\ cache \in [Flows -> Cached]

\* A record's ports are those of the calls that add them, and it outlives its
\* rules.
PortType ==
  /\ \A ip \in IPs : learned[ip].ports \subseteq {"all", "port"}
  /\ \A ip \in IPs : learned[ip].rule <= learned[ip].expire
  /\ \A j \in jobs : j.call = "allow" => j.of \in {"all", "port"}
  /\ \A j \in jobs : j.call = "reject" => j.of \in Flows \cup {"any"}

ListBound == \A n \in Names : allows[n] <= Forever /\ denies[n] <= Forever

\* Every connection of INFLIGHT has its task.
InflightHeld ==
  \A f \in inflight : \E t \in Tasks : task[t].step # "none" /\ task[t].flow = f

ShapeInv == PlainType /\ PortType /\ ListBound /\ InflightHeld

LEMMA ShapeInit == Init => ShapeInv
<1> SUFFICES ASSUME Init PROVE ShapeInv
  OBVIOUS
<1>1. PlainType
  BY DEF Init, PlainType, Cached, Verdicts, NoVerdict
<1>2. PortType
  BY DEF Init, PortType, NoRec
<1>3. ListBound
  BY Constants DEF Init, ListBound
<1>4. InflightHeld
  BY Zenon DEF Init, InflightHeld
<1> QED BY Zenon, <1>1, <1>2, <1>3, <1>4 DEF ShapeInv

\* The end of a connection's SYN.
LEMMA EndsType ==
  ASSUME PlainType, NEW f \in Flows, NEW how \in {"open", "refused"}, Ends(f, how)
  PROVE  conn' \in [Flows -> {"none", "syn", "open", "refused"}]
BY DEF PlainType, Ends

LEMMA RememberType ==
  ASSUME GateType, PlainType, NEW f \in Flows, NEW said \in Verdicts, Remember(f, said)
  PROVE  cache' \in [Flows -> Cached]
<1>1. now + ShortTtl \in Nat
  BY Constants DEF GateType
<1>2. [said |-> said, expire |-> now + ShortTtl] \in Cached
  BY Zenon, <1>1 DEF Cached
<1> QED BY Zenon, <1>2 DEF Remember, PlainType

\* What the task that awaits a call holds.
LEMMA AwaitType ==
  ASSUME GateType, TaskInv, NEW j \in jobs, j.task # 0
  PROVE  /\ j.task \in Tasks /\ task[j.task].step = "apply"
         /\ task[j.task].flow \in Flows
<1>1. j.task \in Tasks /\ task[j.task].step = "apply"
  BY Zenon DEF GateType, Job, TaskInv
<1> QED BY Zenon, <1>1, HeldFields DEF GateType

LEMMA PlainStep ==
  ASSUME GateType, TaskInv, PlainType, Next
  PROVE  PlainType'
<1>a. "allow" \in Verdicts /\ "deny" \in Verdicts /\ NoVerdict \in Cached
  BY DEF Verdicts, NoVerdict, Cached
<1>1. ASSUME NEW f \in Flows, Connect(f) PROVE PlainType'
  BY Zenon, <1>1 DEF Connect, listVars, dnsVars, PlainType
<1>2. ASSUME NEW f \in Flows, SynMeetsRule(f) PROVE PlainType'
  BY Zenon, <1>2, EndsType DEF SynMeetsRule, listVars, dnsVars, PlainType
<1>3. ASSUME NEW f \in Flows, SynWithoutConsent(f) PROVE PlainType'
  BY Zenon, <1>3, EndsType DEF SynWithoutConsent, listVars, dnsVars, PlainType
<1>4. ASSUME NEW f \in Flows, SynMeetsCache(f) PROVE PlainType'
  BY Zenon, <1>4, EndsType DEF SynMeetsCache, listVars, dnsVars, PlainType
<1>5. ASSUME NEW f \in Flows, SynMeetsAllow(f) PROVE PlainType'
  BY Zenon, <1>5, <1>a, EndsType, RememberType DEF SynMeetsAllow, dnsVars, PlainType
<1>6. ASSUME NEW f \in Flows, SynMeetsDeny(f) PROVE PlainType'
  BY Zenon, <1>6, <1>a, EndsType, RememberType DEF SynMeetsDeny, dnsVars, PlainType
<1>7. ASSUME NEW f \in Flows, SynIsHeld(f) PROVE PlainType'
  BY Zenon, <1>7 DEF SynIsHeld, listVars, dnsVars, PlainType
<1>8. ASSUME NEW t \in Tasks, NEW said \in {"allow", "deny"}, NEW dur \in Durations,
             Verdict(t, said, dur)
      PROVE  PlainType'
  BY Zenon, <1>8 DEF Verdict, listVars, dnsVars, PlainType
<1>9. ASSUME NEW t \in Tasks, RequestTimesOut(t) PROVE PlainType'
  BY Zenon, <1>9 DEF RequestTimesOut, listVars, dnsVars, PlainType
<1>10. ASSUME Disconnect PROVE PlainType'
  BY Zenon, <1>10, <1>a DEF Disconnect, dnsVars, PlainType
<1>11. ASSUME Reconnect PROVE PlainType'
  BY Zenon, <1>11 DEF Reconnect, listVars, dnsVars, PlainType
<1>12. ASSUME NEW t \in Tasks, TaskWakes(t) PROVE PlainType'
  <2>1. task[t].flow \in Flows /\ task[t].said \in Verdicts
    BY Zenon, <1>12, HeldFields DEF TaskWakes, GateType, Held
  <2>2. cache' \in [Flows -> Cached]
    BY Zenon, <1>12, <2>1, RememberType DEF TaskWakes
  <2>3. conn' \in [Flows -> {"none", "syn", "open", "refused"}]
    BY Zenon, <1>12, <2>1, EndsType DEF TaskWakes, PlainType
  <2> QED BY Zenon, <1>12, <2>2, <2>3 DEF TaskWakes, dnsVars, PlainType
<1>13. ASSUME NEW j \in jobs, RunJob(j) PROVE PlainType'
  <2>1. conn' \in [Flows -> {"none", "syn", "open", "refused"}]
    BY Zenon, <1>13, AwaitType, EndsType DEF RunJob, PlainType
  <2> QED BY Zenon, <1>13, <2>1 DEF RunJob, listVars, dnsVars, PlainType
<1>14. ASSUME Sweep PROVE PlainType'
  BY Zenon, <1>14 DEF Sweep, listVars, dnsVars, PlainType
<1>15. ASSUME Query PROVE PlainType'
  BY Zenon, <1>15 DEF Query, listVars, PlainType
<1>16. ASSUME QueryFails PROVE PlainType'
  BY Zenon, <1>16 DEF QueryFails, listVars, PlainType
<1>17. ASSUME NEW ip \in IPs, QueryAnswered(ip) PROVE PlainType'
  BY Zenon, <1>17 DEF QueryAnswered, listVars, PlainType
<1>18. ASSUME NEW name \in Names, NEW said \in {"allow", "deny"}, DropStarts(name, said)
       PROVE  PlainType'
  BY Zenon, <1>18 DEF DropStarts, dnsVars, PlainType
<1>19. ASSUME DropRuns PROVE PlainType'
  BY Zenon, <1>19 DEF DropRuns, listVars, dnsVars, PlainType
<1>20. ASSUME DropEnds PROVE PlainType'
  BY Zenon, <1>20, <1>a DEF DropEnds, dnsVars, PlainType
<1>21. ASSUME Tick PROVE PlainType'
  BY Zenon, <1>21 DEF Tick, listVars, dnsVars, PlainType
<1> QED
  BY Zenon, <1>1, <1>2, <1>3, <1>4, <1>5, <1>6, <1>7, <1>8, <1>9, <1>10, <1>11, <1>12,
     <1>13, <1>14, <1>15, <1>16, <1>17, <1>18, <1>19, <1>20, <1>21 DEF Next, Syn

LEMMA PortFrame ==
  ASSUME PortType, learned' = learned,
         \A j \in jobs' : \/ j \in jobs
                          \/ j.call = "allow" /\ j.of \in {"all", "port"}
                          \/ j.call = "reject" /\ j.of \in Flows \cup {"any"}
                          \/ j.call = "record"
  PROVE  PortType'
BY Zenon DEF PortType

\* What a call that runs does to the records.
LEMMA RunLearned ==
  ASSUME NEW j \in jobs, RunJob(j)
  PROVE  \/ j.call = "allow" /\ RecordAllow(j.ip, j.of, now + j.ttl)
         \/ j.call = "reject" /\ learned' = learned
         \/ j.call = "record" /\ RecordHost(j.ip)
BY Zenon DEF RunJob, Allow, RejectFor

LEMMA PortStep ==
  ASSUME GateType, PortType, Next
  PROVE  PortType'
<1>a. \A ip \in IPs : learned[ip].rule \in Nat /\ learned[ip].expire \in Nat
  BY Zenon DEF GateType, Record
<1>b. now \in Nat /\ DnsTtl \in Nat
  BY Constants DEF GateType
<1>3. ASSUME NEW f \in Flows, SynWithoutConsent(f) PROVE PortType'
  BY <1>3, PortFrame DEF SynWithoutConsent, RejectJob, ruleVars
<1>5. ASSUME NEW f \in Flows, SynMeetsAllow(f) PROVE PortType'
  BY <1>5, PortFrame DEF SynMeetsAllow, AllowJob, ruleVars
<1>6. ASSUME NEW f \in Flows, SynMeetsDeny(f) PROVE PortType'
  BY <1>6, PortFrame DEF SynMeetsDeny, RejectJob, ruleVars
<1>12. ASSUME NEW t \in Tasks, TaskWakes(t) PROVE PortType'
  <2>1. task[t].flow \in Flows
    BY Zenon, <1>12, HeldFields DEF TaskWakes, GateType
  <2> DEFINE w == task[t]
             yes == AllowJob(DstOf[w.flow], "all", Ttl(w.dur))
             no(ttl) == RejectJob(DstOf[w.flow], DenyScope(w.flow, w.dur), ttl)
  <2>2. [yes EXCEPT !.task = t].call = "allow" /\ [yes EXCEPT !.task = t].of = "all"
    BY Zenon DEF AllowJob
  <2>3. \A ttl : /\ [no(ttl) EXCEPT !.task = t].call = "reject"
                 /\ [no(ttl) EXCEPT !.task = t].of \in Flows \cup {"any"}
    BY Zenon, <2>1 DEF RejectJob, DenyScope
  <2>4. learned' = learned
    BY Zenon, <1>12 DEF TaskWakes, ruleVars
  <2>5. \/ jobs' = jobs
        \/ jobs' = jobs \cup {[yes EXCEPT !.task = t]}
        \/ \E ttl : jobs' = jobs \cup {[no(ttl) EXCEPT !.task = t]}
    <3>1. CASE task[t].said = "allow"
      BY Zenon, <1>12, <3>1 DEF TaskWakes
    <3>2. CASE task[t].said # "allow"
      BY Zenon, <1>12, <3>2 DEF TaskWakes
    <3> QED BY Zenon, <3>1, <3>2
  <2> HIDE DEF yes, no
  <2> QED BY Zenon, <2>2, <2>3, <2>4, <2>5, PortFrame
<1>13. ASSUME NEW j \in jobs, RunJob(j) PROVE PortType'
  <2>1. jobs' \subseteq jobs /\ j.ip \in IPs /\ j.ttl \in Nat
    BY Zenon, <1>13 DEF RunJob, GateType, Job
  <2>2. CASE learned' = learned
    BY Zenon, <2>1, <2>2, PortFrame
  <2>3. CASE j.call = "allow" /\ RecordAllow(j.ip, j.of, now + j.ttl)
    <3>1. /\ learned'[j.ip].ports = learned[j.ip].ports \cup {j.of}
          /\ learned'[j.ip].rule = Later(learned[j.ip].rule, now + j.ttl)
          /\ learned'[j.ip].expire = Later(learned[j.ip].expire, now + j.ttl)
          /\ \A ip \in IPs \ {j.ip} : learned'[ip] = learned[ip]
      BY Zenon, <2>3, <2>1 DEF RecordAllow, GateType
    <3>2. j.of \in {"all", "port"}
      BY Zenon, <2>3 DEF PortType
    <3>3. learned'[j.ip].rule <= learned'[j.ip].expire
      BY SMTT(30), <3>1, <2>1, <1>a, <1>b DEF PortType, Later
    <3> QED BY Zenon, <2>1, <3>1, <3>2, <3>3 DEF PortType
  <2>4. CASE RecordHost(j.ip)
    <3>1. /\ learned'[j.ip].ports = learned[j.ip].ports
          /\ learned'[j.ip].rule = learned[j.ip].rule
          /\ learned'[j.ip].expire = Later(learned[j.ip].expire, now + DnsTtl)
          /\ \A ip \in IPs \ {j.ip} : learned'[ip] = learned[ip]
      BY Zenon, <2>4, <2>1 DEF RecordHost, GateType
    <3>3. learned'[j.ip].rule <= learned'[j.ip].expire
      BY <3>1, <2>1, <1>a, <1>b DEF PortType, Later
    <3> QED BY Zenon, <2>1, <3>1, <3>3 DEF PortType
  <2> QED BY Zenon, <1>13, <2>2, <2>3, <2>4, RunLearned
<1>14. ASSUME Sweep PROVE PortType'
  <2>1. \A ip \in IPs : \/ learned'[ip] = NoRec \/ learned'[ip] = learned[ip]
                        \/ learned'[ip] = [learned[ip] EXCEPT !.ports = {}]
    BY Zenon, <1>14 DEF Sweep
  <2>2. \A ip \in IPs : LET r == [learned[ip] EXCEPT !.ports = {}] IN
          r.ports = {} /\ r.rule = learned[ip].rule /\ r.expire = learned[ip].expire
    BY Zenon DEF GateType, Record
  <2>3. NoRec.ports = {} /\ NoRec.rule <= NoRec.expire
    BY DEF NoRec
  <2>4. jobs' = jobs
    BY Zenon, <1>14 DEF Sweep
  <2> QED BY ZenonT(30), <2>1, <2>2, <2>3, <2>4 DEF PortType
<1>17. ASSUME NEW ip \in IPs, QueryAnswered(ip) PROVE PortType'
  <2>1. learned' = learned
    BY Zenon, <1>17 DEF QueryAnswered, ruleVars
  <2>2. \E ttl : \/ jobs' = jobs \cup {AllowJob(ip, "port", ttl)}
                 \/ jobs' = jobs \cup {[call |-> "record", ip |-> ip, of |-> "none",
                                        ttl |-> 0, task |-> 0]}
    BY Zenon, <1>17 DEF QueryAnswered
  <2> QED BY <2>1, <2>2, PortFrame DEF AllowJob
<1>19. ASSUME DropRuns PROVE PortType'
  <2>1. \A ip \in IPs : learned'[ip] = NoRec \/ learned'[ip] = learned[ip]
    BY Zenon, <1>19, DropLearned
  <2>2. NoRec.ports = {} /\ NoRec.rule <= NoRec.expire
    BY DEF NoRec
  <2>3. jobs' = jobs
    BY Zenon, <1>19 DEF DropRuns
  <2> QED BY Zenon, <2>1, <2>2, <2>3 DEF PortType
<1>22. CASE learned' = learned /\ jobs' = jobs
  BY Zenon, <1>22, PortFrame
<1> QED
  BY Zenon, <1>3, <1>5, <1>6, <1>12, <1>13, <1>14, <1>17, <1>19, <1>22
     DEF Next, Syn, ruleVars, Connect, SynMeetsRule, SynMeetsCache, SynIsHeld, Verdict,
         RequestTimesOut, Disconnect, Reconnect, Query, QueryFails, DropStarts, DropEnds,
         Tick

\* The end of a verdict is within the clock.
LEMMA TtlBound ==
  ASSUME now \in 0 .. MaxTime, NEW dur \in Durations
  PROVE  now + Ttl(dur) <= Forever
BY Constants DEF Ttl, Durations, Forever

LEMMA ListStep ==
  ASSUME GateType, ListBound, Next
  PROVE  ListBound'
<1>1. CASE allows' = allows /\ denies' = denies
  BY Zenon, <1>1 DEF ListBound, Forever
<1>12. ASSUME NEW t \in Tasks, TaskWakes(t) PROVE ListBound'
  <2> DEFINE until == now + Ttl(task[t].dur)
             name == task[t].name
  <2>1. name \in Names /\ until <= Forever /\ until \in Nat
    BY Zenon, <1>12, HeldFields, TtlBound, TtlType DEF TaskWakes, GateType
  <2>2. \A n \in Names : Later(allows[n], until) <= Forever
    BY Zenon, <2>1 DEF ListBound, Later
  <2>3. \A n \in Names : Later(denies[n], until) <= Forever
    BY Zenon, <2>1 DEF ListBound, Later
  <2>4. allows' = allows \/ allows' = [allows EXCEPT ![name] = Later(@, until)]
    BY Zenon, <1>12 DEF TaskWakes
  <2>5. denies' = denies \/ denies' = [denies EXCEPT ![name] = Later(@, until)]
    BY Zenon, <1>12 DEF TaskWakes
  <2> HIDE DEF until, name
  <2> QED BY Zenon, <2>1, <2>2, <2>3, <2>4, <2>5 DEF ListBound, GateType, Forever
<1>18. ASSUME NEW name \in Names, NEW said \in {"allow", "deny"}, DropStarts(name, said)
       PROVE  ListBound'
  <2>1. 0 <= Forever
    BY Constants
  <2>2. allows' = allows \/ allows' = [allows EXCEPT ![name] = 0]
    BY Zenon, <1>18 DEF DropStarts
  <2>3. denies' = denies \/ denies' = [denies EXCEPT ![name] = 0]
    BY Zenon, <1>18 DEF DropStarts
  <2> QED BY Zenon, <2>1, <2>2, <2>3 DEF ListBound, GateType, Forever
<1>13. ASSUME NEW j \in jobs, RunJob(j) PROVE ListBound'
  BY Zenon, <1>1, <1>13 DEF RunJob, listVars
<1>14. ASSUME Sweep PROVE ListBound'
  BY Zenon, <1>1, <1>14 DEF Sweep, listVars
<1>19. ASSUME DropRuns PROVE ListBound'
  BY Zenon, <1>1, <1>19 DEF DropRuns, listVars
<1> QED
  BY Zenon, <1>1, <1>12, <1>13, <1>14, <1>18, <1>19
     DEF Next, Syn, listVars, Connect, SynMeetsRule, SynWithoutConsent, SynMeetsCache,
         SynMeetsAllow, SynMeetsDeny, SynIsHeld, Verdict, RequestTimesOut, Disconnect,
         Reconnect, Query, QueryAnswered, QueryFails, DropEnds, Tick

\* A task that stays keeps its connection in INFLIGHT.
LEMMA InflightFrame ==
  ASSUME InflightHeld, inflight' \subseteq inflight,
         \A t \in Tasks : task[t].step # "none" /\ task[t].flow \in inflight'
           => task'[t].step # "none" /\ task'[t].flow = task[t].flow
  PROVE  InflightHeld'
BY Zenon DEF InflightHeld

LEMMA InflightStep ==
  ASSUME GateType, TaskInv, InflightHeld, Next
  PROVE  InflightHeld'
<1>1. CASE inflight' = inflight /\ task' = task
  BY Zenon, <1>1, InflightFrame
<1>7. ASSUME NEW f \in Flows, SynIsHeld(f) PROVE InflightHeld'
  <2> DEFINE new == [step |-> "ask", flow |-> f, name |-> HostFor(DstOf[f]),
                     said |-> "none", dur |-> "once"]
  <2>1. PICK t \in Tasks : task[t].step = "none" /\ task' = [task EXCEPT ![t] = new]
    BY Zenon, <1>7 DEF SynIsHeld
  <2>2. inflight' = inflight \cup {f}
    BY Zenon, <1>7 DEF SynIsHeld
  <2>3. /\ task'[t].flow = f /\ task'[t].step = "ask"
        /\ \A s \in Tasks \ {t} : task'[s] = task[s]
    BY Zenon, <2>1 DEF GateType
  <2> HIDE DEF new
  <2>4. \A s \in Tasks : task[s].step # "none" => task'[s] = task[s]
    BY Zenon, <2>1, <2>3
  <2>5. task'[t].step # "none"
    BY Zenon, <2>3
  <2> QED BY ZenonT(30), <2>2, <2>3, <2>4, <2>5 DEF InflightHeld
<1>8. ASSUME NEW t \in Tasks, NEW said \in {"allow", "deny"}, NEW dur \in Durations,
             Verdict(t, said, dur)
      PROVE  InflightHeld'
  BY Zenon, <1>8, InflightFrame DEF Verdict, Told, GateType
<1>9. ASSUME NEW t \in Tasks, RequestTimesOut(t) PROVE InflightHeld'
  BY Zenon, <1>9, InflightFrame DEF RequestTimesOut, Told, GateType
<1>10. ASSUME Disconnect PROVE InflightHeld'
  BY Zenon, <1>10, InflightFrame DEF Disconnect, Told, GateType
<1>12. ASSUME NEW t \in Tasks, TaskWakes(t) PROVE InflightHeld'
  <2>1. task[t].step = "told" /\ task[t] \in Held
    BY Zenon, <1>12, HeldFields DEF TaskWakes, GateType
  <2>2. CASE task[t].said = "allow" /\ task[t].dur = "once"
    <3>1. /\ task' = [task EXCEPT ![t] = NoTask]
          /\ inflight' = inflight \ {task[t].flow}
      BY Zenon, <1>12, <2>2 DEF TaskWakes
    <3> QED BY Zenon, <3>1, InflightFrame DEF GateType
  <2>3. CASE ~(task[t].said = "allow" /\ task[t].dur = "once")
    <3>1. /\ task' = [task EXCEPT ![t].step = "apply"]
          /\ inflight' = inflight
      BY Zenon, <1>12, <2>3 DEF TaskWakes
    <3>2. task'[t].step = "apply" /\ task'[t].flow = task[t].flow
      BY Zenon, <2>1, <3>1 DEF GateType, Held
    <3>3. \A s \in Tasks \ {t} : task'[s] = task[s]
      BY Zenon, <3>1 DEF GateType
    <3> QED BY Zenon, <3>1, <3>2, <3>3, InflightFrame
  <2> QED BY Zenon, <2>2, <2>3
<1>13. ASSUME NEW j \in jobs, RunJob(j) PROVE InflightHeld'
  <2>1. CASE j.task = 0
    BY Zenon, <1>1, <1>13, <2>1 DEF RunJob
  <2>2. CASE j.task # 0
    <3>1. /\ task' = [task EXCEPT ![j.task] = NoTask]
          /\ inflight' = inflight \ {task[j.task].flow}
      BY Zenon, <1>13, <2>2 DEF RunJob
    <3> QED BY Zenon, <2>2, <3>1, AwaitType, InflightFrame DEF GateType
  <2> QED BY Zenon, <2>1, <2>2
<1>14. ASSUME Sweep PROVE InflightHeld'
  BY Zenon, <1>1, <1>14 DEF Sweep
<1>19. ASSUME DropRuns PROVE InflightHeld'
  BY Zenon, <1>1, <1>19 DEF DropRuns
<1> QED
  BY Zenon, <1>1, <1>7, <1>8, <1>9, <1>10, <1>12, <1>13, <1>14, <1>19
     DEF Next, Syn, Connect, SynMeetsRule, SynWithoutConsent, SynMeetsCache,
         SynMeetsAllow, SynMeetsDeny, Reconnect, Query, QueryAnswered, QueryFails,
         DropStarts, DropEnds, Tick

LEMMA ShapeStep ==
  ASSUME GateInv, ShapeInv, [Next]_vars
  PROVE  ShapeInv'
<1>1. CASE Next
  BY Zenon, <1>1, PlainStep, PortStep, ListStep, InflightStep DEF GateInv, ShapeInv
<1>2. CASE UNCHANGED vars
  <2>1. PlainType'
    BY Zenon, <1>2 DEF vars, listVars, dnsVars, PlainType, ShapeInv
  <2>2. PortType'
    BY Zenon, <1>2 DEF vars, ruleVars, PortType, ShapeInv
  <2>3. ListBound'
    BY Zenon, <1>2 DEF vars, listVars, ListBound, Forever, ShapeInv
  <2>4. InflightHeld'
    BY Zenon, <1>2 DEF vars, InflightHeld, ShapeInv
  <2> QED BY Zenon, <2>1, <2>2, <2>3, <2>4 DEF ShapeInv
<1> QED BY Zenon, <1>1, <1>2

\* What the sidecar's state looks like.
LEMMA ShapeType == GateInv /\ ShapeInv => TypeOK
<1> SUFFICES ASSUME GateInv, ShapeInv PROVE TypeOK
  OBVIOUS
<1>1. allows \in [Names -> 0 .. Forever] /\ denies \in [Names -> 0 .. Forever]
  BY Constants DEF GateInv, GateType, ShapeInv, ListBound
<1>2. \A f \in Flows : cache[f].said \in Verdicts
  BY Zenon DEF ShapeInv, PlainType, Cached
<1>3. inflight = {task[t].flow : t \in {u \in Tasks : task[u].step # "none"}}
  <2>1. inflight \subseteq {task[t].flow : t \in {u \in Tasks : task[u].step # "none"}}
    BY Zenon DEF ShapeInv, InflightHeld
  <2>2. {task[t].flow : t \in {u \in Tasks : task[u].step # "none"}} \subseteq inflight
    BY Zenon DEF GateInv, TaskInv
  <2> QED BY Zenon, <2>1, <2>2
<1>4. drop.step \in {"none", "run", "ran"}
  BY DEF GateInv, GateType, Dropping, NoDrop
<1> QED BY Zenon, <1>1, <1>2, <1>3, <1>4
           DEF TypeOK, GateInv, GateType, ShapeInv, PlainType, PortType

-----------------------------------------------------------------------------
(* The chain and the records that will remove its rules.                   *)

Rule == [kind : {"ACCEPT", "REJECT"}, ip : IPs, of : Scopes]
RulesOf(ips) == {Accept(ip, p) : ip \in ips, p \in {"all", "port"}}
Rejects == {r \in Rule : r.kind = "REJECT"}

RecordInv ==
  /\ chain \in Seq(Rule)
  /\ DOMAIN rejected \subseteq Rejects
  /\ RulesHaveRecords

\* The rules for the ports of the records, and no rule of another kind.
LEMMA AcceptsAre ==
  /\ \A r : r \in Accepts <=> \E ip \in IPs : \E p \in learned[ip].ports : r = Accept(ip, p)
  /\ \A r \in Accepts : r.kind = "ACCEPT"
<1>1. \A r : r \in Accepts <=> \E ip \in IPs : \E p \in learned[ip].ports : r = Accept(ip, p)
  BY SMTT(30) DEF Accepts
<1> QED BY SMTT(30), <1>1 DEF Accept

LEMMA RuleFields ==
  /\ \A ip, p : Accept(ip, p).kind = "ACCEPT" /\ Reject(ip, p).kind = "REJECT"
  /\ \A ip, p : Accept(ip, p).ip = ip /\ Accept(ip, p).of = p
  /\ \A ip, p : Reject(ip, p).ip = ip /\ Reject(ip, p).of = p
BY Zenon DEF Accept, Reject

LEMMA RuleTypes ==
  ASSUME NEW ip \in IPs, NEW p \in Scopes
  PROVE  Accept(ip, p) \in Rule /\ Reject(ip, p) \in Rejects
BY Zenon DEF Accept, Reject, Rule, Rejects

\* install and install_reject add one rule, at most once.
LEMMA InsertRange ==
  ASSUME NEW s \in Seq(Rule), IsInjective(s), NEW r \in Rule
  PROVE  /\ Insert(r, s) \in Seq(Rule)
         /\ IsInjective(Insert(r, s))
         /\ Range(Insert(r, s)) = Range(s) \cup {r}
<1>1. CASE r \in Range(s)
  BY Zenon, <1>1 DEF Insert
<1>2. CASE r \notin Range(s)
  <2>1. Insert(r, s) = <<r>> \o s
    BY Zenon, <1>2 DEF Insert
  <2>2. /\ <<r>> \o s \in Seq(Rule) /\ IsInjective(<<r>> \o s)
        /\ Range(<<r>> \o s) = {r} \cup Range(s)
    BY Zenon, <1>2, PrependNew
  <2> QED BY Zenon, <2>1, <2>2
<1> QED BY Zenon, <1>1, <1>2

LEMMA DeleteRange ==
  ASSUME WellOrdered, NEW s \in Seq(Rule), IsInjective(s), NEW gone
  PROVE  /\ Delete(gone, s) \in Seq(Rule)
         /\ IsInjective(Delete(gone, s))
         /\ Range(Delete(gone, s)) = Range(s) \ gone
BY Zenon, FilterType DEF Delete

LEMMA ChainIs ==
  ASSUME RecordInv
  PROVE  /\ chain \in Seq(Rule) /\ IsInjective(chain)
         /\ Range(chain) = Accepts \cup DOMAIN rejected
BY Zenon DEF RecordInv, RulesHaveRecords

LEMMA RecordIs ==
  ASSUME chain \in Seq(Rule), IsInjective(chain), DOMAIN rejected \subseteq Rejects,
         Range(chain) = Accepts \cup DOMAIN rejected
  PROVE  RecordInv
BY Zenon DEF RecordInv, RulesHaveRecords

\* Rules of addresses and REJECTs go together with their records.
LEMMA RecordsDrop ==
  ASSUME WellOrdered, RecordInv, PortType, NEW ips \in SUBSET IPs,
         NEW old \in SUBSET DOMAIN rejected, NEW gone,
         gone = RulesOf(ips) \cup old,
         \A ip \in ips : learned'[ip].ports = {},
         \A ip \in IPs \ ips : learned'[ip].ports = learned[ip].ports,
         DOMAIN rejected' = DOMAIN rejected \ old,
         chain' = Delete(gone, chain)
  PROVE  RecordInv'
<1>1. /\ chain' \in Seq(Rule) /\ IsInjective(chain')
      /\ Range(chain') = (Accepts \cup DOMAIN rejected) \ gone
  BY Zenon, ChainIs, DeleteRange
<1>2. /\ \A r \in Accepts : r.kind = "ACCEPT"
      /\ \A r \in DOMAIN rejected : r.kind = "REJECT"
      /\ \A r \in gone : r \in old \/ r.kind = "ACCEPT"
  <2>1. \A r \in DOMAIN rejected : r.kind = "REJECT"
    BY Zenon DEF RecordInv, Rejects
  <2> QED BY SMTT(60), <2>1, AcceptsAre, RuleFields DEF RulesOf
<1>3. Accepts' = Accepts \ gone
  <2>1. ASSUME NEW r \in Accepts' PROVE r \in Accepts \ gone
    <3>1. PICK ip \in IPs : \E p \in learned'[ip].ports : r = Accept(ip, p)
      BY Zenon, <2>1 DEF Accepts
    <3>2. PICK p \in learned'[ip].ports : r = Accept(ip, p)
      BY Zenon, <3>1
    <3>3. ip \notin ips /\ p \in learned[ip].ports
      BY Zenon, <3>2
    <3>4. r \in Accepts
      BY Zenon, <3>2, <3>3, AcceptsAre
    <3>5. r \notin gone
      <4>1. r \notin old
        BY Zenon, <3>4, <1>2
      <4>2. r.ip = ip
        BY Zenon, <3>2, RuleFields
      <4> QED BY SMTT(30), <4>1, <4>2, <3>3, RuleFields DEF RulesOf
    <3> QED BY Zenon, <3>4, <3>5
  <2>2. ASSUME NEW r \in Accepts, r \notin gone PROVE r \in Accepts'
    <3>1. PICK ip \in IPs : \E p \in learned[ip].ports : r = Accept(ip, p)
      BY Zenon, <2>2 DEF Accepts
    <3>2. PICK p \in learned[ip].ports : r = Accept(ip, p)
      BY Zenon, <3>1
    <3>3. p \in {"all", "port"}
      BY Zenon DEF PortType
    <3>4. ip \notin ips
      BY SMTT(30), <2>2, <3>2, <3>3 DEF RulesOf
    <3>5. p \in learned'[ip].ports
      BY Zenon, <3>4
    <3> QED BY SMTT(30), <3>2, <3>5 DEF Accepts
  <2> QED BY Zenon, <2>1, <2>2
<1>4. Range(chain') = Accepts' \cup DOMAIN rejected'
  <2>1. \A r \in DOMAIN rejected : r \in gone <=> r \in old
    BY SMTT(30), <1>2
  <2> QED BY Zenon, <1>1, <1>3, <2>1
<1>5. DOMAIN rejected' \subseteq Rejects
  BY Zenon DEF RecordInv
<1> QED BY Zenon, <1>1, <1>4, <1>5 DEF RecordInv, RulesHaveRecords

LEMMA RecordFrame ==
  ASSUME RecordInv, chain' = chain, rejected' = rejected,
         \A ip \in IPs : learned'[ip].ports = learned[ip].ports
  PROVE  RecordInv'
<1>1. Accepts' = Accepts
  BY ZenonT(30) DEF Accepts
<1> QED BY Zenon, <1>1 DEF RecordInv, RulesHaveRecords

\* allow: one ACCEPT more, the REJECTs of its address gone with their keys.
LEMMA AllowRecords ==
  ASSUME WellOrdered, GateType, RecordInv, NEW ip \in IPs, NEW p \in Scopes, NEW ttl,
         Allow(ip, p, ttl)
  PROVE  RecordInv'
<1>1. PICK gone \in SUBSET DOMAIN rejected :
        /\ chain' = Delete(gone, Insert(Accept(ip, p), chain))
        /\ rejected' = Restrict(rejected, DOMAIN rejected \ gone)
  <2> DEFINE gone == IF p = "all" THEN {r \in DOMAIN rejected : r.ip = ip} ELSE {}
  <2>1. gone \in SUBSET DOMAIN rejected
    BY Zenon
  <2> QED BY Zenon, <2>1 DEF Allow
<1>2. /\ learned'[ip].ports = learned[ip].ports \cup {p}
      /\ \A i \in IPs \ {ip} : learned'[i] = learned[i]
  BY Zenon DEF Allow, RecordAllow, GateType
<1>3. /\ chain' \in Seq(Rule) /\ IsInjective(chain')
      /\ Range(chain') = ((Accepts \cup DOMAIN rejected) \cup {Accept(ip, p)}) \ gone
  <2>1. Accept(ip, p) \in Rule
    BY Zenon, RuleTypes
  <2>2. /\ Insert(Accept(ip, p), chain) \in Seq(Rule)
        /\ IsInjective(Insert(Accept(ip, p), chain))
        /\ Range(Insert(Accept(ip, p), chain)) = Range(chain) \cup {Accept(ip, p)}
    BY Zenon, <2>1, ChainIs, InsertRange
  <2>3. PICK longer : longer = Insert(Accept(ip, p), chain)
    BY Zenon
  <2>4. /\ longer \in Seq(Rule) /\ IsInjective(longer)
        /\ Range(longer) = (Accepts \cup DOMAIN rejected) \cup {Accept(ip, p)}
    BY Zenon, <2>2, <2>3, ChainIs
  <2>5. chain' = Delete(gone, longer)
    BY Zenon, <1>1, <2>3
  <2> QED BY Zenon, <2>4, <2>5, DeleteRange
<1>4. Accepts' = Accepts \cup {Accept(ip, p)}
  <2>1. ASSUME NEW r \in Accepts' PROVE r \in Accepts \cup {Accept(ip, p)}
    <3>1. PICK i \in IPs : \E q \in learned'[i].ports : r = Accept(i, q)
      BY SMTT(30), <2>1 DEF Accepts
    <3>2. PICK q \in learned'[i].ports : r = Accept(i, q)
      BY Zenon, <3>1
    <3>3. q \in learned[i].ports \/ (i = ip /\ q = p)
      BY Zenon, <1>2, <3>2
    <3> QED BY Zenon, <3>2, <3>3, AcceptsAre
  <2>2. ASSUME NEW r \in Accepts PROVE r \in Accepts'
    <3>1. PICK i \in IPs : \E q \in learned[i].ports : r = Accept(i, q)
      BY Zenon, <2>2, AcceptsAre
    <3>2. \E q \in learned'[i].ports : r = Accept(i, q)
      BY Zenon, <1>2, <3>1
    <3> QED BY SMTT(30), <3>2 DEF Accepts
  <2>3. Accept(ip, p) \in Accepts'
    <3>1. p \in learned'[ip].ports
      BY Zenon, <1>2
    <3> QED BY SMTT(30), <3>1 DEF Accepts
  <2> QED BY Zenon, <2>1, <2>2, <2>3
<1>5. \A r \in gone : r \notin Accepts /\ r # Accept(ip, p)
  <2>1. \A r \in gone : r.kind = "REJECT"
    BY Zenon, <1>1 DEF RecordInv, Rejects
  <2> QED BY SMTT(30), <2>1, AcceptsAre, RuleFields
<1>6. DOMAIN rejected' = DOMAIN rejected \ gone
  BY Zenon, <1>1 DEF Restrict
<1>7. Range(chain') = Accepts' \cup DOMAIN rejected'
  BY Zenon, <1>3, <1>4, <1>5, <1>6
<1>8. DOMAIN rejected' \subseteq Rejects
  BY Zenon, <1>6 DEF RecordInv
<1> QED BY Zenon, <1>3, <1>7, <1>8 DEF RecordInv, RulesHaveRecords

\* reject: one REJECT more, with its key.
LEMMA RejectRecords ==
  ASSUME RecordInv, NEW ip \in IPs, NEW p \in Scopes, NEW ttl, RejectFor(ip, p, ttl)
  PROVE  RecordInv'
<1>1. /\ chain' = Insert(Reject(ip, p), chain) /\ learned' = learned
      /\ DOMAIN rejected' = DOMAIN rejected \cup {Reject(ip, p)}
  BY Zenon DEF RejectFor
<1>2. Reject(ip, p) \in Rejects /\ Reject(ip, p) \in Rule
  BY Zenon, RuleTypes DEF Rejects
<1>3. /\ chain' \in Seq(Rule) /\ IsInjective(chain')
      /\ Range(chain') = (Accepts \cup DOMAIN rejected) \cup {Reject(ip, p)}
  BY Zenon, <1>1, <1>2, ChainIs, InsertRange
<1>4. Accepts' = Accepts
  BY SMTT(30), <1>1 DEF Accepts
<1>5. DOMAIN rejected' \subseteq Rejects
  BY Zenon, <1>1, <1>2 DEF RecordInv
<1>6. Range(chain') = Accepts' \cup DOMAIN rejected'
  BY Zenon, <1>1, <1>3, <1>4
<1> QED BY Zenon, <1>3, <1>5, <1>6 DEF RecordInv, RulesHaveRecords

LEMMA RecordStep ==
  ASSUME WellOrdered, GateType, PortType, RecordInv, Next
  PROVE  RecordInv'
<1>1. CASE UNCHANGED ruleVars
  BY Zenon, <1>1, RecordFrame DEF ruleVars
<1>13. ASSUME NEW j \in jobs, RunJob(j) PROVE RecordInv'
  <2>1. j.ip \in IPs /\ j.of \in Scopes
    BY Zenon DEF GateType, Job
  <2>2. CASE RecordHost(j.ip)
    <3>1. \A ip \in IPs : learned'[ip].ports = learned[ip].ports
      BY Zenon, <2>1, <2>2 DEF RecordHost, GateType
    <3> QED BY Zenon, <2>2, <3>1, RecordFrame DEF RecordHost
  <2> QED BY Zenon, <1>13, <2>1, <2>2, AllowRecords, RejectRecords DEF RunJob
<1>14. ASSUME Sweep PROVE RecordInv'
  <2> DEFINE ips == {ip \in IPs : learned[ip].ports # {} /\ learned[ip].rule <= now}
             old == {r \in DOMAIN rejected : rejected[r] <= now}
             gone == {Accept(ip, p) : ip \in ips, p \in {"all", "port"}} \cup old
  <2>1. chain' = Delete(gone, chain)
    BY SMTT(30), <1>14 DEF Sweep
  <2>2. DOMAIN rejected' = DOMAIN rejected \ old
    BY Zenon, <1>14 DEF Sweep, Restrict
  <2>3. \A ip \in IPs : [learned[ip] EXCEPT !.ports = {}].ports = {} /\ NoRec.ports = {}
    BY Zenon DEF GateType, Record, NoRec
  <2>4. \A ip \in ips : learned'[ip].ports = {}
    BY Zenon, <1>14, <2>3 DEF Sweep
  <2>5. \A ip \in IPs \ ips : learned'[ip].ports = learned[ip].ports
    BY Zenon, <1>14, <2>3 DEF Sweep
  <2>6. ips \in SUBSET IPs /\ old \in SUBSET DOMAIN rejected
    BY Zenon
  <2>7. gone = RulesOf(ips) \cup old
    BY SMTT(30) DEF RulesOf
  <2> HIDE DEF ips, old, gone
  <2> QED BY Zenon, <2>1, <2>2, <2>4, <2>5, <2>6, <2>7, RecordsDrop
<1>19. ASSUME DropRuns PROVE RecordInv'
  <2> DEFINE all == DropTargets(drop.name)
  <2>1. all \in SUBSET IPs /\ NoRec.ports = {}
    BY Zenon DEF DropTargets, NoRec
  <2>2. CASE drop.said = "allow"
    <3> DEFINE gone == {Accept(ip, p) : ip \in all, p \in {"all", "port"}}
    <3>1. chain' = Delete(gone, chain) /\ rejected' = rejected
      BY SMTT(30), <1>19, <2>2 DEF DropRuns
    <3>2. learned' = [ip \in IPs |-> IF ip \in all THEN NoRec ELSE learned[ip]]
      BY SMTT(30), <1>19, <2>2 DEF DropRuns
    <3> HIDE DEF all
    <3>3. \A ip \in all : learned'[ip].ports = {}
      BY Zenon, <2>1, <3>2
    <3>4. \A ip \in IPs \ all : learned'[ip].ports = learned[ip].ports
      BY Zenon, <3>2
    <3>5. /\ gone = RulesOf(all) \cup {}
          /\ DOMAIN rejected' = DOMAIN rejected \ {} /\ {} \in SUBSET DOMAIN rejected
      BY SMTT(30), <3>1 DEF RulesOf
    <3> HIDE DEF gone
    <3> QED BY Zenon, <2>1, <3>1, <3>3, <3>4, <3>5, RecordsDrop
  <2>3. CASE drop.said # "allow"
    <3> DEFINE old == {r \in DOMAIN rejected : r.ip \in all}
    <3>1. chain' = Delete(old, chain) /\ learned' = learned
      BY SMTT(30), <1>19, <2>3 DEF DropRuns
    <3>2. DOMAIN rejected' = DOMAIN rejected \ old
      BY SMTT(30), <1>19, <2>3 DEF DropRuns, Restrict
    <3>3. old = RulesOf({}) \cup old
      BY SMTT(30) DEF RulesOf
    <3>4. old \in SUBSET DOMAIN rejected /\ {} \in SUBSET IPs
      BY Zenon
    <3> HIDE DEF old
    <3>5. \A ip \in {} : learned'[ip].ports = {}
      BY Zenon
    <3>6. \A ip \in IPs \ {} : learned'[ip].ports = learned[ip].ports
      BY Zenon, <3>1
    <3> QED BY Zenon, <3>1, <3>2, <3>3, <3>4, <3>5, <3>6, RecordsDrop
  <2> QED BY Zenon, <2>2, <2>3
<1> QED
  BY Zenon, <1>1, <1>13, <1>14, <1>19
     DEF Next, Syn, Connect, SynMeetsRule, SynWithoutConsent, SynMeetsCache,
         SynMeetsAllow, SynMeetsDeny, SynIsHeld, Verdict, RequestTimesOut, TaskWakes,
         Disconnect, Reconnect, Query, QueryAnswered, QueryFails, DropStarts, DropEnds,
         Tick

-----------------------------------------------------------------------------
(* What a connection was settled by.                                       *)

\* A lasting verdict has been given, and the verdicts that may settle a
\* connection, or be behind a REJECT of a source port.
AllowGiven == \E n \in Names : <<n, "allow">> \in reasons
DenyGiven == \E n \in Names \cup {"outage"} : <<n, "deny">> \in reasons
Allowed(f) == \E n \in Names \cup {f} : <<n, "allow">> \in reasons
Denied(f) == \E n \in Names \cup {f, "outage"} : <<n, "deny">> \in reasons
Refusable(sport) == IF sport = "any" THEN DenyGiven ELSE Denied(sport)
Grounds(w) == <<IF w.dur = "once" THEN w.flow ELSE w.name, w.said>>

\* Whatever can settle a connection was put there by a verdict that may.
ReasonInv ==
  /\ OnceIsPerConnection
  /\ \A n \in Names : allows[n] > 0 => AllowGiven
  /\ \A n \in Names : denies[n] > 0 => DenyGiven
  /\ query = "learn" => AllowGiven
  /\ \A ip \in IPs : learned[ip].ports # {} => AllowGiven
  /\ \A r \in DOMAIN rejected : Refusable(r.of)
  /\ \A j \in jobs : j.call = "allow" => AllowGiven
  /\ \A j \in jobs : j.call = "reject" => Refusable(j.of)
  /\ \A f \in Flows : cache[f].said = "allow" => Allowed(f)
  /\ \A f \in Flows : cache[f].said = "deny" => Denied(f)
  /\ \A t \in Tasks : task[t].step \in {"told", "apply"} =>
       task[t].said \in {"allow", "deny"} /\ Grounds(task[t]) \in reasons

LEMMA ReasonInit == Init => ReasonInv
<1> SUFFICES ASSUME Init PROVE ReasonInv
  OBVIOUS
<1>1. \A n \in Names : ~(allows[n] > 0) /\ ~(denies[n] > 0)
  BY DEF Init
<1>2. OnceIsPerConnection
  BY Zenon DEF Init, OnceIsPerConnection
<1>3. DOMAIN rejected = {}
  BY Zenon DEF Init
<1> QED BY Zenon, <1>1, <1>2, <1>3 DEF Init, ReasonInv, NoRec, NoVerdict, NoTask

\* Verdicts are not forgotten, and a lasting one is for every connection.
LEMMA ReasonMono ==
  ASSUME reasons \subseteq reasons'
  PROVE  /\ AllowGiven => AllowGiven'
         /\ DenyGiven => DenyGiven'
         /\ \A f : Allowed(f) => Allowed(f)'
         /\ \A f : Denied(f) => Denied(f)'
         /\ \A f : Refusable(f) => Refusable(f)'
BY Zenon DEF AllowGiven, DenyGiven, Allowed, Denied, Refusable

LEMMA GivenIsFor ==
  /\ \A f : AllowGiven => Allowed(f)
  /\ \A f : DenyGiven => Denied(f)
  /\ \A f : DenyGiven => Refusable(f)
BY Zenon DEF AllowGiven, DenyGiven, Allowed, Denied, Refusable

Settled(f) ==
  /\ conn[f] = "open" => Allowed(f)
  /\ conn[f] = "refused" => Denied(f)
Remembered(f) ==
  /\ cache[f].said = "allow" => Allowed(f)
  /\ cache[f].said = "deny" => Denied(f)
Grounded(w) ==
  w.step \in {"told", "apply"} =>
    w.said \in {"allow", "deny"} /\ Grounds(w) \in reasons
CallFine(j) ==
  /\ j.call = "allow" => AllowGiven
  /\ j.call = "reject" => Refusable(j.of)

\* What a step must show of the pieces it changes.
LEMMA ReasonFrame ==
  ASSUME ReasonInv, reasons \subseteq reasons',
         \A f \in Flows : conn'[f] = conn[f] \/ Settled(f)',
         \A n \in Names : allows'[n] = allows[n] \/ ~(allows'[n] > 0) \/ AllowGiven',
         \A n \in Names : denies'[n] = denies[n] \/ ~(denies'[n] > 0) \/ DenyGiven',
         query' = query \/ query' # "learn" \/ AllowGiven',
         \A ip \in IPs : learned'[ip].ports \subseteq learned[ip].ports \/ AllowGiven',
         \A r \in DOMAIN rejected' : r \in DOMAIN rejected \/ Refusable(r.of)',
         \A j \in jobs' : j \in jobs \/ CallFine(j)',
         \A f \in Flows : cache'[f] = cache[f] \/ Remembered(f)',
         \A t \in Tasks : task'[t] = task[t] \/ Grounded(task[t])'
  PROVE  ReasonInv'
<1>a. /\ AllowGiven => AllowGiven'
      /\ DenyGiven => DenyGiven'
      /\ \A f : Allowed(f) => Allowed(f)'
      /\ \A f : Denied(f) => Denied(f)'
      /\ \A f : Refusable(f) => Refusable(f)'
  BY Zenon, ReasonMono
<1>1. OnceIsPerConnection'
  BY Zenon, <1>a DEF ReasonInv, OnceIsPerConnection, Settled, Allowed, Denied
<1>2. \A n \in Names : (allows'[n] > 0 => AllowGiven') /\ (denies'[n] > 0 => DenyGiven')
  BY Zenon, <1>a DEF ReasonInv
<1>3. query' = "learn" => AllowGiven'
  BY Zenon, <1>a DEF ReasonInv
<1>4. \A ip \in IPs : learned'[ip].ports # {} => AllowGiven'
  BY Zenon, <1>a DEF ReasonInv
<1>5. \A r \in DOMAIN rejected' : Refusable(r.of)'
  BY Zenon, <1>a DEF ReasonInv
<1>6. \A j \in jobs' : /\ j.call = "allow" => AllowGiven'
                       /\ j.call = "reject" => Refusable(j.of)'
  BY Zenon, <1>a DEF ReasonInv, CallFine
<1>7. \A f \in Flows : /\ cache'[f].said = "allow" => Allowed(f)'
                       /\ cache'[f].said = "deny" => Denied(f)'
  BY Zenon, <1>a DEF ReasonInv, Remembered
<1>8. \A t \in Tasks : task'[t].step \in {"told", "apply"} =>
        task'[t].said \in {"allow", "deny"} /\ Grounds(task'[t]) \in reasons'
  BY Zenon DEF ReasonInv, Grounded, Grounds
<1> QED BY Zenon, <1>1, <1>2, <1>3, <1>4, <1>5, <1>6, <1>7, <1>8 DEF ReasonInv, Grounds

\* The rule that decides a connection's SYN is one of the chain.
LEMMA FateIsRule ==
  ASSUME WellOrdered, RecordInv, NEW f \in Flows, Fate(f) # "queue"
  PROVE  \E r \in Range(chain) : Matches(r, f) /\ Fate(f) = r.kind
<1> DEFINE hits == {i \in DOMAIN chain : Matches(chain[i], f)}
           first == CHOOSE i \in hits : \A j \in hits : i <= j
<1>1. hits # {} /\ Fate(f) = chain[first].kind
  BY Zenon DEF Fate
<1>2. hits \in SUBSET Nat
  <2>1. DOMAIN chain \subseteq Nat
    BY DEF RecordInv
  <2> QED BY Zenon, <2>1
<1>3. \E i \in hits : \A j \in hits : i <= j
  BY Zenon, <1>1, <1>2 DEF WellOrdered
<1>4. first \in hits
  BY Zenon, <1>3
<1>5. chain[first] \in Range(chain) /\ Matches(chain[first], f)
  BY Zenon, <1>4 DEF Range
<1> QED BY Zenon, <1>1, <1>5

\* It was put there by a verdict that may settle the connection.
LEMMA FateHasReason ==
  ASSUME WellOrdered, RecordInv, ReasonInv, NEW f \in Flows, Fate(f) # "queue"
  PROVE  IF Fate(f) = "ACCEPT" THEN Allowed(f) ELSE Denied(f)
<1>1. PICK r \in Range(chain) : Matches(r, f) /\ Fate(f) = r.kind
  BY Zenon, FateIsRule
<1>2. r \in Accepts \/ r \in DOMAIN rejected
  BY Zenon, ChainIs
<1>3. CASE r \in Accepts
  <2>1. PICK ip \in IPs : \E p \in learned[ip].ports : r = Accept(ip, p)
    BY Zenon, <1>3, AcceptsAre
  <2>2. AllowGiven
    BY Zenon, <2>1 DEF ReasonInv
  <2>3. r.kind = "ACCEPT"
    BY Zenon, <1>3, AcceptsAre
  <2> QED BY Zenon, <1>1, <2>2, <2>3, GivenIsFor
<1>4. CASE r \in DOMAIN rejected
  <2>1. r.kind = "REJECT"
    BY Zenon, <1>4 DEF RecordInv, Rejects
  <2>2. r.of = "any" \/ r.of = f
    BY Zenon, <1>1, <2>1 DEF Matches
  <2>3. Refusable(r.of)
    BY Zenon, <1>4 DEF ReasonInv
  <2>4. Denied(f)
    BY Zenon, <2>2, <2>3, GivenIsFor DEF Refusable
  <2> QED BY Zenon, <1>1, <2>1, <2>4
<1> QED BY Zenon, <1>2, <1>3, <1>4

LEMMA EndsMoves ==
  ASSUME PlainType, NEW f \in Flows, NEW how, Ends(f, how)
  PROVE  \A g \in Flows : conn'[g] = conn[g] \/ (g = f /\ conn'[g] = how)
BY Zenon DEF PlainType, Ends

LEMMA EndsSettled ==
  ASSUME PlainType, NEW f \in Flows,
         (Ends(f, "open") /\ Allowed(f)') \/ (Ends(f, "refused") /\ Denied(f)')
  PROVE  \A g \in Flows : conn'[g] = conn[g] \/ Settled(g)'
<1> SUFFICES ASSUME NEW g \in Flows, conn'[g] # conn[g] PROVE Settled(g)'
  OBVIOUS
<1>1. CASE Ends(f, "open") /\ Allowed(f)'
  <2>1. g = f /\ conn'[g] = "open"
    BY Zenon, <1>1, EndsMoves
  <2> QED BY Zenon, <1>1, <2>1 DEF Settled
<1>2. CASE Ends(f, "refused") /\ Denied(f)'
  <2>1. g = f /\ conn'[g] = "refused"
    BY Zenon, <1>2, EndsMoves
  <2> QED BY Zenon, <1>2, <2>1 DEF Settled
<1> QED BY Zenon, <1>1, <1>2

LEMMA RememberMoves ==
  ASSUME PlainType, NEW f \in Flows, NEW said, Remember(f, said)
  PROVE  /\ \A g \in Flows : g # f => cache'[g] = cache[g]
         /\ cache'[f].said = said
BY Zenon DEF PlainType, Remember

\* A name in a session list has been given its verdict.
LEMMA SessionGiven ==
  ASSUME GateType, ReasonInv, NEW n \in Names
  PROVE  /\ InSession(allows, n) => AllowGiven
         /\ InSession(denies, n) => DenyGiven
<1>1. /\ InSession(allows, n) => allows[n] > 0
      /\ InSession(denies, n) => denies[n] > 0
  BY DEF GateType, InSession
<1> QED BY Zenon, <1>1 DEF ReasonInv

\* The steps of SYNs.
LEMMA SynReason ==
  ASSUME WellOrdered, GateType, PlainType, RecordInv, ReasonInv, NEW f \in Flows, Syn(f)
  PROVE  ReasonInv'
<1>a. HostFor(DstOf[f]) \in Names
  BY Zenon, GateAssumption, HostForType DEF GateType
<1>1. CASE SynMeetsRule(f)
  <2>1. /\ reasons' = reasons /\ task' = task /\ jobs' = jobs /\ cache' = cache
        /\ allows' = allows /\ denies' = denies /\ query' = query
        /\ learned' = learned /\ rejected' = rejected
    BY Zenon, <1>1 DEF SynMeetsRule, ruleVars, listVars, dnsVars, history
  <2>2. /\ Fate(f) # "queue"
        /\ Ends(f, IF Fate(f) = "ACCEPT" THEN "open" ELSE "refused")
    BY Zenon, <1>1 DEF SynMeetsRule
  <2>3. IF Fate(f) = "ACCEPT" THEN Allowed(f) ELSE Denied(f)
    BY Zenon, <2>2, FateHasReason
  <2>4. \A g \in Flows : conn'[g] = conn[g] \/ Settled(g)'
    <3>1. CASE Fate(f) = "ACCEPT"
      <4>1. Ends(f, "open") /\ Allowed(f)'
        BY Zenon, <3>1, <2>1, <2>2, <2>3 DEF Allowed
      <4> QED BY Zenon, <4>1, EndsSettled
    <3>2. CASE Fate(f) # "ACCEPT"
      <4>1. Ends(f, "refused") /\ Denied(f)'
        BY Zenon, <3>2, <2>1, <2>2, <2>3 DEF Denied
      <4> QED BY Zenon, <4>1, EndsSettled
    <3> QED BY Zenon, <3>1, <3>2
  <2> QED BY Zenon, <2>1, <2>4, ReasonFrame
<1>2. CASE SynWithoutConsent(f)
  <2>1. /\ reasons' = reasons \cup {<<"outage", "deny">>} /\ task' = task
        /\ cache' = cache /\ allows' = allows /\ denies' = denies /\ query' = query
        /\ learned' = learned /\ rejected' = rejected
        /\ jobs' = jobs \cup {RejectJob(DstOf[f], "any", ShortTtl)}
        /\ Ends(f, "refused")
    BY Zenon, <1>2 DEF SynWithoutConsent, ruleVars, listVars, dnsVars
  <2>2. DenyGiven'
    BY Zenon, <2>1 DEF DenyGiven
  <2>3. Denied(f)' /\ Refusable("any")'
    BY Zenon, <2>2, <2>1 DEF Denied, DenyGiven, Refusable
  <2>4. \A g \in Flows : conn'[g] = conn[g] \/ Settled(g)'
    BY Zenon, <2>1, <2>3, EndsSettled
  <2>5. CallFine(RejectJob(DstOf[f], "any", ShortTtl))'
    BY Zenon, <2>3 DEF CallFine, RejectJob
  <2>6. \A j \in jobs' : j \in jobs \/ CallFine(j)'
    BY Zenon, <2>1, <2>5 DEF CallFine, RejectJob
  <2> QED BY Zenon, <2>1, <2>4, <2>6, ReasonFrame
<1>3. CASE SynMeetsCache(f)
  <2>1. /\ reasons' = reasons /\ task' = task /\ jobs' = jobs /\ cache' = cache
        /\ allows' = allows /\ denies' = denies /\ query' = query
        /\ learned' = learned /\ rejected' = rejected
    BY Zenon, <1>3 DEF SynMeetsCache, ruleVars, listVars, dnsVars, history
  <2>2. /\ cache[f].said # "none" /\ CachedVerdict(f) = cache[f].said
        /\ Ends(f, IF CachedVerdict(f) = "allow" THEN "open" ELSE "refused")
    BY Zenon, <1>3 DEF SynMeetsCache, CachedVerdict
  <2>3. cache[f].said = "allow" \/ cache[f].said = "deny"
    BY Zenon, <2>2 DEF PlainType, Cached, Verdicts
  <2>4. \A g \in Flows : conn'[g] = conn[g] \/ Settled(g)'
    <3>1. CASE cache[f].said = "allow"
      <4>1. Ends(f, "open") /\ Allowed(f)
        BY Zenon, <3>1, <2>2 DEF ReasonInv
      <4>2. Allowed(f)'
        BY Zenon, <4>1, <2>1 DEF Allowed
      <4> QED BY Zenon, <4>1, <4>2, EndsSettled
    <3>2. CASE cache[f].said = "deny"
      <4>1. Ends(f, "refused") /\ Denied(f)
        BY Zenon, <3>2, <2>2 DEF ReasonInv
      <4>2. Denied(f)'
        BY Zenon, <4>1, <2>1 DEF Denied
      <4> QED BY Zenon, <4>1, <4>2, EndsSettled
    <3> QED BY Zenon, <2>3, <3>1, <3>2
  <2> QED BY Zenon, <2>1, <2>4, ReasonFrame
<1>4. CASE SynMeetsAllow(f)
  <2> DEFINE job == AllowJob(DstOf[f], "port", allows[HostFor(DstOf[f])] - now)
  <2>1. /\ reasons' = reasons /\ task' = task /\ jobs' = jobs \cup {job}
        /\ allows' = allows /\ denies' = denies /\ query' = query
        /\ learned' = learned /\ rejected' = rejected
        /\ Ends(f, "open") /\ Remember(f, "allow")
    BY Zenon, <1>4 DEF SynMeetsAllow, ruleVars, dnsVars, history
  <2>2. AllowGiven
    BY Zenon, <1>4, <1>a, SessionGiven DEF SynMeetsAllow
  <2>3. AllowGiven' /\ Allowed(f)'
    BY Zenon, <2>1, <2>2 DEF AllowGiven, Allowed
  <2>4. job.call = "allow"
    BY Zenon DEF AllowJob
  <2> HIDE DEF job
  <2>5. \A j \in jobs' : j \in jobs \/ CallFine(j)'
    BY Zenon, <2>1, <2>3, <2>4 DEF CallFine
  <2>6. \A g \in Flows : conn'[g] = conn[g] \/ Settled(g)'
    BY Zenon, <2>1, <2>3, EndsSettled
  <2>7. \A g \in Flows : cache'[g] = cache[g] \/ Remembered(g)'
    BY Zenon, <2>1, <2>3, RememberMoves DEF Remembered
  <2> QED BY Zenon, <2>1, <2>5, <2>6, <2>7, ReasonFrame
<1>5. CASE SynMeetsDeny(f)
  <2> DEFINE job == RejectJob(DstOf[f], "any", denies[HostFor(DstOf[f])] - now)
  <2>1. /\ reasons' = reasons /\ task' = task /\ jobs' = jobs \cup {job}
        /\ allows' = allows /\ denies' = denies /\ query' = query
        /\ learned' = learned /\ rejected' = rejected
        /\ Ends(f, "refused") /\ Remember(f, "deny")
    BY Zenon, <1>5 DEF SynMeetsDeny, ruleVars, dnsVars, history
  <2>2. DenyGiven
    BY Zenon, <1>5, <1>a, SessionGiven DEF SynMeetsDeny
  <2>3. Refusable("any")' /\ Denied(f)'
    BY Zenon, <2>1, <2>2 DEF DenyGiven, Denied, Refusable
  <2>4. job.call = "reject" /\ job.of = "any"
    BY Zenon DEF RejectJob
  <2> HIDE DEF job
  <2>5. \A j \in jobs' : j \in jobs \/ CallFine(j)'
    BY Zenon, <2>1, <2>3, <2>4 DEF CallFine
  <2>6. \A g \in Flows : conn'[g] = conn[g] \/ Settled(g)'
    BY Zenon, <2>1, <2>3, EndsSettled
  <2>7. \A g \in Flows : cache'[g] = cache[g] \/ Remembered(g)'
    BY Zenon, <2>1, <2>3, RememberMoves DEF Remembered
  <2> QED BY Zenon, <2>1, <2>5, <2>6, <2>7, ReasonFrame
<1>6. CASE SynIsHeld(f)
  <2>1. /\ reasons' = reasons /\ jobs' = jobs /\ conn' = conn /\ cache' = cache
        /\ allows' = allows /\ denies' = denies /\ query' = query
        /\ learned' = learned /\ rejected' = rejected
    BY Zenon, <1>6 DEF SynIsHeld, ruleVars, listVars, dnsVars, history
  <2>2. \A t \in Tasks : task'[t] = task[t] \/ task'[t].step = "ask"
    <3>1. PICK s \in Tasks : task' = [task EXCEPT ![s] =
            [step |-> "ask", flow |-> f, name |-> HostFor(DstOf[f]), said |-> "none",
             dur |-> "once"]]
      BY Zenon, <1>6 DEF SynIsHeld
    <3> QED BY Zenon, <3>1 DEF GateType
  <2>3. \A t \in Tasks : task'[t] = task[t] \/ Grounded(task[t])'
    BY Zenon, <2>2 DEF Grounded
  <2> QED BY Zenon, <2>1, <2>3, ReasonFrame
<1> QED BY Zenon, <1>1, <1>2, <1>3, <1>4, <1>5, <1>6 DEF Syn

\* The steps of tasks.
LEMMA TaskReason ==
  ASSUME GateType, PlainType, ReasonInv, NEW t \in Tasks,
         \/ RequestTimesOut(t) \/ TaskWakes(t)
         \/ \E said \in {"allow", "deny"}, dur \in Durations : Verdict(t, said, dur)
  PROVE  ReasonInv'
<1>1. ASSUME NEW said \in {"allow", "deny"}, NEW dur \in Durations, Verdict(t, said, dur)
      PROVE  ReasonInv'
  <2>1. /\ reasons' = reasons \cup {<<IF dur = "once" THEN task[t].flow
                                      ELSE task[t].name, said>>}
        /\ jobs' = jobs /\ conn' = conn /\ cache' = cache
        /\ allows' = allows /\ denies' = denies /\ query' = query
        /\ learned' = learned /\ rejected' = rejected
        /\ task' = [task EXCEPT ![t] = Told(t, said, dur)]
    BY Zenon, <1>1 DEF Verdict, ruleVars, listVars, dnsVars
  <2>2. Grounds(Told(t, said, dur)) \in reasons'
    BY Zenon, <2>1 DEF Grounds, Told
  <2>3. Told(t, said, dur).said \in {"allow", "deny"}
    BY Zenon DEF Told
  <2>4. task'[t] = Told(t, said, dur) /\ \A u \in Tasks : u # t => task'[u] = task[u]
    BY Zenon, <2>1 DEF GateType
  <2>5. \A u \in Tasks : task'[u] = task[u] \/ Grounded(task[u])'
    BY Zenon, <2>2, <2>3, <2>4 DEF Grounded, Grounds
  <2> QED BY Zenon, <2>1, <2>5, ReasonFrame
<1>2. CASE RequestTimesOut(t)
  <2>1. /\ reasons' = reasons \cup {<<task[t].flow, "deny">>}
        /\ jobs' = jobs /\ conn' = conn /\ cache' = cache
        /\ allows' = allows /\ denies' = denies /\ query' = query
        /\ learned' = learned /\ rejected' = rejected
        /\ task' = [task EXCEPT ![t] = Told(t, "deny", "once")]
    BY Zenon, <1>2 DEF RequestTimesOut, ruleVars, listVars, dnsVars
  <2>2. Grounds(Told(t, "deny", "once")) \in reasons'
    BY Zenon, <2>1 DEF Grounds, Told
  <2>3. Told(t, "deny", "once").said \in {"allow", "deny"}
    BY Zenon DEF Told
  <2>4. /\ task'[t] = Told(t, "deny", "once")
        /\ \A u \in Tasks : u # t => task'[u] = task[u]
    BY Zenon, <2>1 DEF GateType
  <2>5. \A u \in Tasks : task'[u] = task[u] \/ Grounded(task[u])'
    BY Zenon, <2>2, <2>3, <2>4 DEF Grounded, Grounds
  <2> QED BY Zenon, <2>1, <2>5, ReasonFrame
<1>3. CASE TaskWakes(t)
  <2> DEFINE w == task[t]
             until == now + Ttl(w.dur)
  <2>1. /\ reasons' = reasons /\ query' = query
        /\ learned' = learned /\ rejected' = rejected
        /\ Remember(w.flow, w.said) /\ w.step = "told"
    BY Zenon, <1>3 DEF TaskWakes, ruleVars, dnsVars, history
  <2>2. w \in Held /\ w.flow \in Flows /\ w.name \in Names
    BY Zenon, <2>1, HeldFields DEF GateType
  <2>f. PICK f \in Flows : f = w.flow
    BY Zenon, <2>2
  <2>3. w.said \in {"allow", "deny"} /\ Grounds(w) \in reasons
    BY Zenon, <2>1 DEF ReasonInv
  <2>4. /\ w.said = "allow" => Allowed(f)
        /\ w.said = "deny" => Denied(f)
        /\ w.said = "allow" /\ w.dur # "once" => AllowGiven
        /\ w.said = "deny" /\ w.dur # "once" => DenyGiven
    <3>1. CASE w.dur = "once"
      BY Zenon, <2>f, <2>3, <3>1 DEF Grounds, Allowed, Denied
    <3>2. CASE w.dur # "once"
      <4>1. <<w.name, w.said>> \in reasons
        BY Zenon, <2>3, <3>2 DEF Grounds
      <4> QED BY Zenon, <4>1, <2>2 DEF Allowed, Denied, AllowGiven, DenyGiven
    <3> QED BY Zenon, <3>1, <3>2
  <2>5. /\ w.said = "allow" => Allowed(f)'
        /\ w.said = "deny" => Denied(f)'
        /\ w.said = "allow" /\ w.dur # "once" => AllowGiven'
        /\ w.said = "deny" /\ w.dur # "once" => DenyGiven'
    BY Zenon, <2>1, <2>4 DEF Allowed, Denied, AllowGiven, DenyGiven
  <2>6. \A n \in Names : allows'[n] = allows[n] \/ AllowGiven'
    BY Zenon, <1>3, <2>5 DEF TaskWakes
  <2>7. \A n \in Names : denies'[n] = denies[n] \/ DenyGiven'
    BY Zenon, <1>3, <2>5 DEF TaskWakes
  <2>8. \A g \in Flows : cache'[g] = cache[g] \/ Remembered(g)'
    <3>1. /\ cache'[f].said = w.said
          /\ \A g \in Flows : g # f => cache'[g] = cache[g]
      BY Zenon, <2>1, <2>f, RememberMoves
    <3>2. Remembered(f)'
      BY Zenon, <3>1, <2>5 DEF Remembered
    <3> QED BY Zenon, <3>1, <3>2
  <2>9. \A g \in Flows : conn'[g] = conn[g] \/ Settled(g)'
    <3>1. CASE w.said = "allow" /\ w.dur = "once"
      <4>1. Ends(f, "open")
        BY Zenon, <1>3, <3>1, <2>f DEF TaskWakes
      <4> QED BY Zenon, <4>1, <3>1, <2>5, EndsSettled
    <3>2. CASE ~(w.said = "allow" /\ w.dur = "once")
      <4>1. conn' = conn \/ (w.said = "deny" /\ conn' = [conn EXCEPT ![f] = "refused"])
        BY Zenon, <1>3, <3>2, <2>f DEF TaskWakes
      <4>2. CASE conn' = conn
        BY Zenon, <4>2
      <4>3. CASE w.said = "deny" /\ conn' = [conn EXCEPT ![f] = "refused"]
        <5>1. /\ conn'[f] = "refused" /\ Denied(f)'
              /\ \A g \in Flows : g # f => conn'[g] = conn[g]
          BY Zenon, <4>3, <2>5 DEF PlainType
        <5>2. Settled(f)'
          BY Zenon, <5>1 DEF Settled
        <5> QED BY Zenon, <5>1, <5>2
      <4> QED BY Zenon, <4>1, <4>2, <4>3
    <3> QED BY Zenon, <3>1, <3>2
  <2>10. \A u \in Tasks : task'[u] = task[u] \/ Grounded(task[u])'
    <3>1. CASE task' = [task EXCEPT ![t] = NoTask]
      BY Zenon, <3>1 DEF Grounded, NoTask, GateType
    <3>2. CASE task' = [task EXCEPT ![t].step = "apply"]
      <4>1. /\ task'[t].said = w.said /\ task'[t].dur = w.dur
            /\ task'[t].flow = w.flow /\ task'[t].name = w.name
            /\ \A u \in Tasks : u # t => task'[u] = task[u]
        BY Zenon, <3>2, <2>2 DEF GateType, Held
      <4>2. Grounds(task'[t]) \in reasons'
        BY Zenon, <4>1, <2>1, <2>3 DEF Grounds
      <4>3. Grounded(task[t])'
        BY Zenon, <4>1, <4>2, <2>3 DEF Grounded, Grounds
      <4> QED BY Zenon, <4>1, <4>3
    <3> QED BY Zenon, <1>3, <3>1, <3>2 DEF TaskWakes
  <2>11. \A j \in jobs' : j \in jobs \/ CallFine(j)'
    <3> DEFINE yes == [AllowJob(DstOf[w.flow], "all", Ttl(w.dur)) EXCEPT !.task = t]
               no(ttl) == [RejectJob(DstOf[w.flow], DenyScope(w.flow, w.dur), ttl)
                             EXCEPT !.task = t]
    <3>1. CASE w.said = "allow"
      <4>1. jobs' = jobs \/ (w.dur # "once" /\ jobs' = jobs \cup {yes})
        BY Zenon, <1>3, <3>1 DEF TaskWakes
      <4>2. yes.call = "allow"
        BY Zenon DEF AllowJob
      <4> HIDE DEF yes
      <4> QED BY Zenon, <3>1, <4>1, <4>2, <2>5 DEF CallFine
    <3>2. CASE w.said # "allow"
      <4>1. \E ttl : jobs' = jobs \cup {no(ttl)}
        BY Zenon, <1>3, <3>2 DEF TaskWakes
      <4>2. \A ttl : no(ttl).call = "reject" /\ no(ttl).of = DenyScope(w.flow, w.dur)
        BY Zenon DEF RejectJob
      <4>3. PICK scope : scope = DenyScope(w.flow, w.dur)
        BY Zenon
      <4>4. Refusable(scope)'
        <5>1. CASE w.dur = "once"
          <6>1. scope # "any" /\ scope = f
            BY Zenon, <4>3, <5>1, <2>f, GateAssumption DEF DenyScope
          <6>2. Denied(f)'
            BY Zenon, <3>2, <2>3, <2>5
          <6> QED BY Zenon, <6>1, <6>2 DEF Refusable
        <5>2. CASE w.dur # "once"
          <6>1. DenyGiven' /\ scope = "any"
            BY Zenon, <4>3, <5>2, <3>2, <2>3, <2>5 DEF DenyScope
          <6> QED BY Zenon, <6>1 DEF Refusable
        <5> QED BY Zenon, <5>1, <5>2
      <4> HIDE DEF no
      <4> QED BY Zenon, <4>1, <4>2, <4>3, <4>4 DEF CallFine
    <3> QED BY Zenon, <3>1, <3>2
  <2> QED BY Zenon, <2>1, <2>6, <2>7, <2>8, <2>9, <2>10, <2>11, ReasonFrame
<1> QED BY Zenon, <1>1, <1>2, <1>3

\* A call that runs does what its verdict was given for.
LEMMA RunReason ==
  ASSUME GateType, TaskInv, PlainType, ReasonInv, NEW j \in jobs, RunJob(j)
  PROVE  ReasonInv'
<1>1. /\ reasons' = reasons /\ query' = query /\ cache' = cache
      /\ allows' = allows /\ denies' = denies /\ jobs' \subseteq jobs
  BY Zenon DEF RunJob, listVars, dnsVars, history
<1>2. j.ip \in IPs
  BY Zenon DEF GateType, Job
<1>3. \A ip \in IPs : learned'[ip].ports \subseteq learned[ip].ports \/ AllowGiven'
  <2>1. CASE j.call = "allow"
    BY Zenon, <2>1, <1>1 DEF ReasonInv, AllowGiven
  <2>2. CASE learned' = learned
    BY Zenon, <2>2
  <2>3. CASE RecordHost(j.ip)
    BY Zenon, <2>3, <1>2 DEF RecordHost, GateType
  <2> QED BY Zenon, <2>1, <2>2, <2>3, RunLearned
<1>4. \A r \in DOMAIN rejected' : r \in DOMAIN rejected \/ Refusable(r.of)'
  <2>1. CASE DOMAIN rejected' \subseteq DOMAIN rejected
    BY Zenon, <2>1
  <2>2. CASE j.call = "reject" /\ RejectFor(j.ip, j.of, j.ttl)
    <3>1. PICK scope, ip : scope = j.of /\ ip = j.ip
      BY Zenon
    <3>2. Refusable(scope)
      BY Zenon, <2>2, <3>1 DEF ReasonInv
    <3>3. Refusable(scope)'
      BY Zenon, <3>2, <1>1, ReasonMono
    <3>4. DOMAIN rejected' = DOMAIN rejected \cup {Reject(ip, scope)}
      BY Zenon, <2>2, <3>1 DEF RejectFor
    <3>5. Reject(ip, scope).of = scope
      BY Zenon, RuleFields
    <3> QED BY Zenon, <3>3, <3>4, <3>5
  <2>3. CASE Allow(j.ip, j.of, j.ttl)
    <3>1. \E gone : rejected' = Restrict(rejected, DOMAIN rejected \ gone)
      BY Zenon, <2>3 DEF Allow
    <3> QED BY Zenon, <3>1 DEF Restrict
  <2> QED BY Zenon, <2>1, <2>2, <2>3 DEF RunJob, RecordHost
<1>5. \A g \in Flows : conn'[g] = conn[g] \/ Settled(g)'
  <2>1. CASE j.task = 0
    BY Zenon, <2>1 DEF RunJob
  <2>2. CASE j.task # 0
    <3>1. PICK w : w = task[j.task]
      BY Zenon
    <3>2. w.step = "apply" /\ w.flow \in Flows /\ w.name \in Names
      BY Zenon, <2>2, <3>1, AwaitType, HeldFields DEF GateType
    <3>3. w.said \in {"allow", "deny"} /\ Grounds(w) \in reasons'
      BY Zenon, <2>2, <3>1, <3>2, <1>1, AwaitType DEF ReasonInv
    <3>4. Ends(w.flow, IF w.said = "allow" THEN "open" ELSE "refused")
      BY Zenon, <2>2, <3>1 DEF RunJob
    <3>5. \/ Grounds(w) = <<w.flow, w.said>>
          \/ Grounds(w) = <<w.name, w.said>>
      BY Zenon DEF Grounds
    <3>6. CASE w.said = "allow"
      <4>1. Allowed(w.flow)'
        BY Zenon, <3>2, <3>3, <3>5, <3>6 DEF Allowed
      <4>2. Ends(w.flow, "open")
        BY Zenon, <3>4, <3>6
      <4> QED BY Zenon, <3>2, <4>1, <4>2, EndsSettled
    <3>7. CASE w.said = "deny"
      <4>1. Denied(w.flow)'
        BY Zenon, <3>2, <3>3, <3>5, <3>7 DEF Denied
      <4>2. Ends(w.flow, "refused")
        BY Zenon, <3>4, <3>7
      <4> QED BY Zenon, <3>2, <4>1, <4>2, EndsSettled
    <3> QED BY Zenon, <3>3, <3>6, <3>7
  <2> QED BY Zenon, <2>1, <2>2
<1>6. \A t \in Tasks : task'[t] = task[t] \/ Grounded(task[t])'
  <2>1. CASE task' = task
    BY Zenon, <2>1
  <2>2. CASE task' = [task EXCEPT ![j.task] = NoTask]
    <3>1. \A t \in Tasks : task'[t] = task[t] \/ task'[t] = NoTask
      BY Zenon, <2>2 DEF GateType
    <3>2. NoTask.step = "none"
      BY Zenon DEF NoTask
    <3>3. \A t \in Tasks : task'[t] = task[t] \/ task'[t].step = "none"
      BY Zenon, <3>1, <3>2
    <3> QED BY Zenon, <3>3 DEF Grounded
  <2> QED BY Zenon, <2>1, <2>2, RunTask
<1> QED BY Zenon, <1>1, <1>3, <1>4, <1>5, <1>6, ReasonFrame

LEMMA ReasonStep ==
  ASSUME WellOrdered, GateType, TaskInv, PlainType, RecordInv, ReasonInv, Next
  PROVE  ReasonInv'
<1>a. NoVerdict.said = "none" /\ NoRec.ports = {}
  BY Zenon DEF NoVerdict, NoRec
<1>1. ASSUME NEW f \in Flows, Connect(f) PROVE ReasonInv'
  <2>1. \A g \in Flows : conn'[g] = conn[g] \/ conn'[g] = "syn"
    BY Zenon, <1>1 DEF Connect, PlainType
  <2>2. \A g \in Flows : conn'[g] = conn[g] \/ Settled(g)'
    BY Zenon, <2>1 DEF Settled
  <2> QED BY Zenon, <1>1, <2>2, ReasonFrame DEF Connect, ruleVars, listVars, dnsVars, history
<1>2. ASSUME Disconnect PROVE ReasonInv'
  <2>1. /\ conn' = conn /\ jobs' = jobs /\ query' = query
        /\ allows' = allows /\ denies' = denies
        /\ learned' = learned /\ rejected' = rejected /\ reasons \subseteq reasons'
    BY Zenon, <1>2 DEF Disconnect, ruleVars, dnsVars
  <2>2. \A f \in Flows : cache'[f].said = "none"
    BY Zenon, <1>2, <1>a DEF Disconnect
  <2>3. \A f \in Flows : Remembered(f)'
    BY Zenon, <2>2 DEF Remembered
  <2>4. \A t \in Tasks : task'[t] = task[t] \/ Grounded(task[t])'
    <3> SUFFICES ASSUME NEW t \in Tasks, task'[t] # task[t] PROVE Grounded(task[t])'
      BY Zenon
    <3>1. task'[t] = Told(t, "deny", "once") /\ task[t].step = "ask"
      BY Zenon, <1>2 DEF Disconnect
    <3>2. <<task[t].flow, "deny">> \in reasons'
      BY Zenon, <1>2, <3>1 DEF Disconnect
    <3>3. /\ task'[t].said = "deny" /\ task'[t].dur = "once"
          /\ task'[t].flow = task[t].flow
      BY SMTT(30), <3>1 DEF Told
    <3>4. Grounds(task'[t]) = <<task[t].flow, "deny">>
      BY Zenon, <3>3 DEF Grounds
    <3> QED BY Zenon, <3>2, <3>3, <3>4 DEF Grounded, Grounds
  <2> QED BY Zenon, <2>1, <2>3, <2>4, ReasonFrame
<1>3. ASSUME Sweep PROVE ReasonInv'
  <2>1. /\ conn' = conn /\ jobs' = jobs /\ query' = query /\ task' = task
        /\ allows' = allows /\ denies' = denies /\ reasons' = reasons /\ cache' = cache
    BY Zenon, <1>3 DEF Sweep, listVars, dnsVars, history
  <2>2. \A ip \in IPs : [learned[ip] EXCEPT !.ports = {}].ports = {} /\ NoRec.ports = {}
    BY Zenon DEF GateType, Record, NoRec
  <2>3. \A ip \in IPs : \/ learned'[ip] = NoRec \/ learned'[ip] = learned[ip]
                        \/ learned'[ip] = [learned[ip] EXCEPT !.ports = {}]
    BY Zenon, <1>3 DEF Sweep
  <2>4. \A ip \in IPs : learned'[ip].ports \subseteq learned[ip].ports
    BY Zenon, <2>2, <2>3
  <2>5. DOMAIN rejected' \subseteq DOMAIN rejected
    BY Zenon, <1>3 DEF Sweep, Restrict
  <2> QED BY Zenon, <2>1, <2>4, <2>5, ReasonFrame
<1>4. ASSUME Query PROVE ReasonInv'
  <2>1. query' # "learn" \/ AllowGiven
    <3>1. Host \in Names
      BY Zenon DEF Names
    <3> QED BY Zenon, <1>4, <3>1, SessionGiven DEF Query
  <2>2. query' # "learn" \/ AllowGiven'
    BY Zenon, <1>4, <2>1 DEF Query, history, AllowGiven
  <2> QED BY Zenon, <1>4, <2>2, ReasonFrame DEF Query, ruleVars, listVars, history
<1>5. ASSUME NEW ip \in IPs, QueryAnswered(ip) PROVE ReasonInv'
  <2>1. /\ conn' = conn /\ task' = task /\ cache' = cache /\ query' = "none"
        /\ allows' = allows /\ denies' = denies /\ reasons' = reasons
        /\ learned' = learned /\ rejected' = rejected
    BY Zenon, <1>5 DEF QueryAnswered, ruleVars, listVars
  <2>2. \A j \in jobs' : j \in jobs \/ CallFine(j)'
    <3>1. CASE query = "learn"
      <4>1. AllowGiven'
        BY Zenon, <3>1, <2>1 DEF ReasonInv, AllowGiven
      <4>2. \E ttl : jobs' = jobs \cup {AllowJob(ip, "port", ttl)}
        BY Zenon, <1>5, <3>1 DEF QueryAnswered
      <4>3. \A ttl : AllowJob(ip, "port", ttl).call = "allow"
        BY Zenon DEF AllowJob
      <4> QED BY Zenon, <4>1, <4>2, <4>3 DEF CallFine
    <3>2. CASE query # "learn"
      <4> DEFINE job == [call |-> "record", ip |-> ip, of |-> "none", ttl |-> 0, task |-> 0]
      <4>1. jobs' = jobs \cup {job}
        BY Zenon, <1>5, <3>2 DEF QueryAnswered
      <4>2. job.call = "record"
        BY Zenon
      <4> HIDE DEF job
      <4> QED BY Zenon, <4>1, <4>2 DEF CallFine
    <3> QED BY Zenon, <3>1, <3>2
  <2> QED BY Zenon, <2>1, <2>2, ReasonFrame
<1>6. ASSUME NEW name \in Names, NEW said \in {"allow", "deny"}, DropStarts(name, said)
      PROVE  ReasonInv'
  <2>1. /\ conn' = conn /\ jobs' = jobs /\ query' = query /\ task' = task
        /\ cache' = cache /\ learned' = learned /\ rejected' = rejected
        /\ reasons' = reasons
    BY Zenon, <1>6 DEF DropStarts, ruleVars, dnsVars, history
  <2>2. \A n \in Names : allows'[n] = allows[n] \/ ~(allows'[n] > 0)
    <3>1. allows' = allows \/ allows' = [allows EXCEPT ![name] = 0]
      BY Zenon, <1>6 DEF DropStarts
    <3> QED BY <3>1 DEF GateType
  <2>3. \A n \in Names : denies'[n] = denies[n] \/ ~(denies'[n] > 0)
    <3>1. denies' = denies \/ denies' = [denies EXCEPT ![name] = 0]
      BY Zenon, <1>6 DEF DropStarts
    <3> QED BY <3>1 DEF GateType
  <2> QED BY Zenon, <2>1, <2>2, <2>3, ReasonFrame
<1>7. ASSUME DropRuns PROVE ReasonInv'
  <2>1. /\ conn' = conn /\ jobs' = jobs /\ query' = query /\ task' = task
        /\ allows' = allows /\ denies' = denies /\ reasons' = reasons /\ cache' = cache
    BY Zenon, <1>7 DEF DropRuns, listVars, dnsVars
  <2>2. \A ip \in IPs : learned'[ip] = NoRec \/ learned'[ip] = learned[ip]
    BY Zenon, <1>7, DropLearned
  <2>3. \A ip \in IPs : learned'[ip].ports \subseteq learned[ip].ports
    BY Zenon, <2>2, <1>a
  <2>4. DOMAIN rejected' \subseteq DOMAIN rejected
    BY SMTT(30), <1>7 DEF DropRuns, Restrict
  <2> QED BY Zenon, <2>1, <2>3, <2>4, ReasonFrame
<1>8. ASSUME DropEnds PROVE ReasonInv'
  <2>1. \A f \in Flows : cache'[f] = cache[f] \/ cache'[f].said = "none"
    BY Zenon, <1>8, <1>a DEF DropEnds
  <2>2. \A f \in Flows : cache'[f] = cache[f] \/ Remembered(f)'
    BY Zenon, <2>1 DEF Remembered
  <2> QED BY Zenon, <1>8, <2>2, ReasonFrame DEF DropEnds, ruleVars, dnsVars, history
<1>9. ASSUME Reconnect \/ QueryFails \/ Tick PROVE ReasonInv'
  <2>1. /\ conn' = conn /\ jobs' = jobs /\ task' = task /\ cache' = cache
        /\ allows' = allows /\ denies' = denies /\ reasons' = reasons
        /\ learned' = learned /\ rejected' = rejected
        /\ query' = query \/ query' = "none"
    BY Zenon, <1>9 DEF Reconnect, QueryFails, Tick, ruleVars, listVars, dnsVars, history
  <2>2. query' = query \/ query' # "learn"
    BY Zenon, <2>1
  <2> QED BY Zenon, <2>1, <2>2, ReasonFrame
<1> QED
  BY Zenon, <1>1, <1>2, <1>3, <1>4, <1>5, <1>6, <1>7, <1>8, <1>9, SynReason, TaskReason,
     RunReason DEF Next

-----------------------------------------------------------------------------
(* Theorems.                                                               *)

LEMMA GateStep ==
  ASSUME GateInv, [Next]_vars
  PROVE  GateInv'
<1>1. CASE Next
  BY Zenon, <1>1, TypeStep, TaskStep, LapseStep, RevokeStep DEF GateInv
<1>2. CASE UNCHANGED vars
  <2>1. /\ UNCHANGED <<now, learned, allows, denies, task, jobs, drop, granted, crossed>>
        /\ UNCHANGED <<inflight, query, revoked>>
    BY Zenon, <1>2 DEF vars, ruleVars, listVars, dnsVars, history
  <2>2. GateType'
    BY Zenon, <2>1 DEF GateInv, GateType
  <2>3. LapseInv'
    BY Zenon, <2>1 DEF GateInv, LapseInv, Ttl
  <2>4. TaskInv'
    BY Zenon, <2>1 DEF GateInv, TaskInv, OneTaskPerConnection
  <2>5. RevokeInv'
    BY Zenon, <2>1 DEF GateInv, RevokeInv, ToldAllow, AllowInFlight, InSession
  <2> QED BY Zenon, <2>2, <2>3, <2>4, <2>5 DEF GateInv
<1> QED BY Zenon, <1>1, <1>2

\* The inductive invariant holds in every state the sidecar reaches.
THEOREM Invariance == Spec => []GateInv
<1>1. Init => GateInv
  BY Zenon, InitType DEF GateInv
<1>2. GateInv /\ [Next]_vars => GateInv'
  BY Zenon, GateStep
<1> QED BY <1>1, <1>2, PTL DEF Spec

\* One connection never has two verdict tasks, however many connections, SYNs
\* and tasks there are (INFLIGHT in cb and decide_and_verdict).
THEOREM OneTask == Spec => []OneTaskPerConnection
<1>1. GateInv => OneTaskPerConnection
  BY Zenon DEF GateInv, TaskInv
<1> QED BY <1>1, Invariance, PTL

\* No ACCEPT rule is kept past the longest allow the decider gave, for any
\* lifetimes of verdicts and DNS answers (decide_and_verdict,
\* _allow_session_host, learn_all).
THEOREM RuleLapses == Spec => []RuleLapsesWithVerdict
<1>1. GateInv => RuleLapsesWithVerdict
  BY Zenon DEF GateInv, LapseInv, RuleLapsesWithVerdict
<1> QED BY <1>1, Invariance, PTL

\* While no allow is under way or in a session list, no address gains an
\* ACCEPT rule.
LEMMA NothingInstalls ==
  ASSUME GateInv, revoked, Next
  PROVE  Accepted' \subseteq Accepted
<1>0. learned \in [IPs -> Record] /\ \A j \in jobs : j.call # "allow" /\ j.ip \in IPs
  BY Zenon DEF GateInv, GateType, RevokeInv, AllowInFlight, Job
<1>1. CASE learned' = learned
  BY Zenon, <1>1 DEF Accepted
<1>2. ASSUME NEW j \in jobs, RunJob(j) PROVE Accepted' \subseteq Accepted
  <2>1. \A ip \in IPs : learned'[ip].ports = learned[ip].ports
    BY SMTT(30), <1>0, <1>2 DEF RunJob, RecordHost, RejectFor
  <2> QED BY Zenon, <2>1 DEF Accepted
<1>3. ASSUME Sweep PROVE Accepted' \subseteq Accepted
  BY Zenon, <1>0, <1>3 DEF Sweep, Accepted, NoRec
<1>4. ASSUME DropRuns PROVE Accepted' \subseteq Accepted
  <2>1. \A ip \in IPs : learned'[ip] = NoRec \/ learned'[ip] = learned[ip]
    BY Zenon, <1>0, <1>4, DropLearned
  <2> QED BY SMTT(30), <2>1 DEF Accepted, NoRec
<1>5. CASE \E f \in Flows : Connect(f) \/ Syn(f)
  BY Zenon, <1>1, <1>5 DEF Syn, ruleVars, Connect, SynMeetsRule, SynWithoutConsent, SynMeetsCache,
     SynMeetsAllow, SynMeetsDeny, SynIsHeld
<1>6. CASE \E t \in Tasks, said \in {"allow", "deny"}, dur \in Durations : Verdict(t, said, dur)
  BY Zenon, <1>1, <1>6 DEF Verdict, ruleVars
<1>7. CASE \E t \in Tasks : RequestTimesOut(t) \/ TaskWakes(t)
  BY Zenon, <1>1, <1>7 DEF RequestTimesOut, TaskWakes, ruleVars
<1>8. CASE Disconnect \/ Reconnect \/ Query \/ QueryFails \/ DropEnds \/ Tick
  BY Zenon, <1>1, <1>8 DEF Disconnect, Reconnect, Query, QueryFails, DropEnds, Tick,
     ruleVars
<1>9. CASE \E ip \in IPs : QueryAnswered(ip)
  BY Zenon, <1>1, <1>9 DEF QueryAnswered, ruleVars
<1>10. CASE \E name \in Names, said \in {"allow", "deny"} : DropStarts(name, said)
  BY Zenon, <1>1, <1>10 DEF DropStarts, ruleVars
<1> QED BY Zenon, <1>2, <1>3, <1>4, <1>5, <1>6, <1>7, <1>8, <1>9, <1>10 DEF Next

\* After the drop of the last allow, with nothing under way, no rule comes
\* back without a new verdict (_drop_session_rules, _drop_host_rules).
THEOREM StaysRevoked == Spec => RevokedStaysRevoked
<1>1. GateInv /\ [Next]_vars
        => [revoked /\ revoked' => Accepted' \subseteq Accepted]_vars
  BY Zenon, NothingInstalls
<1> QED BY <1>1, Invariance, PTL DEF Spec, RevokedStaysRevoked

LEMMA RecordInit == Init => RecordInv
<1> SUFFICES ASSUME Init PROVE RecordInv
  OBVIOUS
<1>1. chain = <<>> /\ DOMAIN rejected = {}
  BY Zenon DEF Init
<1>2. chain \in Seq(Rule) /\ Range(chain) = {} /\ IsInjective(chain)
  BY <1>1 DEF Range, IsInjective
<1>3. \A ip \in IPs : learned[ip].ports = {}
  BY Zenon DEF Init, NoRec
<1>4. Accepts = {}
  BY Zenon, <1>3, AcceptsAre
<1> QED BY Zenon, <1>1, <1>2, <1>4, RecordIs

\* The invariants about rules and reasons, which rest on all the others.
RuleInv == ShapeInv /\ RecordInv /\ ReasonInv

LEMMA RuleStep ==
  ASSUME WellOrdered, GateInv, RuleInv, [Next]_vars
  PROVE  RuleInv'
<1>1. ShapeInv'
  BY Zenon, ShapeStep DEF RuleInv
<1>2. CASE Next
  BY Zenon, <1>1, <1>2, RecordStep, ReasonStep DEF RuleInv, ShapeInv, GateInv
<1>3. CASE UNCHANGED vars
  <2>1. /\ UNCHANGED <<conn, learned, allows, denies, task, jobs, query, chain>>
        /\ UNCHANGED <<cache, rejected, reasons>>
    BY Zenon, <1>3 DEF vars, ruleVars, listVars, dnsVars, history
  <2>2. RecordInv'
    BY Zenon, <2>1, RecordFrame DEF RuleInv
  <2>3. ReasonInv'
    BY Zenon, <2>1, ReasonFrame DEF RuleInv
  <2> QED BY Zenon, <1>1, <2>2, <2>3 DEF RuleInv
<1> QED BY Zenon, <1>2, <1>3

INSTANCE WellFoundedInduction

\* Every nonempty set of naturals has a least element.
LEMMA NatWellOrdered == WellOrdered
<1> SUFFICES ASSUME NEW T \in SUBSET Nat, T # {}
             PROVE  \E n \in T : \A m \in T : n <= m
  BY Zenon DEF WellOrdered
<1>1. PICK x \in T : \A y \in T : ~(<<y, x>> \in OpToRel(<, Nat))
  BY Zenon, WFMin, NatLessThanWellFounded
<1>2. \A y \in T : ~(y < x)
  BY Zenon, <1>1 DEF OpToRel
<1> QED BY SMTT(30), <1>2

\* The second inductive invariant holds in every state the sidecar reaches.
THEOREM RuleInvariance == Spec => []RuleInv
<1>1. Init => RuleInv
  BY Zenon, ShapeInit, RecordInit, ReasonInit DEF RuleInv
<1>2. GateInv /\ RuleInv /\ [Next]_vars => RuleInv'
  BY Zenon, RuleStep, NatWellOrdered
<1> QED BY <1>1, <1>2, Invariance, PTL DEF Spec

\* Every piece of the sidecar's state has the shape its code gives it, and
\* INFLIGHT is exactly the connections that a task holds.
THEOREM TypeCorrect == Spec => []TypeOK
<1>1. GateInv /\ RuleInv => TypeOK
  BY Zenon, ShapeType DEF RuleInv
<1> QED BY <1>1, Invariance, RuleInvariance, PTL

\* For any number of rules, addresses and connections, the OUTPUT chain and the
\* records that will remove its rules agree, and no rule is there twice (allow,
\* reject, drop_for_host and sweep_once under LOCK).
THEOREM RulesRecorded == Spec => []RulesHaveRecords
<1>1. RuleInv => RulesHaveRecords
  BY Zenon DEF RuleInv, RecordInv
<1> QED BY <1>1, RuleInvariance, PTL

\* A verdict given for one connection settles no other one: not through the
\* chain, the session lists, the verdict cache, a call still in the executor or
\* a DNS query (_deny_reject_args, the key of VERDICT_CACHE).
THEOREM OncePerConnection == Spec => []OnceIsPerConnection
<1>1. RuleInv => OnceIsPerConnection
  BY Zenon DEF RuleInv, ReasonInv
<1> QED BY <1>1, RuleInvariance, PTL

=============================================================================
