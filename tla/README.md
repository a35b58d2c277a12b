# Verification of Klangk

TLA+ models of the Klangk backend (`src/src/klangk`) and of its network sidecar
(`src/src/klangksidecar`), TLC configurations that check them on small
instances, and TLAPS proofs for every value of the constants. Paths below are
relative to `src/src/klangk/klangk` unless they begin with `klangksidecar`.

## The system

Klangk runs workspaces: one rootless container each, beside a *network sidecar*
that holds every outgoing connection which is not on the workspace's allow
list. The backend (klangkd) is one asyncio process over SQLite. People connect
to it with web sockets and HTTP; sidecars connect to it with a web socket to ask
whether a connection may go out; *deciders* are the web sockets of the people
who are asked.

Because the backend is asyncio, a step runs without interference from one
`await` to the next, and everything else may happen at an `await`: another
request, a timer, a cancellation, a failed database call. That is where the
hard behaviours are, and it is the grain of every module here.

The path of one outgoing connection goes through four of the modules:

1. the sidecar holds its SYN and asks (`SidecarGate`);
2. klangkd's gates answer at once, or a decider is shown a prompt
   (`ConsentDesk`);
3. the request is held until a verdict, a timeout or a shutdown
   (`ConsentHold`);
4. the verdict is recorded, relayed, perhaps revoked, and in the end cleaned up
   (`ConsentVerdict`).

`ContainerLifecycle` is the container the sidecar belongs to, `AuthSessions` the
tokens and sockets of the people who decide.

`PROJECT.json` lists every part of the system with what is left out and why, the
source lines of every definition, and every hazard at its line with the
properties that would catch it.

## Modules

| module | what it is |
| --- | --- |
| `ConsentPromise` | abstract: what the coordinator promises about each request |
| `ConsentHold` | `hold`, `resolve`, the timeout and `stop` of the coordinator, the relay tasks, the rows |
| `ConsentPolicy` | abstract: when a recorded verdict comes into effect and why it may end |
| `ConsentVerdict` | the rows, `revoke`, the domain lists, drops and acks over the sidecar's socket, retention, restarts |
| `ConsentDesk` | the gates, the egress mode and the pause, the decider registry, its sockets and the client's prompts |
| `SidecarGate` | the sidecar: held SYNs, rules and their records, DNS, sweeper, `drop_rule` |
| `AuthSessions` | tokens, blocklist, session rows and sockets of one user |
| `ContainerLifecycle` | the container of one workspace: start, adoption, stop, crash recovery, idle stop, eviction |
| `SeqFilter` | deleting from a list, as a recursive function |
| `MC*` | small instances for TLC |
| `*Proofs`, `ConsentHoldSteps` | the theorems and their proofs |

Definitions whose comment begins with "A mutation", "Mutant" or "Fault" are
plausible mistakes in the definition that follows; no specification uses them.
Each shows that some property would notice.

### ConsentHold

A relay task (`_relay_verdict`) opens at most one request, so a relay also
names its request, its row and its hold. Its variable `relay` says at which
await the task is: in the gates, counting, creating, created, waiting. `row` is
the decision column; `holds`, `fut` and `timer` are the entries of `_holds`;
`step`, `req` and `say` are the local state of each decider's `resolve()` call
(a decider connection handles its frames in turn); `stopAt`, `stopTodo` and
`stopReq` are those of `stop()`. `told` is the list of `egress_resolved` labels
that were broadcast. `abandoned` is a history variable: the rows whose expiry
the code gave up after two failures, or that a cancelled relay left behind.

A write whose caller can be cancelled after the commit and before the return
(`create_request`, `decide`) is two steps; every other database call is one,
and may fail where the code handles a failure. The pop of a hold and the
`cancel()` of its timer are one step, as in `_pop_hold`; the timer processes
its cancellation in a step of its own, which `_cancel_hold_task` waits for.
What the gates answer is an arbitrary choice here.

`Faults` chooses which disturbances may happen: failing database calls,
disconnecting sidecars, cancelled deciders, crashes, deleted workspaces, and
`stop()` called with sockets still open. The server closes its sockets before
`stop()`, so the last is more than the code has to withstand; the run leaves it
out and the proofs cover it.

### ConsentVerdict

A row has its columns `dec`, `said` (the decision it was given, which a revoke
leaves readable), `dur` and `by`. `lists` are the entries of `allowed_domains`
and `rejected_domains`; `persisting` the forever verdicts on their way there.
`call` is the progress of each `revoke`: read, `send_drop`, wait for the ack,
mark, re-read, look whether the entry is still shared, retract. `conn`, `open`,
`wire`, `back` are the registered socket, the sockets whose handler runs and the
frames in both directions. The sidecar is seen from klangkd here: `told` are the
lasting verdicts it took and took no drop for since. Which iptables rules a drop
then finds and removes is not this module's subject but `SidecarGate`'s, and
finding 4 is about it. The compare-and-swap loop of a list update is one step
that may fail; no other database call of this module fails. History: `asked`,
`left`, and `met`, the entries for which a verdict and a revoke overlapped or an
update failed.

`Scenarios` chooses the durations and disturbances of a behaviour, so that each
kind is explored against the others it races, not all against all.

### ConsentDesk

All requests are for one destination of one workspace. `req` follows a request
through the four gates into the hold; `past` are the destination's verdicts in
order. `reg` and `fresh` are the registry and its leases, `srv` the handler of a
decider's socket, `queue` its bounded send queue, `shows` the prompts the client
displays. A broadcast to a full queue drops the decider, as `SafeWebSocket` and
the registry do. `lost` (deciders whose lease ran out while registered) and
`since` are history.

### SidecarGate

`chain` is the OUTPUT chain, `learned` and `rejected` the records that will
remove its rules, `allows`, `denies` and `cache` the session lists and the
verdict cache, `inflight` and `task` the held SYNs, `jobs` the calls in the
thread pool, which run later, in any order and atomically, as they hold `LOCK`.
One host name and one port. `granted`, `reasons`, `crossed` and `revoked` are
history. An iptables call has its effect here. In the code it is best effort
(`remove`, `_sweep_learned_rules`, `_remove_learned_ports`): a deletion that
fails is ignored and the record goes all the same, which leaves a rule without a
record; the properties speak of calls that succeed. Not modelled: the bytes of
packets and DNS messages, and the static allow list, which never changes at run
time.

### AuthSessions

A token is its number. `black` and `cached` are `token_blocklist` with the
replacement a refresh caches, `rows` is `user_sessions`, oldest first, `sock`
the web sockets with the jti they are filed under. A request is a coroutine of
`Auth`; its `step` is the await it is at.

The database may fail between the two writes of `_swap_token` and between those
of `_revoke_session` (`SwapReplaceFails`, `RevokeRemoveFails`): the code has no
handler there, and what is written stays. Everywhere else a call of the database
succeeds, save for the insert of a row whose user was deleted. A failure that
ends a login after its row is written, for one, would leave a row over the cap
until the next login, so `CapHolds` is not claimed for it.

`late` and `torn` are history. `late` are the sockets that were filed under a
jti, or a user, already revoked (the handshake checks first and registers later),
and those a request that failed on the database did not reach; `torn` the
replacements whose swap a crash or a failure cut in two.

### ContainerLifecycle

One workspace. A *request* is one call of a user, of the idle monitor or of the
evictor; it picks its kind when it arrives and is served once. Beside the
requests run the crash monitor (`Monitor`) and its delayed restart tasks
(`Restarts`). `at` says at which await a task is and `cid` which container it
works on. Containers are numbered in the order the code sets out to create them.

| variable | code |
| --- | --- |
| `pod`, `sidecar` | what podman has: each container absent, created, running or dead; the container the network sidecar was started for |
| `row` | `workspaces.container_id` |
| `state`, `known` | `ContainerRegistry.states` and `_cid_to_wsid` |
| `obj`, `held` | the `ContainerState` object a task has captured |
| `stopping`, `epoch` | `stopping` and `stop_epoch` |
| `attempts`, `pending`, `tries` | the restart tracker, the pending restart, the tracker `handle_death` has captured |
| `lock` | the workspace lock |
| `cre` | the shielded `create_and_start`, which goes on when the start that waits for it is cancelled |

`Faults` chooses the failures: containers that die or vanish (`die`), podman
removals that fail (`rm`), creates, boots and bring-ups that fail (`boot`),
starts that are refused by a drain or by admission (`refuse`), sidecars that do
not start, whether or not they were created, or cannot be removed (`sidecar`).
History: `expected`, the containers
a stop has been marked for; `overlap`, whether two stops were under way at once;
`stray`, whether a create has outlived its cancelled restart; `wanted`, whether
the last user action asked for a container.

Left out: the fail-closed audit mode, whose writes add an await before a start
and a stop; FIPS mode; the label sweep that ends a drain; deletion, which stops
and resets like `/stop`; recovery switched off; the time of back-off and
idleness, of which only the order is kept.

## Runs

| run | checks | distinct states |
| --- | --- | --- |
| `hold` | no hold is dropped, answered twice, or granted without a record; the coordinator keeps `ConsentPromise`; every hold is answered, every relay ends, `stop()` returns | 49,132 |
| `verdict` | verdicts end only as `ConsentPolicy` allows; a revoke that answers True has ended the verdict, and the sidecar took its drop if it was sent one; the lists follow the forever verdicts | 979,397 |
| `desk` | held requests are shown, none lingers, no pause outlives a change of mode or lifts a denial; a client that is gone is reaped | 289,381 |
| `gate` | rules and records agree, rules end with their verdict, what was revoked does not come back, every connect ends | 92,495 |
| `sessions` | live tokens have rows, sockets follow revocations and refreshes, the cap holds | 704,811 |
| `life_guards` | a running container is tracked and left alone by the crash monitor, a stopped one is not restarted | 422,439 |
| `life_requests` | every request ends, a dead container is dropped | 121,590 |
| `hold_pending_ends` | a pending request is expired after the timeout | violated, finding 1 |
| `life_stop` | after a user stop nothing runs | violated, finding 2 |
| `life_sidecar` | a stop tears the sidecar down | violated, finding 3 |
| `gate_ack` | an acknowledged drop leaves no ACCEPT rule | violated, finding 4 |
| `sessions_refresh` | a token that was revoked is not refreshed into a live one | violated, finding 5 |

Bounds, and why they are enough for the cases that matter:

- hold: two relays to one destination are what the dedup index, the shared
  timers and the double answers need, two deciders let two verdicts race;
- verdict: two rows of one host and port share a list entry and a drop, two
  revokes overlap, two sockets let a reconnect overtake the old handler;
- desk: two requests and two deciders, a send queue of one frame, so that it
  overflows at the second;
- gate: two connections to one address and one to another, two tasks, two
  queries, two ticks: a timed verdict ends before a DNS record does;
- sessions: two requests, three tokens, a cap of one, so that every login evicts;
- life: two containers, the one a task works on and the one that replaced it;
  three requests; two restart tasks, one unwinding while the next sleeps; one
  attempt, after which a failed restart is retried or given up.

For safety these bounds matter little, as the theorems below have none.

`life_guards` has no failing removals, for the reason given under the proofs,
and no `/stop` and `/restart`, whose reset ignores the guards (finding 2).

Fairness. The event loop runs every ready task, a sleep ends, and a database or
podman call returns or raises: weak fairness of the steps of each relay, timer,
`resolve()`, `stop()`, start, create, restart and stop, of the crash monitor, of
the lease clock and the reaper, of a verdict task's timeout and of the jobs in
the thread pool. A TCP client retransmits its SYN, and a decider client that is
there pings. Nothing is assumed of arriving requests, people answering,
cancellations, deaths, crashes or restarts. Weak fairness would not do for a
lock that is taken again and again; the requests are finite here, so it is
enough.

Deadlock is checked for the hold run. Elsewhere the bounded supply of requests
and events runs out, and the system may stop.

## Proofs

Every safety property that a passing run checks (invariant, action property or
refinement) is a theorem: TLC shows it on the instance above, TLAPS for any
number of requests, rows, deciders, sockets, tokens, connections, containers and
tasks, any queue size, cap and lifetime. The assumptions are the named `ASSUME`
of each module, which say that the constants have their types. The run's
liveness properties are left to TLC.

| module | inductive invariant | theorems |
| --- | --- | --- |
| `ConsentHoldSteps`, `ConsentHoldProofs` | `IInv` | `Invariance`, `TypeCorrect`, `HeldExpires`, `OneOwner`, `AllowRecorded`, `TellsOnce`, `OnePrompt`, `PendingAccounted`, `KeepsPromise` |
| `ConsentVerdictProofs` | `PolicyInv`, `Inv` | `KeepsPolicy`; `Invariance`, `TypeCorrect`, `ListsFollow`, `HonestRevoke` |
| `ConsentDeskProofs` | `DeskInv`, `PauseInv`, `DeciderInv` | `HeldAreShown`, `NoGhosts`, `PausesAreOfThisEpoch`; `Invariance`, `TypeCorrect`, `PauseLiftsNoDenial` |
| `SidecarGateProofs` | `GateInv`, `RuleInv` | `Invariance`, `OneTask`, `RuleLapses`, `StaysRevoked`; `RuleInvariance`, `TypeCorrect`, `RulesRecorded`, `OncePerConnection` |
| `AuthSessionsProofs` | `FollowInv`; `TableInv`, `RowInv`, `CapInv` | `Follows`; `TypeCorrect`, `LiveTokensHaveRows`, `Capped` |
| `ContainerLifecycleProofs` | `Inv` | `Invariance`, `TypeCorrect`, `TrackedWhenRunning`, `StaysDown`, `SparesLive` |
| `SeqFilterProofs` | | lemmas on `Filter` |

**ConsentHold.** The properties are not inductive alone. That a popped hold has
one owner needs that a held one has none; that a decision is not overwritten
needs that the task which expires a row is the only one that knows it. So `IInv`
says for each actor what it has to itself: a relay that has not registered has
left no trace (`FreshIsUntouched`), a held request is known to nobody but its
timer and perhaps `stop()` (`HeldIsUntouched`), an expiring timer
(`TimerIsAlone`), a `resolve()` (`CallIsAlone`) and `stop()` (`StopIsAlone`)
each own the request they work on. `DownIsEmpty` carries it through a crash. One
lemma per action; the refinement then shows that every action moves each request
by one step of `ConsentPromise` or none.

**ConsentVerdict.** The refinement of `ConsentPolicy` needs `PolicyInv`: what the
retention sweep is about to delete without looking again is out of effect for
good, and a revoke under way is one that was asked for. The answer of `revoke`
needs to know where a verdict and a drop can be between klangkd and the sidecar.
`RowInv`: a row that nobody decided has left no trace, a verdict is relayed once,
is at one place on one socket, and is told once it left the wire. `CallInv`: a
drop on the wire is the call's own, an ack stands for a drop that was taken, a
verdict the sidecar had taken when the call began is not on its way there a
second time, and from the mark on the row is out of effect. `ListInv`, for an entry
that is calm (no overlap of a verdict with a revoke, no failed update, no deleted
decider): it is on a list because a verdict in effect holds it or because a
revoke is about to take it off; a holder is on the list or being written; while
it is being written no revoke is about it; and a revoke that found it unshared
still finds it so when it retracts. The last is what the check-then-remove of
`_forever_entry_still_shared` rests on.

**ConsentDesk.** The prompts are about frames on their way, so `DeskInv` follows
each request through the queue of each decider: an `egress_resolved` frame is
only ever about a request that is over, and behind the last `egress_request`
frame of such a request comes its `egress_resolved`. `AnswerInv` says that nothing
but the gate of the pause answers a paused request: a verdict being committed is
about a request whose hold it has popped, and one `resolve()` commits it.
`TypeInv` includes that no queue outgrows its bound, replay included.

**SidecarGate.** `GateInv`: a task is the only one of its connection; every rule,
and every job that will install one, is bounded by the allow that caused it;
after a revoke with nothing under way, no list, cache, job or query can cause a
new rule. `RuleInv` on top of it: `ShapeInv`, the types; `RecordInv`, the chain
has no rule twice and agrees with `LEARNED` and `REJECTED`; `ReasonInv`, every
place a connection can be settled from (a rule, a list, the cache, a job, a DNS
query) goes back to a verdict for it, a lasting one for its name, or an outage.

**AuthSessions.** `FollowInv`: a refresh that fails because its user was deleted
gives up sockets that only the deletion's own cut still reaches. `TableInv` says
what a request knows at each of its steps, above all that the rows it will
delete belong to tokens it has blocklisted by then; `RowInv` speaks of every
token ever minted. `CapInv`: requests that interleave take their victims from
lists of different ages and none alone need remove enough, but one of them does,
or one has still to enforce the cap.

**ContainerLifecycle.** Proved by effects: for every variable one lemma says
which steps change it, another what they make of it, and the conjuncts of `Inv`
follow from those. `TrackedWhenRunning`, `StaysDown` and `SparesLive` have the
hypothesis `"rm" \notin Faults`. Each is false for some constants without it, as
TLC shows: the code logs a removal that failed and goes on. With the faults of
`life_guards` replaced by `die` and `rm`, a container then runs untracked, and
the monitor, when it frees the sidecar of a dead container, takes the untracked
one along. In an unfiltered workspace, or where the sidecar cannot be removed
either, a later start adopts the container that a stop was marked for, and its
next death schedules a restart; otherwise the teardown of the sidecar removes the
container after all. The types, the lock and the bookkeeping of
ids are proved with failing removals too.

Deleting from a list is a recursive function, and the induction theorems of the
library, which take an operator, are out of the provers' reach. `SeqFilterProofs`
therefore argues by the least counterexample. Its lemmas have the hypothesis
`WellOrdered`, that a nonempty set of naturals has a least element; each module
that uses them proves it from the library at its end, so no theorem has it.

Only model-checked: the liveness properties `HoldIsAnswered`, `RelayEnds`,
`StopReturns`, `RequestsEnd`, `DeadIsDropped`, `GoneIsReaped` and `ConnectEnds`,
because fairness is beyond this prover; and the five violations.

## Findings

1. A request whose relay is cancelled between commit and registration stays
   pending until the process starts again or the retention sweep deletes it (30
   days by default), and its destination is denied as a duplicate meanwhile
   (`hold_pending_ends`).
2. A `/stop` that finds a crash restart under the lock reports `stopped` and
   leaves the restarted container running, and its reset, which names no
   container, makes it untracked (`life_stop`).
3. The idle stop does not name its workspace and the mapping to it is gone by
   then: no stop mark, no cancelled restart, and the sidecar stays
   (`life_sidecar`).
4. An address that the DNS proxy learns while an allow is in effect has a record
   without a host name; the drop of the host does not find it, and its ACCEPT
   rule outlives the acknowledged revoke (`gate_ack`).
5. A refresh that has passed the blocklist check when a logout of the same token
   commits goes on: its own blocklist entry is ignored (`INSERT OR IGNORE`),
   which `_swap_token` does not notice, `replace_session` writes a row for the
   new token and the client gets it, live, after the session was "fully
   terminated" (`sessions_refresh`). An eviction or an idle timeout that comes
   between has the same effect.

Other behaviours the models show, about which the repository says less or
nothing definite:

- The cap on pending requests is counted and used in two steps, so that relays
  of two destinations can exceed it by one.
- `stop()` does not await a timeout task that has already popped its hold.
- `stopping` is a set and not a count: of two overlapping stops the first to end
  exposes the second to the crash monitor. `ExpectedStaysDown` is stated for
  histories without such an overlap.
- A create that outlives its cancelled restart may track its container after the
  stop that cancelled it; the lifecycle properties exclude it through `stray`.
- The evictor reads the container id from the live state object, so a container
  that replaced its victim is evicted in its place.
- A verdict and a revoke of the same list entry that overlap, or a list update
  that fails, can leave the lists and the rows apart; `ListsAgree` is stated for
  entries without either.
- A DNS query begun under an allow and answered after it ended installs a rule
  that no verdict bounds (`crossed`).
- A drop that begins while an allow is on its way to the chain can be followed by
  its rule; `RevokedStaysRevoked` is stated for drops that begin with none
  (`quiet`).
- A revoke that finds no registered socket, or a full send queue, sends no drop
  and answers True, on the ground that a sidecar that is not there enforces
  nothing. A sidecar that has lost its connection, or reads slowly, is alive and
  goes by what it was told. `RevokeIsHonest` says of such a call only that the
  verdict is out of effect, and of the others not that a verdict still to be
  relayed when the call began does not follow the drop.
- A socket that authenticates before a revocation and registers after it stays
  open under a dead jti until its token expires; `SocketsFollow` leaves it out
  (`late`). The same holds for the sockets of a token whose `remove_session` or
  `replace_session` failed.
- A crash or a failure between the two writes of `_swap_token` leaves a
  replacement in the blocklist that a repeated refresh hands out although it has
  no session row; `LiveHasRow` leaves it out (`torn`).

## Not modelled

- Ports, access control, quotas: one transaction or a pure function each, with
  no state that several actors change.
- Health probes, watchdog and schedules: one loop over measurements each.
- Audit: append-only, one cursor per target, delivered at least once.
- Terminals and shared control: bytes relayed to tmux, whose state is elsewhere.
- Login counters, DPoP and step-up; proxy and TLS configuration, podman command
  lines, mail and OIDC, LLM pass-through, files, administration, the command
  line client, and the frontend beyond its list of prompts: cryptography, text,
  external services, or one row at a time.
- Several workspaces under one idle monitor: `ContainerLifecycle` has one.
