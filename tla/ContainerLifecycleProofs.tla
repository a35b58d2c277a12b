---------------------- MODULE ContainerLifecycleProofs ----------------------
(***************************************************************************)
(* The container of a workspace, proved for any number of requests,        *)
(* restarts and containers: every variable keeps its type, a container     *)
(* that runs is tracked once everything is at rest, an expected stop is     *)
(* never followed by a crash restart, and the crash monitor spares every   *)
(* running container that nobody is stopping.                              *)
(*                                                                         *)
(* The proof goes by effects.  For every variable a lemma says which steps *)
(* change it, and a second one what they make of it; StartEnters and       *)
(* StopEnters say by which step a task comes to a place.  The conjuncts of *)
(* the invariant are then proved one at a time from those effects, not     *)
(* action by action.                                                       *)
(***************************************************************************)
EXTENDS ContainerLifecycle, TLAPS

PodState == {"absent", "created", "running", "dead"}
CreState == {"none", "create", "record", "track", "boot", "ready", "ok",
             "failed"}
Place == {"idle", "done"} \cup StartPlaces \cup StopPlaces
Cid == 0 .. MaxContainers

\* Container c has been created: the code has gone past podman create.
Born(c) == c \in Containers /\ cre[c] \notin {"none", "create"}
MaybeBorn(c) == c = None \/ Born(c)

\* The places of a start that holds the workspace lock.
Locked == {"inspect", "discard", "label", "adopt", "adopted", "gate", "sidecar",
           "create", "bringup", "undo", "unwind"}

\* Task t holds the workspace lock.
Holds(t) ==
    \/ t \in Starters /\ at[t] \in Locked
    \/ t \in Stoppers /\ at[t] = "unhook"

\* Task t stands at a place where it has a container to work on.
HasContainer(t) ==
    \/ t \in Starters /\ at[t] \in {"inspect", "adopt", "adopted"}
    \/ t \in Stoppers /\ at[t] \in {"unbind", "remove", "removeonly", "teardown",
                                    "unhook", "settle"}
    \/ t \in Stoppers /\ at[t] = "notify" /\ ~Is(t, "evict")
    \/ t = Monitor /\ at[t] \in {"list", "inspect", "limit"}

\* Whoever stands at a locked place holds the lock.
LockInv == \A t \in Tasks : Holds(t) => lock = t

\* What a task may know of its container.
TaskBorn(t) ==
    /\ HasContainer(t) => Born(cid[t])
    /\ t \in Starters /\ at[t] \in {"lock", "discard", "label", "gate"} =>
         MaybeBorn(cid[t])
    /\ t \in Starters /\ at[t] = "sidecar" =>
         cid[t] \in 1 .. made /\ cre[cid[t]] = "none"
    /\ t \in Starters /\ at[t] = "create" => cid[t] \in 1 .. made
    /\ t \in Requests => MaybeBorn(kept[t])
    /\ t \in Requests /\ kind[t] = "evict" /\ at[t] \in {"notify", "unbind"} =>
         Born(obj[t])
    /\ t \in Stoppers /\ at[t] = "reset" => Is(t, "stop") \/ Is(t, "restart")

\* Every container the program refers to has been created.
BornInv ==
    /\ \A c \in Containers : c > made => cre[c] = "none"
    /\ \A c \in Containers : pod[c] # "absent" => Born(c)
    /\ MaybeBorn(row) /\ MaybeBorn(state)
    /\ \A h \in Stoppers : MaybeBorn(obj[h])
    /\ \A t \in Tasks : TaskBorn(t)

\* podman has no container but c.
OnlyPod(c) == \A d \in Containers : d # c => pod[d] = "absent"

\* At most one container exists; the monitor handles one that is down, and a
\* stop that has removed its container finds it gone.
PodInv ==
    /\ \A c, d \in Containers : pod[c] # "absent" /\ pod[d] # "absent" => c = d
    /\ at[Monitor] \in {"inspect", "limit", "notify", "unbind", "remove", "removeonly",
                        "teardown", "unhook", "settle"} =>
         pod[cid[Monitor]] \in {"dead", "absent"}
    /\ \A t \in Stoppers : at[t] \in {"teardown", "unhook", "settle"} =>
         pod[cid[t]] = "absent"

\* While no create outlives its restart: every create is waited for under the
\* lock, tracks its container before it boots it, and nothing else exists then.
StrayInv ==
    /\ \A c \in Creating : \E t \in Starters : at[t] = "create" /\ cid[t] = c
    /\ \A c \in Containers : cre[c] = "boot" => state = c
    /\ \A t \in Stoppers : at[t] = "unhook" => state \in {None, cid[t]}
    /\ \A c \in Containers : cre[c] \in {"record", "track"} => OnlyPod(c)
    /\ \A t \in Starters : at[t] \in {"adopt", "adopted"} => OnlyPod(cid[t])
    /\ \A t \in Requests :
         kind[t] = "evict" /\ at[t] = "unbind" /\ pod[cid[t]] # "absent" => obj[t] = cid[t]

\* A running container is tracked, or a stop is about to remove it.
TrackInv ==
    \A c \in Containers : pod[c] = "running" =>
       \/ state = c
       \/ \E t \in Stoppers : at[t] \in {"remove", "removeonly"} /\ cid[t] = c

\* Container c is over: it neither runs nor is tracked, and nobody is about to
\* bring it up or to track it.
Over(c) ==
    /\ state # c
    /\ pod[c] # "running"
    /\ c \notin Creating
    /\ \A t \in Starters : at[t] \in {"adopt", "adopted"} => cid[t] # c

\* A container that a stop was marked for is over once its removal is done, and
\* the workspace is marked until then.
StopInv ==
    /\ \A c \in expected :
         \/ Over(c)
         \/ \E u \in Requests : cid[u] = c /\ at[u] \in {"remove", "teardown", "unhook"}
    /\ \A u \in Requests : u \in Stopping => stopping \/ Over(cid[u])
    /\ \A t \in Stoppers : at[t] = "settle" => Over(cid[t])

\* Only the monitor tears down beside another stop, and the same container.
OverlapInv ==
    \A t, u \in Stopping : t # u => Monitor \in {t, u} /\ cid[t] = cid[u]

\* The stop epoch tells the monitor of every stop since its sweep.
EpochInv ==
    /\ seen <= epoch
    /\ at[Monitor] \in {"remove", "teardown", "unhook", "settle"} => seen < epoch
    /\ at[Monitor] \in {"list", "inspect", "limit", "notify", "unbind"} /\ epoch = seen =>
         cid[Monitor] \notin expected
    /\ at[Monitor] \in {"remove", "teardown", "unhook", "settle"} /\ epoch <= seen + 1 =>
         cid[Monitor] \notin expected
    /\ pending # Nobody => cid[Monitor] \notin expected

\* Stops are marked for containers that have been created.
ExpectedBorn == \A c \in expected : Born(c)

\* The inductive invariant.  What holds whatever podman does comes first; the
\* rest needs removals that succeed.
Inv ==
    /\ TypeOK /\ LockInv /\ BornInv /\ ExpectedBorn
    /\ ~overlap => OverlapInv
    /\ "rm" \notin Faults =>
         /\ PodInv
         /\ ~stray => StrayInv
         /\ Guarded => TrackInv
         /\ ~stray /\ ~overlap => StopInv /\ EpochInv

-----------------------------------------------------------------------------
(* Which steps change a variable *)

\* The steps that change podman's containers.
LEMMA PodChanges ==
  ASSUME Next, pod' # pod
  PROVE  \/ \E t \in Starters : StartDiscard(t) \/ StartLabel(t) \/ StartSidecar(t)
                                \/ StartUndo(t)
         \/ \E c \in Containers : CreateContainer(c) \/ CreateBoot(c) \/ Dies(c)
         \/ \E t \in Restarts : RestartCancelled(t) \/ RestartUnwinds(t)
         \/ \E t \in Stoppers : StopRemove(t) \/ StopUnhook(t)
  BY ZenonT(30) DEF Next, StartStep, CreateStep, RestartStep, StopStep,
     MonitorStep, StartBegin, StartLock, StartInspect, StartAdopt,
     StartAdopted, StartGate, StartCreated, StartBringup, CreateRecord,
     CreateTrack, CreateReady, RestartWakes, StopBegin, RecycleBegin,
     IdleBegin, LogoutBegin, DrainBegin, EvictBegin, StopNotify, StopUnbind,
     StopTeardown, StopSettle, StopReset, Sweep, SweepListed, DeathEntry,
     DeathConfirmed, DeathSettled, world

\* The steps that change the number of containers.
LEMMA MadeChanges ==
  ASSUME Next, made' # made
  PROVE  \E t \in Starters : StartGate(t)
  BY ZenonT(30) DEF Next, StartStep, CreateStep, RestartStep, StopStep,
     MonitorStep, StartBegin, StartLock, StartInspect, StartDiscard,
     StartLabel, StartAdopt, StartAdopted, StartSidecar, StartCreated,
     StartBringup, StartUndo, CreateContainer, CreateRecord, CreateTrack,
     CreateBoot, CreateReady, Dies, RestartWakes, RestartCancelled,
     RestartUnwinds, StopBegin, RecycleBegin, IdleBegin, LogoutBegin,
     DrainBegin, EvictBegin, StopNotify, StopUnbind, StopRemove, StopTeardown,
     StopUnhook, StopSettle, StopReset, Sweep, SweepListed, DeathEntry,
     DeathConfirmed, DeathSettled, world

\* The steps that change the sidecar.
LEMMA SidecarChanges ==
  ASSUME Next, sidecar' # sidecar
  PROVE  \/ \E t \in Starters : StartSidecar(t) \/ StartUndo(t)
         \/ \E t \in Restarts : RestartCancelled(t) \/ RestartUnwinds(t)
         \/ \E t \in Stoppers : StopUnhook(t)
  BY ZenonT(30) DEF Next, StartStep, CreateStep, RestartStep, StopStep,
     MonitorStep, StartBegin, StartLock, StartInspect, StartDiscard,
     StartLabel, StartAdopt, StartAdopted, StartGate, StartCreated,
     StartBringup, CreateContainer, CreateRecord, CreateTrack, CreateBoot,
     CreateReady, Dies, RestartWakes, StopBegin, RecycleBegin, IdleBegin,
     LogoutBegin, DrainBegin, EvictBegin, StopNotify, StopUnbind, StopRemove,
     StopTeardown, StopSettle, StopReset, Sweep, SweepListed, DeathEntry,
     DeathConfirmed, DeathSettled, world

\* The steps that change the row.
LEMMA RowChanges ==
  ASSUME Next, row' # row
  PROVE  \/ \E t \in Starters : StartAdopt(t)
         \/ \E c \in Containers : CreateRecord(c)
         \/ \E t \in Restarts : RestartCancelled(t)
  BY ZenonT(30) DEF Next, StartStep, CreateStep, RestartStep, StopStep,
     MonitorStep, StartBegin, StartLock, StartInspect, StartDiscard,
     StartLabel, StartAdopted, StartGate, StartSidecar, StartCreated,
     StartBringup, StartUndo, CreateContainer, CreateTrack, CreateBoot,
     CreateReady, Dies, RestartWakes, RestartUnwinds, StopBegin, RecycleBegin,
     IdleBegin, LogoutBegin, DrainBegin, EvictBegin, StopNotify, StopUnbind,
     StopRemove, StopTeardown, StopUnhook, StopSettle, StopReset, Sweep,
     SweepListed, DeathEntry, DeathConfirmed, DeathSettled

\* The steps that change the tracked container.
LEMMA StateChanges ==
  ASSUME Next, state' # state
  PROVE  \/ \E t \in Starters : StartInspect(t) \/ StartAdopted(t)
         \/ \E c \in Containers : CreateTrack(c)
         \/ \E t \in Stoppers : StopUnbind(t) \/ StopUnhook(t) \/ StopReset(t)
  BY ZenonT(30) DEF Next, StartStep, CreateStep, RestartStep, StopStep,
     MonitorStep, StartBegin, StartLock, StartDiscard, StartLabel, StartAdopt,
     StartGate, StartSidecar, StartCreated, StartBringup, StartUndo,
     CreateContainer, CreateRecord, CreateBoot, CreateReady, Dies,
     RestartWakes, RestartCancelled, RestartUnwinds, StopBegin, RecycleBegin,
     IdleBegin, LogoutBegin, DrainBegin, EvictBegin, StopNotify, StopRemove,
     StopTeardown, StopSettle, Sweep, SweepListed, DeathEntry, DeathConfirmed,
     DeathSettled, registry

\* The steps that change the reverse mapping.
LEMMA KnownChanges ==
  ASSUME Next, known' # known
  PROVE  \/ \E t \in Starters : StartInspect(t) \/ StartAdopted(t)
         \/ \E c \in Containers : CreateTrack(c)
         \/ \E t \in Stoppers : StopUnbind(t) \/ StopUnhook(t) \/ StopReset(t)
  BY ZenonT(30) DEF Next, StartStep, CreateStep, RestartStep, StopStep,
     MonitorStep, StartBegin, StartLock, StartDiscard, StartLabel, StartAdopt,
     StartGate, StartSidecar, StartCreated, StartBringup, StartUndo,
     CreateContainer, CreateRecord, CreateBoot, CreateReady, Dies,
     RestartWakes, RestartCancelled, RestartUnwinds, StopBegin, RecycleBegin,
     IdleBegin, LogoutBegin, DrainBegin, EvictBegin, StopNotify, StopRemove,
     StopTeardown, StopSettle, Sweep, SweepListed, DeathEntry, DeathConfirmed,
     DeathSettled, registry

\* The steps that change the captured state objects.
LEMMA ObjChanges ==
  ASSUME Next, obj' # obj
  PROVE  \/ \E t \in Starters : StartInspect(t) \/ StartAdopted(t)
         \/ \E c \in Containers : CreateTrack(c)
         \/ \E t \in Stoppers : EvictBegin(t)
         \/ Sweep \/ DeathEntry
  BY ZenonT(30) DEF Next, StartStep, CreateStep, RestartStep, StopStep,
     MonitorStep, StartBegin, StartLock, StartDiscard, StartLabel, StartAdopt,
     StartGate, StartSidecar, StartCreated, StartBringup, StartUndo,
     CreateContainer, CreateRecord, CreateBoot, CreateReady, Dies,
     RestartWakes, RestartCancelled, RestartUnwinds, StopBegin, RecycleBegin,
     IdleBegin, LogoutBegin, DrainBegin, StopNotify, StopUnbind, StopRemove,
     StopTeardown, StopUnhook, StopSettle, StopReset, SweepListed,
     DeathConfirmed, DeathSettled, registry, Untrack, StopUnbind, StopUnhook,
     StopReset

\* The steps that change whether a captured object is current.
LEMMA HeldChanges ==
  ASSUME Next, held' # held
  PROVE  \/ \E t \in Stoppers : EvictBegin(t) \/ StopUnbind(t) \/ StopUnhook(t) \/ StopReset(t)
         \/ Sweep \/ DeathEntry
  BY ZenonT(30) DEF Next, StartStep, CreateStep, RestartStep, StopStep,
     MonitorStep, StartBegin, StartLock, StartInspect, StartDiscard,
     StartLabel, StartAdopt, StartAdopted, StartGate, StartSidecar,
     StartCreated, StartBringup, StartUndo, CreateContainer, CreateRecord,
     CreateTrack, CreateBoot, CreateReady, Dies, RestartWakes,
     RestartCancelled, RestartUnwinds, StopBegin, RecycleBegin, IdleBegin,
     LogoutBegin, DrainBegin, StopNotify, StopRemove, StopTeardown,
     StopSettle, SweepListed, DeathConfirmed, DeathSettled, registry, Track

\* The steps that change the stop mark.
LEMMA StoppingChanges ==
  ASSUME Next, stopping' # stopping
  PROVE  \/ \E t \in Stoppers : StopBegin(t) \/ RecycleBegin(t) \/ StopNotify(t)
                                \/ StopUnbind(t) \/ StopSettle(t)
         \/ DeathConfirmed \/ DeathSettled
  BY ZenonT(30) DEF Next, StartStep, CreateStep, RestartStep, StopStep,
     MonitorStep, StartBegin, StartLock, StartInspect, StartDiscard,
     StartLabel, StartAdopt, StartAdopted, StartGate, StartSidecar,
     StartCreated, StartBringup, StartUndo, CreateContainer, CreateRecord,
     CreateTrack, CreateBoot, CreateReady, Dies, RestartWakes,
     RestartCancelled, RestartUnwinds, IdleBegin, LogoutBegin, DrainBegin,
     EvictBegin, StopRemove, StopTeardown, StopUnhook, StopReset, Sweep,
     SweepListed, DeathEntry, marks

\* The steps that change the stop epoch.
LEMMA EpochChanges ==
  ASSUME Next, epoch' # epoch
  PROVE  \/ \E t \in Stoppers : StopBegin(t) \/ RecycleBegin(t) \/ StopNotify(t)
                                \/ StopUnbind(t)
         \/ DeathConfirmed
  BY ZenonT(30) DEF Next, StartStep, CreateStep, RestartStep, StopStep,
     MonitorStep, StartBegin, StartLock, StartInspect, StartDiscard,
     StartLabel, StartAdopt, StartAdopted, StartGate, StartSidecar,
     StartCreated, StartBringup, StartUndo, CreateContainer, CreateRecord,
     CreateTrack, CreateBoot, CreateReady, Dies, RestartWakes,
     RestartCancelled, RestartUnwinds, IdleBegin, LogoutBegin, DrainBegin,
     EvictBegin, StopRemove, StopTeardown, StopUnhook, StopSettle, StopReset,
     Sweep, SweepListed, DeathEntry, DeathSettled, marks

\* The steps that change the containers stops were marked for.
LEMMA ExpectedChanges ==
  ASSUME Next, expected' # expected
  PROVE  \/ \E t \in Stoppers : StopBegin(t) \/ RecycleBegin(t) \/ StopNotify(t)
                                \/ StopUnbind(t)
         \/ DeathConfirmed
  BY ZenonT(30) DEF Next, StartStep, CreateStep, RestartStep, StopStep,
     MonitorStep, StartBegin, StartLock, StartInspect, StartDiscard,
     StartLabel, StartAdopt, StartAdopted, StartGate, StartSidecar,
     StartCreated, StartBringup, StartUndo, CreateContainer, CreateRecord,
     CreateTrack, CreateBoot, CreateReady, Dies, RestartWakes,
     RestartCancelled, RestartUnwinds, IdleBegin, LogoutBegin, DrainBegin,
     EvictBegin, StopRemove, StopTeardown, StopUnhook, StopSettle, StopReset,
     Sweep, SweepListed, DeathEntry, DeathSettled, history, planned

\* The steps that change the overlap of stops.
LEMMA OverlapChanges ==
  ASSUME Next, overlap' # overlap
  PROVE  \/ \E t \in Stoppers : StopBegin(t) \/ RecycleBegin(t) \/ StopNotify(t)
                                \/ StopUnbind(t)
         \/ DeathConfirmed
  BY ZenonT(30) DEF Next, StartStep, CreateStep, RestartStep, StopStep,
     MonitorStep, StartBegin, StartLock, StartInspect, StartDiscard,
     StartLabel, StartAdopt, StartAdopted, StartGate, StartSidecar,
     StartCreated, StartBringup, StartUndo, CreateContainer, CreateRecord,
     CreateTrack, CreateBoot, CreateReady, Dies, RestartWakes,
     RestartCancelled, RestartUnwinds, IdleBegin, LogoutBegin, DrainBegin,
     EvictBegin, StopRemove, StopTeardown, StopUnhook, StopSettle, StopReset,
     Sweep, SweepListed, DeathEntry, DeathSettled, history, planned

\* The steps that change the attempts.
LEMMA AttemptsChanges ==
  ASSUME Next, attempts' # attempts
  PROVE  \/ \E t \in Starters : StartLock(t) \/ StartInspect(t) \/ StartDiscard(t)
                                \/ StartLabel(t) \/ StartAdopted(t) \/ StartGate(t)
                                \/ StartSidecar(t) \/ StartCreated(t) \/ StartBringup(t)
                                \/ StartUndo(t)
         \/ \E t \in Stoppers : StopBegin(t) \/ RecycleBegin(t) \/ StopNotify(t)
                                \/ StopUnbind(t) \/ StopSettle(t)
         \/ SweepListed \/ DeathConfirmed \/ DeathSettled
  BY ZenonT(30) DEF Next, StartStep, CreateStep, RestartStep, StopStep,
     MonitorStep, StartBegin, StartAdopt, CreateContainer, CreateRecord,
     CreateTrack, CreateBoot, CreateReady, Dies, RestartWakes,
     RestartCancelled, RestartUnwinds, IdleBegin, LogoutBegin, DrainBegin,
     EvictBegin, StopRemove, StopTeardown, StopUnhook, StopReset, Sweep,
     DeathEntry, crash

\* The steps that change the pending restart.
LEMMA PendingChanges ==
  ASSUME Next, pending' # pending
  PROVE  \/ \E t \in Starters : StartLock(t) \/ StartInspect(t) \/ StartDiscard(t)
                                \/ StartLabel(t) \/ StartAdopted(t) \/ StartGate(t)
                                \/ StartSidecar(t) \/ StartCreated(t) \/ StartBringup(t)
                                \/ StartUndo(t)
         \/ \E t \in Restarts : RestartWakes(t)
         \/ \E t \in Stoppers : StopBegin(t) \/ RecycleBegin(t) \/ StopNotify(t)
                                \/ StopUnbind(t) \/ StopSettle(t)
         \/ DeathConfirmed \/ DeathSettled
  BY ZenonT(30) DEF Next, StartStep, CreateStep, RestartStep, StopStep,
     MonitorStep, StartBegin, StartAdopt, CreateContainer, CreateRecord,
     CreateTrack, CreateBoot, CreateReady, Dies, RestartCancelled,
     RestartUnwinds, IdleBegin, LogoutBegin, DrainBegin, EvictBegin,
     StopRemove, StopTeardown, StopUnhook, StopReset, Sweep, SweepListed,
     DeathEntry, crash

\* The steps that change the lock.
LEMMA LockChanges ==
  ASSUME Next, lock' # lock
  PROVE  \/ \E t \in Starters : StartLock(t) \/ StartInspect(t) \/ StartDiscard(t)
                                \/ StartLabel(t) \/ StartAdopted(t) \/ StartGate(t)
                                \/ StartSidecar(t) \/ StartCreated(t) \/ StartBringup(t)
                                \/ StartUndo(t)
         \/ \E t \in Restarts : RestartCancelled(t) \/ RestartUnwinds(t)
         \/ \E t \in Stoppers : StopTeardown(t) \/ StopUnhook(t)
  BY ZenonT(30) DEF Next, StartStep, CreateStep, RestartStep, StopStep,
     MonitorStep, StartBegin, StartAdopt, CreateContainer, CreateRecord,
     CreateTrack, CreateBoot, CreateReady, Dies, RestartWakes, StopBegin,
     RecycleBegin, IdleBegin, LogoutBegin, DrainBegin, EvictBegin, StopNotify,
     StopUnbind, StopRemove, StopSettle, StopReset, Sweep, SweepListed,
     DeathEntry, DeathConfirmed, DeathSettled

\* The steps that change what a /restart keeps.
LEMMA KeptChanges ==
  ASSUME Next, kept' # kept
  PROVE  \E t \in Stoppers : RecycleBegin(t)
  BY ZenonT(30) DEF Next, StartStep, CreateStep, RestartStep, StopStep,
     MonitorStep, StartBegin, StartLock, StartInspect, StartDiscard,
     StartLabel, StartAdopt, StartAdopted, StartGate, StartSidecar,
     StartCreated, StartBringup, StartUndo, CreateContainer, CreateRecord,
     CreateTrack, CreateBoot, CreateReady, Dies, RestartWakes,
     RestartCancelled, RestartUnwinds, StopBegin, IdleBegin, LogoutBegin,
     DrainBegin, EvictBegin, StopNotify, StopUnbind, StopRemove, StopTeardown,
     StopUnhook, StopSettle, StopReset, Sweep, SweepListed, DeathEntry,
     DeathConfirmed, DeathSettled, memory

\* The steps that change the epoch the sweep has seen.
LEMMA SeenChanges ==
  ASSUME Next, seen' # seen
  PROVE  Sweep
  BY ZenonT(30) DEF Next, StartStep, CreateStep, RestartStep, StopStep,
     MonitorStep, StartBegin, StartLock, StartInspect, StartDiscard,
     StartLabel, StartAdopt, StartAdopted, StartGate, StartSidecar,
     StartCreated, StartBringup, StartUndo, CreateContainer, CreateRecord,
     CreateTrack, CreateBoot, CreateReady, Dies, RestartWakes,
     RestartCancelled, RestartUnwinds, StopBegin, RecycleBegin, IdleBegin,
     LogoutBegin, DrainBegin, EvictBegin, StopNotify, StopUnbind, StopRemove,
     StopTeardown, StopUnhook, StopSettle, StopReset, SweepListed, DeathEntry,
     DeathConfirmed, DeathSettled, memory

\* The steps that change the attempts the death handling has seen.
LEMMA TriesChanges ==
  ASSUME Next, tries' # tries
  PROVE  DeathConfirmed
  BY ZenonT(30) DEF Next, StartStep, CreateStep, RestartStep, StopStep,
     MonitorStep, StartBegin, StartLock, StartInspect, StartDiscard,
     StartLabel, StartAdopt, StartAdopted, StartGate, StartSidecar,
     StartCreated, StartBringup, StartUndo, CreateContainer, CreateRecord,
     CreateTrack, CreateBoot, CreateReady, Dies, RestartWakes,
     RestartCancelled, RestartUnwinds, StopBegin, RecycleBegin, IdleBegin,
     LogoutBegin, DrainBegin, EvictBegin, StopNotify, StopUnbind, StopRemove,
     StopTeardown, StopUnhook, StopSettle, StopReset, Sweep, SweepListed,
     DeathEntry, DeathSettled, memory

\* The steps that change the creates.
LEMMA CreChanges ==
  ASSUME Next, cre' # cre
  PROVE  \/ \E t \in Starters : StartGate(t) \/ StartSidecar(t)
         \/ \E c \in Containers : CreateContainer(c) \/ CreateRecord(c) \/ CreateTrack(c)
                                  \/ CreateBoot(c) \/ CreateReady(c)
  BY ZenonT(30) DEF Next, StartStep, CreateStep, RestartStep, StopStep,
     MonitorStep, StartBegin, StartLock, StartInspect, StartDiscard,
     StartLabel, StartAdopt, StartAdopted, StartCreated, StartBringup,
     StartUndo, Dies, RestartWakes, RestartCancelled, RestartUnwinds,
     StopBegin, RecycleBegin, IdleBegin, LogoutBegin, DrainBegin, EvictBegin,
     StopNotify, StopUnbind, StopRemove, StopTeardown, StopUnhook, StopSettle,
     StopReset, Sweep, SweepListed, DeathEntry, DeathConfirmed, DeathSettled

\* The steps that change whether a create has outlived its restart.
LEMMA StrayChanges ==
  ASSUME Next, stray' # stray
  PROVE  \E t \in Restarts : RestartCancelled(t)
  BY ZenonT(30) DEF Next, StartStep, CreateStep, RestartStep, StopStep,
     MonitorStep, StartBegin, StartLock, StartInspect, StartDiscard,
     StartLabel, StartAdopt, StartAdopted, StartGate, StartSidecar,
     StartCreated, StartBringup, StartUndo, CreateContainer, CreateRecord,
     CreateTrack, CreateBoot, CreateReady, Dies, RestartWakes, RestartUnwinds,
     StopBegin, RecycleBegin, IdleBegin, LogoutBegin, DrainBegin, EvictBegin,
     StopNotify, StopUnbind, StopRemove, StopTeardown, StopUnhook, StopSettle,
     StopReset, Sweep, SweepListed, DeathEntry, DeathConfirmed, DeathSettled,
     history

\* The steps that change what the last user action asked for.
LEMMA WantedChanges ==
  ASSUME Next, wanted' # wanted
  PROVE  \/ \E t \in Starters : StartBegin(t)
         \/ \E t \in Stoppers : StopBegin(t) \/ RecycleBegin(t)
  BY ZenonT(30) DEF Next, StartStep, CreateStep, RestartStep, StopStep,
     MonitorStep, StartLock, StartInspect, StartDiscard, StartLabel,
     StartAdopt, StartAdopted, StartGate, StartSidecar, StartCreated,
     StartBringup, StartUndo, CreateContainer, CreateRecord, CreateTrack,
     CreateBoot, CreateReady, Dies, RestartWakes, RestartCancelled,
     RestartUnwinds, IdleBegin, LogoutBegin, DrainBegin, EvictBegin,
     StopNotify, StopUnbind, StopRemove, StopTeardown, StopUnhook, StopSettle,
     StopReset, Sweep, SweepListed, DeathEntry, DeathConfirmed, DeathSettled,
     history

-----------------------------------------------------------------------------
(* What exists in podman *)

\* A container only comes up by podman create and podman start; anything else
\* leaves it as it is, kills it or removes it.
Calms(c) == pod'[c] \in {pod[c], "absent"} \/ (pod[c] = "running" /\ pod'[c] = "dead")

\* Removing a sidecar removes containers and changes none otherwise.
LEMMA FreedCalms ==
  ASSUME TypeOK
  PROVE  /\ Freed \in [Containers -> PodState]
         /\ \A c \in Containers : Freed[c] \in {pod[c], "absent"}
BY DEF TypeOK, Freed, PodState

\* What one step does to podman's containers.
LEMMA PodStep ==
  ASSUME TypeOK, Next
  PROVE  /\ pod' \in [Containers -> PodState]
         /\ \A c \in Containers : Calms(c) \/ CreateContainer(c) \/ CreateBoot(c)
<1>0. pod \in [Containers -> PodState]
  BY DEF TypeOK, PodState
<1>1. CASE \E t \in Starters : StartDiscard(t)
  BY <1>0, <1>1 DEF StartDiscard, Calms, PodState
<1>2. CASE \E t \in Starters : StartLabel(t)
  BY <1>0, <1>2 DEF StartLabel, Calms, PodState, Without
<1>3. CASE \E t \in Starters : StartSidecar(t) \/ StartUndo(t)
  BY <1>0, <1>3, FreedCalms DEF StartSidecar, StartUndo, DropSidecar, Calms
<1>4. CASE \E t \in Restarts : RestartCancelled(t)
  <2>1. PICK t \in Restarts : RestartCancelled(t)
    BY <1>4
  <2>2. \/ pod' = pod \/ pod' = Freed
        \/ pod' = [pod EXCEPT ![cid[t]] = "absent"]
        \/ \E gone \in SUBSET Down : pod' = Without(gone)
    BY Zenon, <2>1 DEF RestartCancelled, DropSidecar
  <2> QED BY <1>0, <2>2, FreedCalms DEF Calms, PodState, Without
<1>5. CASE \E t \in Restarts : RestartUnwinds(t)
  BY <1>0, <1>5, FreedCalms DEF RestartUnwinds, DropSidecar, Calms
<1>6. CASE \E t \in Stoppers : StopRemove(t) \/ StopUnhook(t)
  BY <1>0, <1>6, FreedCalms DEF StopRemove, StopUnhook, DropSidecar, Calms, PodState
<1>7. CASE \E c \in Containers : CreateContainer(c)
  BY <1>0, <1>7 DEF CreateContainer, Calms, PodState
<1>8. CASE \E c \in Containers : CreateBoot(c)
  BY <1>0, <1>8 DEF CreateBoot, Calms, PodState
<1>9. CASE \E c \in Containers : Dies(c)
  BY <1>0, <1>9 DEF Dies, Calms, PodState
<1>10. CASE pod' = pod
  BY <1>0, <1>10 DEF Calms
<1> QED
  BY Zenon, PodChanges, <1>1, <1>2, <1>3, <1>4, <1>5, <1>6, <1>7, <1>8, <1>9, <1>10

-----------------------------------------------------------------------------
(* Which task moves *)

\* Task t, its container and its request are left alone.
Stays(t) ==
    /\ at'[t] = at[t]
    /\ cid'[t] = cid[t]
    /\ t \in Requests => kind'[t] = kind[t] /\ kept'[t] = kept[t]

\* What the requests and the monitor do as stops, and what begins.
Begins(t) == StopBegin(t) \/ RecycleBegin(t) \/ IdleBegin(t) \/ LogoutBegin(t)
             \/ DrainBegin(t) \/ EvictBegin(t)

\* The steps of task t itself.
Acts(t) ==
    \/ t \in Starters /\ (StartBegin(t) \/ StartStep(t))
    \/ t \in Restarts /\ RestartStep(t)
    \/ t \in Stoppers /\ (Begins(t) \/ StopStep(t))
    \/ t = Monitor /\ (Sweep \/ MonitorStep)

\* A task that moves leaves the others where they are.
LEMMA GoAlone ==
  ASSUME TypeOK, NEW t \in Tasks, NEW p \in Place, Go(t, p)
  PROVE  /\ at' \in [Tasks -> Place]
         /\ at'[t] = p
         /\ \A u \in Tasks \ {t} : at'[u] = at[u]
BY DEF TypeOK, Go, Place

\* A request that arrives leaves the other requests as they are.
LEMMA KindAlone ==
  ASSUME TypeOK, NEW t, NEW k, Arrives(t, k)
  PROVE  /\ t \in Requests /\ at[t] = "idle" /\ k \in Kinds
         /\ kind' \in [Requests -> Kinds \cup {"none"}]
         /\ kind'[t] = k
         /\ \A u \in Requests \ {t} : kind'[u] = kind[u]
BY DEF TypeOK, Arrives

\* The end of a start: the attempts stay bounded, and no restart becomes
\* pending.
LEMMA ReleaseAlone ==
  ASSUME TypeOK, NEW t \in Tasks, NEW ok \in BOOLEAN, Release(t, ok)
  PROVE  /\ lock' = Nobody
         /\ attempts' \in 0 .. MaxAttempts
         /\ pending' \in {pending, Nobody}
         /\ \E p \in {"done", "idle", "sleep"} : Go(t, p)
         /\ t \notin Restarts => Go(t, "done")
<1>1. /\ lock' = Nobody
      /\ pending' \in {pending, Nobody}
      /\ \E p \in {"done", "idle", "sleep"} : Go(t, p)
      /\ t \notin Restarts => Go(t, "done")
  BY Zenon DEF Release, crash
<1>2. attempts' \in 0 .. MaxAttempts
  BY ConstantsAssumption DEF Release, crash, TypeOK
<1> QED BY Zenon, <1>1, <1>2

\* What the entry of a stop does to the variables the other lemmas follow.
LEMMA BeginStopAlone ==
  ASSUME TypeOK, NEW t \in Tasks, NEW c \in Cid, NEW tracked, BeginStop(t, c, tracked)
  PROVE  /\ cid' = [cid EXCEPT ![t] = c]
         /\ \E p \in {"remove", "removeonly"} : Go(t, p)
         /\ stopping' \in BOOLEAN
         /\ epoch' \in Nat
         /\ attempts' \in 0 .. MaxAttempts
         /\ pending' \in {pending, Nobody}
<1>1. /\ cid' = [cid EXCEPT ![t] = c]
      /\ \E p \in {"remove", "removeonly"} : Go(t, p)
      /\ pending' \in {pending, Nobody}
  BY Zenon DEF BeginStop, ClearCrash, crash
<1>2. stopping' \in BOOLEAN
  BY Zenon DEF BeginStop, marks, TypeOK
<1>3. epoch' \in Nat /\ attempts' \in 0 .. MaxAttempts
  BY ConstantsAssumption DEF BeginStop, ClearCrash, crash, marks, TypeOK
<1> QED BY Zenon, <1>1, <1>2, <1>3

\* The same for a stop that begins with its notice.
LEMMA KillNoticeAlone ==
  ASSUME TypeOK, NEW t \in Tasks, NEW c \in Cid, KillNotice(t, c)
  PROVE  /\ cid' = [cid EXCEPT ![t] = c]
         /\ \E p \in {"remove", "removeonly", "unbind"} : Go(t, p)
         /\ stopping' \in BOOLEAN
         /\ epoch' \in Nat
         /\ attempts' \in 0 .. MaxAttempts
         /\ pending' \in {pending, Nobody}
<1>1. CASE Rebound(c)
  BY Zenon, <1>1, BeginStopAlone DEF KillNotice
<1>2. CASE ~Rebound(c)
  BY Zenon, <1>2 DEF KillNotice, marks, crash, TypeOK
<1> QED BY <1>1, <1>2

\* A step that moves task t at most.
One(t) ==
    /\ \E p \in Place : Go(t, p)
    /\ cid' = cid \/ \E c \in Cid : cid' = [cid EXCEPT ![t] = c]
    /\ kind' = kind \/ \E k \in Kinds : Arrives(t, k)
    /\ kept' = kept \/ (t \in Requests /\ kept' = [kept EXCEPT ![t] = row])

\* A step of one task leaves every other task alone.
LEMMA OneAlone ==
  ASSUME TypeOK, NEW t \in Tasks, One(t)
  PROVE  /\ at' \in [Tasks -> Place]
         /\ cid' \in [Tasks -> Cid]
         /\ kind' \in [Requests -> Kinds \cup {"none"}]
         /\ kept' \in [Requests -> Cid]
         /\ \A u \in Tasks \ {t} : Stays(u)
<1>1. /\ at' \in [Tasks -> Place]
      /\ \A u \in Tasks \ {t} : at'[u] = at[u]
  BY Zenon, GoAlone DEF One
<1>2. /\ cid' \in [Tasks -> Cid]
      /\ \A u \in Tasks \ {t} : cid'[u] = cid[u]
  BY DEF One, TypeOK, Cid
<1>3. /\ kind' \in [Requests -> Kinds \cup {"none"}]
      /\ \A u \in Requests \ {t} : kind'[u] = kind[u]
  BY Zenon, KindAlone DEF One, TypeOK
<1>4. /\ kept' \in [Requests -> Cid]
      /\ \A u \in Requests \ {t} : kept'[u] = kept[u]
  BY DEF One, TypeOK, Cid
<1> QED BY Zenon, <1>1, <1>2, <1>3, <1>4 DEF Stays

\* Every step of a start is a step of one task.
LEMMA StartOne ==
  ASSUME TypeOK, NEW t \in Starters, StartBegin(t) \/ StartStep(t)
  PROVE  One(t)
<1> USE DEF memory
<1>0. t \in Tasks /\ {"idle", "done"} \cup StartPlaces \cup StopPlaces = Place
      /\ {"done", "idle", "sleep"} \subseteq Place /\ TRUE \in BOOLEAN /\ FALSE \in BOOLEAN
  BY Zenon DEF Starters, Tasks, Place, StartPlaces
<1>1. CASE StartBegin(t)
  BY Zenon, <1>0, <1>1, KindAlone DEF StartBegin, One, TypeOK, Cid, StartPlaces
<1>2. CASE StartLock(t)
  BY Zenon, <1>0, <1>2 DEF StartLock, One, StartPlaces
<1>3. CASE StartInspect(t)
  BY Zenon, <1>0, <1>3, ReleaseAlone DEF StartInspect, One, StartPlaces
<1>4. CASE StartDiscard(t)
  BY Zenon, <1>0, <1>4, ReleaseAlone DEF StartDiscard, One, StartPlaces
<1>5. CASE StartLabel(t)
  <2>1. Containers \subseteq Cid
    BY ConstantsAssumption DEF Containers, Cid
  <2> QED BY Zenon, <1>0, <1>5, <2>1, ReleaseAlone DEF StartLabel, One, StartPlaces
<1>6. CASE StartAdopt(t)
  BY Zenon, <1>0, <1>6 DEF StartAdopt, One, StartPlaces
<1>7. CASE StartAdopted(t)
  BY Zenon, <1>0, <1>7, ReleaseAlone DEF StartAdopted, One, StartPlaces
<1>8. CASE StartGate(t)
  <2>1. made < MaxContainers => made + 1 \in Cid
    BY ConstantsAssumption DEF TypeOK, Cid
  <2> QED BY Zenon, <1>0, <1>8, <2>1, ReleaseAlone DEF StartGate, One, StartPlaces
<1>9. CASE StartSidecar(t)
  BY Zenon, <1>0, <1>9, ReleaseAlone DEF StartSidecar, One, StartPlaces
<1>10. CASE StartCreated(t)
  BY Zenon, <1>0, <1>10, ReleaseAlone DEF StartCreated, One, StartPlaces
<1>11. CASE StartBringup(t)
  BY Zenon, <1>0, <1>11, ReleaseAlone DEF StartBringup, One
<1>12. CASE StartUndo(t)
  BY Zenon, <1>0, <1>12, ReleaseAlone DEF StartUndo, One
<1> QED
  BY Zenon, <1>1, <1>2, <1>3, <1>4, <1>5, <1>6, <1>7, <1>8, <1>9, <1>10, <1>11, <1>12
     DEF StartStep

\* Every step of a delayed restart is a step of one task.
LEMMA RestartOne ==
  ASSUME TypeOK, NEW t \in Restarts, RestartStep(t)
  PROVE  One(t)
<1>1. t \in Tasks /\ row \in Cid
  BY Zenon DEF Tasks, TypeOK, Cid
<1> QED
  BY Zenon, <1>1
     DEF RestartStep, RestartWakes, RestartCancelled, RestartUnwinds, One, Place,
         StartPlaces, memory

\* Every step of a stop is a step of one task.
LEMMA StopOne ==
  ASSUME TypeOK, NEW t \in Stoppers, Begins(t) \/ StopStep(t)
  PROVE  One(t)
<1> USE DEF memory
<1>0. /\ t \in Tasks /\ row \in Cid /\ state \in Cid /\ obj[t] \in Cid /\ cid[t] \in Cid
      /\ \A u \in Requests : kept[u] \in Cid
  BY Zenon DEF Stoppers, Tasks, TypeOK, Cid
<1>1. {"remove", "removeonly", "unbind"} \subseteq Place
  BY Zenon DEF Place, StopPlaces
<1>2. CASE StopBegin(t)
  BY Zenon, <1>0, <1>1, <1>2, KindAlone, KillNoticeAlone DEF StopBegin, One, StopPlaces, Place
<1>3. CASE RecycleBegin(t)
  BY Zenon, <1>0, <1>1, <1>3, KindAlone, BeginStopAlone DEF RecycleBegin, One, StopPlaces, Place
<1>4. CASE IdleBegin(t) \/ LogoutBegin(t) \/ DrainBegin(t) \/ EvictBegin(t)
  BY Zenon, <1>0, <1>4, KindAlone
     DEF IdleBegin, LogoutBegin, DrainBegin, EvictBegin, One, StopPlaces, Place
<1>5. CASE StopNotify(t)
  BY Zenon, <1>0, <1>1, <1>5, KillNoticeAlone DEF StopNotify, One
<1>6. CASE StopUnbind(t)
  BY Zenon, <1>0, <1>1, <1>6, BeginStopAlone DEF StopUnbind, One
<1>7. CASE StopRemove(t) \/ StopTeardown(t) \/ StopUnhook(t) \/ StopSettle(t)
  BY Zenon, <1>0, <1>7
     DEF StopRemove, StopTeardown, StopUnhook, StopSettle, One, StopPlaces, Place
<1>8. CASE StopReset(t)
  BY Zenon, <1>0, <1>8 DEF StopReset, Is, One, StartPlaces, Place
<1> QED
  BY Zenon, <1>2, <1>3, <1>4, <1>5, <1>6, <1>7, <1>8 DEF Begins, StopStep

\* The monitor moves itself only, but for the restart it schedules.
LEMMA MonitorOne ==
  ASSUME TypeOK, Sweep \/ SweepListed \/ DeathEntry \/ DeathConfirmed
  PROVE  One(Monitor)
<1> USE DEF memory
<1>0. Monitor \in Tasks /\ state \in Cid /\ cid[Monitor] \in Cid
  BY Zenon DEF Tasks, TypeOK, Cid
<1>1. CASE DeathConfirmed
  <2>1. {"remove", "removeonly", "unbind"} \subseteq Place
    BY Zenon DEF Place, StopPlaces
  <2> QED BY Zenon, <1>0, <1>1, <2>1, KillNoticeAlone DEF DeathConfirmed, One, Place
<1>2. CASE Sweep \/ SweepListed \/ DeathEntry
  BY Zenon, <1>0, <1>2 DEF Sweep, SweepListed, DeathEntry, One, StopPlaces, Place
<1> QED BY Zenon, <1>1, <1>2

\* The delayed restart t is scheduled.
Scheduled(t) ==
    /\ t \in Restarts /\ at[t] = "idle" /\ at'[t] = "sleep" /\ cid'[t] = cid[t]
    /\ DeathSettled

\* The settling of a death moves the monitor and the restart it schedules.
LEMMA DeathSettledAlone ==
  ASSUME TypeOK, DeathSettled
  PROVE  /\ at' \in [Tasks -> Place]
         /\ at'[Monitor] = "idle"
         /\ \A u \in Tasks \ {Monitor} : Stays(u) \/ Scheduled(u)
         /\ UNCHANGED <<cid, kind, kept>>
<1>1. UNCHANGED <<cid, kind, kept>>
  BY Zenon DEF DeathSettled, memory
<1>2. Monitor \in Tasks /\ Monitor \notin Restarts /\ Restarts \subseteq Tasks
  BY Zenon, ConstantsAssumption DEF Tasks
<1>3. at \in [Tasks -> Place] /\ "idle" \in Place /\ "sleep" \in Place
  BY Zenon DEF TypeOK, Place, StartPlaces
<1>4. CASE Go(Monitor, "idle")
  BY Zenon, <1>1, <1>2, <1>3, <1>4, GoAlone DEF Stays
<1>5. CASE \E r \in Restarts : /\ at[r] = "idle"
                               /\ at' = [at EXCEPT ![r] = "sleep", ![Monitor] = "idle"]
  <2>1. PICK r \in Restarts : /\ at[r] = "idle"
                              /\ at' = [at EXCEPT ![r] = "sleep", ![Monitor] = "idle"]
    BY <1>5
  <2>2. /\ at' \in [Tasks -> Place] /\ at'[Monitor] = "idle" /\ at'[r] = "sleep"
        /\ \A u \in Tasks \ {Monitor, r} : at'[u] = at[u]
    BY <1>2, <1>3, <2>1
  <2> QED BY Zenon, <1>1, <2>1, <2>2 DEF Stays, Scheduled
<1> QED BY Zenon, <1>4, <1>5 DEF DeathSettled

\* In every step, every task stays, acts, or is the restart being scheduled.
LEMMA Moves ==
  ASSUME TypeOK, Next
  PROVE  /\ at' \in [Tasks -> Place]
         /\ cid' \in [Tasks -> Cid]
         /\ kind' \in [Requests -> Kinds \cup {"none"}]
         /\ kept' \in [Requests -> Cid]
         /\ \A t \in Tasks : Stays(t) \/ Acts(t) \/ Scheduled(t)
<1>0. /\ Starters \subseteq Tasks /\ Restarts \subseteq Tasks /\ Stoppers \subseteq Tasks
      /\ Monitor \in Tasks
  BY Zenon DEF Starters, Stoppers, Tasks
<1>1. CASE \E c \in Containers : CreateStep(c) \/ Dies(c)
  <2>1. UNCHANGED <<at, cid, kind, kept>>
    BY Zenon, <1>1
       DEF CreateStep, CreateContainer, CreateRecord, CreateTrack, CreateBoot, CreateReady,
           Dies, memory
  <2> QED BY Zenon, <2>1 DEF Stays, TypeOK, Place, Cid
<1>2. CASE DeathSettled
  BY Zenon, <1>2, DeathSettledAlone DEF TypeOK, Cid, Acts, MonitorStep
<1>3. CASE \E t \in Tasks : Acts(t) /\ One(t)
  BY Zenon, <1>3, OneAlone
<1>4. CASE \E t \in Starters : StartBegin(t) \/ StartStep(t)
  BY Zenon, <1>0, <1>3, <1>4, StartOne DEF Acts
<1>5. CASE \E t \in Restarts : RestartStep(t)
  BY Zenon, <1>0, <1>3, <1>5, RestartOne DEF Acts
<1>6. CASE \E t \in Stoppers : Begins(t) \/ StopStep(t)
  BY Zenon, <1>0, <1>3, <1>6, StopOne DEF Acts
<1>7. CASE Sweep \/ SweepListed \/ DeathEntry \/ DeathConfirmed
  BY Zenon, <1>0, <1>3, <1>7, MonitorOne DEF Acts, MonitorStep
<1> QED
  BY Zenon, <1>1, <1>2, <1>4, <1>5, <1>6, <1>7 DEF Next, MonitorStep, Begins

\* What track_activity leaves behind.
LEMMA TrackTypes ==
  ASSUME TypeOK, NEW c \in Containers, Track(c)
  PROVE  /\ state' = c
         /\ known' \subseteq Containers
         /\ obj' \in [Stoppers -> Cid]
         /\ \A h \in Stoppers : obj'[h] = IF held[h] THEN c ELSE obj[h]
         /\ held' = held
<1>1. c \in Cid
  BY ConstantsAssumption DEF Containers, Cid
<1> QED BY <1>1 DEF Track, TypeOK, Cid

\* What the removal of the state leaves behind.
LEMMA UntrackTypes ==
  ASSUME TypeOK, NEW c, Untrack(c)
  PROVE  /\ state' = None
         /\ known' \subseteq Containers
         /\ held' \in [Stoppers -> BOOLEAN]
         /\ obj' = obj
BY Zenon DEF Untrack, TypeOK

-----------------------------------------------------------------------------
(* Creates, registry, marks *)

\* Start t sets out to create container c.
SetsOut(t, c) ==
    /\ StartGate(t) \/ StartSidecar(t)
    /\ at'[t] = "create" /\ cid'[t] = c
    /\ cre[c] = "none" /\ cre'[c] = "create"

\* Every step leaves a container that was born born, and makes no other than
\* the one it sets out to create.
LEMMA CreStep ==
  ASSUME TypeOK, BornInv, Next
  PROVE  /\ cre' \in [Containers -> CreState]
         /\ made' \in 0 .. MaxContainers /\ made <= made'
         /\ \A c \in Containers : c > made' => cre'[c] = "none"
         /\ \A c : Born(c) => Born(c)'
         /\ \A c \in Containers :
              \/ cre'[c] = cre[c]
              \/ CreateStep(c)
              \/ \E t \in Starters : SetsOut(t, c)
<1>0. /\ cre \in [Containers -> CreState] /\ made \in 0 .. MaxContainers
      /\ \A c \in Containers : c > made => cre[c] = "none"
      /\ at \in [Tasks -> Place] /\ cid \in [Tasks -> Cid]
      /\ Starters \subseteq Tasks
  BY Zenon DEF TypeOK, CreState, BornInv, Place, Cid, Starters, Tasks
<1>1. CASE \E t \in Starters : StartGate(t)
  <2>1. PICK t \in Starters : StartGate(t)
    BY <1>1
  <2>2. CASE made < MaxContainers /\ made' = made + 1 /\ cre' = cre
    BY <1>0, <2>2, ConstantsAssumption DEF Born, Containers
  <2>3. CASE /\ made < MaxContainers /\ made' = made + 1
             /\ Go(t, "create") /\ cid' = [cid EXCEPT ![t] = made + 1]
             /\ cre' = [cre EXCEPT ![made + 1] = "create"]
    <3>1. made + 1 \in Containers /\ cre[made + 1] = "none"
      BY <1>0, <2>3, ConstantsAssumption DEF Containers
    <3>2. at'[t] = "create" /\ cid'[t] = made + 1
      BY <1>0, <2>3 DEF Go
    <3> QED BY <1>0, <2>1, <2>3, <3>1, <3>2 DEF Born, CreState, Containers, SetsOut
  <2>4. CASE made' = made /\ cre' = cre
    BY <1>0, <2>4 DEF Born
  <2> QED BY Zenon, <2>1, <2>2, <2>3, <2>4 DEF StartGate
<1>2. CASE \E t \in Starters : StartSidecar(t)
  <2>1. PICK t \in Starters : StartSidecar(t)
    BY <1>2
  <2>2. /\ at[t] = "sidecar" /\ made' = made /\ cid' = cid
        /\ \/ cre' = cre
           \/ cre' = [cre EXCEPT ![cid[t]] = "create"] /\ Go(t, "create")
    BY Zenon, <2>1 DEF StartSidecar
  <2>3. cid[t] \in 1 .. made /\ cre[cid[t]] = "none"
    BY Zenon, <1>0, <2>2 DEF BornInv, TaskBorn
  <2>4. cid[t] \in Containers /\ cid[t] <= made
    BY <1>0, <2>3, ConstantsAssumption DEF Containers
  <2>5. CASE cre' = cre
    BY <1>0, <2>2, <2>5 DEF Born
  <2>6. CASE cre' = [cre EXCEPT ![cid[t]] = "create"] /\ Go(t, "create")
    <3>1. at'[t] = "create"
      BY <1>0, <2>6 DEF Go
    <3> QED BY <1>0, <2>1, <2>2, <2>3, <2>4, <2>6, <3>1 DEF Born, CreState, SetsOut
  <2> QED BY Zenon, <2>2, <2>5, <2>6
<1>3. CASE \E c \in Containers : CreateStep(c) /\ cre' # cre
  <2>1. PICK c \in Containers : CreateStep(c) /\ cre' # cre
    BY <1>3
  <2>2. /\ made' = made
        /\ cre[c] \in {"create", "record", "track", "boot", "ready"}
        /\ \E x \in {"record", "track", "boot", "ready", "ok", "failed"} :
             cre' = [cre EXCEPT ![c] = x]
    BY Zenon, <2>1
       DEF CreateStep, CreateContainer, CreateRecord, CreateTrack, CreateBoot, CreateReady,
           world
  <2> QED BY <1>0, <2>1, <2>2 DEF Born, CreState, Containers
<1>4. CASE cre' = cre /\ made' = made
  BY <1>0, <1>4 DEF Born
<1> QED BY Zenon, <1>1, <1>2, <1>3, <1>4, CreChanges, MadeChanges DEF CreateStep

\* Container c is tracked, by a start that has found it or by its create.
Tracks(c) ==
    \/ \E t \in Starters : /\ cid[t] = c
                           /\ (StartInspect(t) /\ pod[c] = "running") \/ StartAdopted(t)
    \/ CreateTrack(c)

\* Only a container that exists is tracked.
LEMMA TracksBorn ==
  ASSUME TypeOK, BornInv, NEW c, Tracks(c), CreateTrack(c) => c \in Containers
  PROVE  Born(c)
<1>1. CASE CreateTrack(c)
  BY Zenon, <1>1 DEF CreateTrack, Born
<1>2. CASE \E t \in Starters : cid[t] = c /\ (StartInspect(t) \/ StartAdopted(t))
  <2>1. PICK t \in Starters : cid[t] = c /\ (StartInspect(t) \/ StartAdopted(t))
    BY <1>2
  <2>2. HasContainer(t) /\ t \in Tasks
    BY Zenon, <2>1 DEF HasContainer, StartInspect, StartAdopted, Starters, Tasks
  <2> QED BY Zenon, <2>1, <2>2 DEF BornInv, TaskBorn
<1> QED BY Zenon, <1>1, <1>2 DEF Tracks

\* A step tracks a container, drops the state, lets one holder capture the
\* state object, or leaves the registry alone.
LEMMA StateStep ==
  ASSUME TypeOK, BornInv, Next
  PROVE  \/ UNCHANGED <<state, known, obj, held>>
         \/ \E c \in Containers : Tracks(c) /\ Track(c)
         \/ \E c \in Cid : Untrack(c)
         \/ UNCHANGED <<state, known>> /\ state # None
            /\ \E h \in Stoppers : /\ obj' = [obj EXCEPT ![h] = state]
                                   /\ held' = [held EXCEPT ![h] = TRUE]
                                   /\ EvictBegin(h) \/ h = Monitor
<1>0. state \in Cid /\ cid \in [Tasks -> Cid] /\ Stoppers \subseteq Tasks /\ Monitor \in Stoppers
  BY Zenon DEF TypeOK, Cid, Stoppers, Tasks
<1>1. CASE \E t \in Starters : StartInspect(t) \/ StartAdopted(t)
  <2>1. PICK t \in Starters : StartInspect(t) \/ StartAdopted(t)
    BY <1>1
  <2>2. \/ UNCHANGED <<state, known, obj, held>>
        \/ Tracks(cid[t]) /\ Track(cid[t])
    BY Zenon, <2>1 DEF StartInspect, StartAdopted, Tracks, registry
  <2>3. HasContainer(t) /\ t \in Tasks
    BY Zenon, <2>1 DEF HasContainer, StartInspect, StartAdopted, Starters, Tasks
  <2>4. cid[t] \in Containers
    BY Zenon, <2>3 DEF BornInv, TaskBorn, Born
  <2> QED BY Zenon, <2>2, <2>4
<1>2. CASE \E c \in Containers : CreateTrack(c)
  BY Zenon, <1>2 DEF CreateTrack, Tracks
<1>3. CASE \E t \in Stoppers : StopUnbind(t) \/ StopUnhook(t) \/ StopReset(t)
  BY Zenon, <1>0, <1>3 DEF StopUnbind, StopUnhook, StopReset, registry
<1>4. CASE \E t \in Stoppers : EvictBegin(t)
  BY Zenon, <1>4 DEF EvictBegin
<1>5. CASE Sweep
  BY Zenon, <1>0, <1>5 DEF Sweep
<1>6. CASE DeathEntry
  <2>1. cid[Monitor] \in Containers \/ at[Monitor] # "inspect"
    BY Zenon, <1>0 DEF BornInv, TaskBorn, HasContainer, Born
  <2>2. state # None \/ ~DeathGuardsPass(state)
    BY <1>6, <2>1 DEF DeathGuardsPass, Containers, None, DeathEntry
  <2> QED BY Zenon, <1>0, <1>6, <2>2 DEF DeathEntry
<1> QED
  BY Zenon, <1>1, <1>2, <1>3, <1>4, <1>5, <1>6, StateChanges, KnownChanges, ObjChanges,
     HeldChanges

\* What one step does to the registry, variable by variable.
LEMMA RegistryStep ==
  ASSUME TypeOK, BornInv, Next
  PROVE  /\ state' \in Cid /\ known' \subseteq Containers
         /\ obj' \in [Stoppers -> Cid] /\ held' \in [Stoppers -> BOOLEAN]
         /\ state' # state => state' = None \/ (Tracks(state') /\ Born(state'))
         /\ \A h \in Stoppers : obj'[h] # obj[h] => Born(obj'[h])
<1>0. /\ state \in Cid /\ known \subseteq Containers /\ None \in Cid
      /\ obj \in [Stoppers -> Cid] /\ held \in [Stoppers -> BOOLEAN]
      /\ Containers \subseteq Cid
  BY ConstantsAssumption DEF TypeOK, Cid, None, Containers
<1>1. CASE UNCHANGED <<state, known, obj, held>>
  BY Zenon, <1>0, <1>1
<1>2. CASE \E c \in Containers : Tracks(c) /\ Track(c)
  <2>1. PICK c \in Containers : Tracks(c) /\ Track(c)
    BY <1>2
  <2> QED BY Zenon, <1>0, <2>1, TrackTypes, TracksBorn
<1>3. CASE \E c \in Cid : Untrack(c)
  BY Zenon, <1>0, <1>3, UntrackTypes
<1>4. CASE /\ UNCHANGED <<state, known>> /\ state # None
           /\ \E h \in Stoppers : /\ obj' = [obj EXCEPT ![h] = state]
                                  /\ held' = [held EXCEPT ![h] = TRUE]
  <2>1. Born(state)
    BY Zenon, <1>4 DEF BornInv, MaybeBorn
  <2>2. PICK h \in Stoppers : /\ obj' = [obj EXCEPT ![h] = state]
                              /\ held' = [held EXCEPT ![h] = TRUE]
    BY <1>4
  <2>3. obj' \in [Stoppers -> Cid] /\ \A k \in Stoppers : obj'[k] \in {obj[k], state}
    BY <1>0, <2>2
  <2>4. held' \in [Stoppers -> BOOLEAN]
    BY Zenon, <1>0, <2>2
  <2> QED BY Zenon, <1>0, <1>4, <2>1, <2>3, <2>4
<1> QED BY Zenon, <1>1, <1>2, <1>3, <1>4, StateStep

\* Stop t marks the workspace and begins to remove container c.
Marks(t, c) ==
    /\ BeginStop(t, c, known) \/ BeginStop(t, c, known \ {state})
    /\ Go(t, "remove")
    /\ stopping' = TRUE
    /\ epoch' = epoch + 1
    /\ pending' = Nobody
    /\ expected' = IF t = Monitor THEN expected ELSE expected \cup {c}
    /\ overlap' = (overlap \/ \E u \in Stopping :
                                  Monitor \notin {t, u} \/ cid[u] # c)
    /\ cid' = [cid EXCEPT ![t] = c]
    /\ seen' = seen
    /\ Born(c)
    /\ at[t] \in {"idle", "notify", "unbind", "limit"}
    /\ t = Monitor => c = cid[t] /\ at[t] # "idle"

\* The entry of a stop marks the workspace or touches none of the marks.
LEMMA BeginStopMarks ==
  ASSUME NEW t, NEW c, NEW tracked \in {known, known \ {state}}, BeginStop(t, c, tracked),
         seen' = seen, Born(c), at[t] \in {"idle", "notify", "unbind", "limit"},
         t = Monitor => c = cid[t] /\ at[t] # "idle"
  PROVE  \/ UNCHANGED <<epoch, expected, overlap, stopping>>
         \/ Marks(t, c)
BY Zenon DEF BeginStop, Marks, ClearCrash, marks, planned

\* The same for a stop that begins with its notice.
LEMMA KillNoticeMarks ==
  ASSUME NEW t, NEW c, KillNotice(t, c),
         seen' = seen, Born(c), at[t] \in {"idle", "notify", "unbind", "limit"},
         t = Monitor => c = cid[t] /\ at[t] # "idle"
  PROVE  \/ UNCHANGED <<epoch, expected, overlap, stopping>>
         \/ Marks(t, c)
<1>1. CASE Rebound(c)
  <2>1. BeginStop(t, c, known)
    BY Zenon, <1>1 DEF KillNotice
  <2> QED BY Zenon, <2>1, BeginStopMarks
<1>2. CASE ~Rebound(c)
  BY Zenon, <1>2 DEF KillNotice, marks, planned
<1> QED BY <1>1, <1>2

\* The container a stop works on has been created.
LEMMA StopHasBorn ==
  ASSUME TypeOK, BornInv, NEW t \in Stoppers, at[t] \in {"notify", "unbind"}
  PROVE  Born(IF Is(t, "evict") THEN obj[t] ELSE cid[t])
<1>1. TaskBorn(t)
  BY Zenon DEF BornInv, Stoppers, Tasks
<1>2. CASE Is(t, "evict")
  BY Zenon, <1>1, <1>2 DEF TaskBorn, Is
<1>3. CASE ~Is(t, "evict")
  BY Zenon, <1>1, <1>3 DEF TaskBorn, HasContainer
<1> QED BY Zenon, <1>2, <1>3

\* The epoch, the expected containers and the overlap change by a mark only.
LEMMA MarkStep ==
  ASSUME TypeOK, BornInv, Next
  PROVE  \/ UNCHANGED <<epoch, expected, overlap>>
         \/ \E t \in Stoppers : \E c \in Containers : Marks(t, c)
<1>0. /\ Monitor \notin Requests /\ Monitor \in Stoppers
      /\ \A t \in Requests : t # Monitor /\ t \in Stoppers
      /\ Stoppers \subseteq Tasks
  BY Zenon, ConstantsAssumption DEF Stoppers, Tasks
<1>1. \A t, c : Marks(t, c) => c \in Containers
  BY Zenon DEF Marks, Born
<1>2. CASE \E t \in Stoppers : StopBegin(t)
  <2>1. PICK t \in Stoppers : StopBegin(t)
    BY <1>2
  <2>2. t \in Requests /\ at[t] = "idle" /\ seen' = seen
    BY Zenon, <2>1 DEF StopBegin, Arrives
  <2>3. \/ UNCHANGED <<epoch, expected, overlap>>
        \/ state # None /\ KillNotice(t, state)
        \/ row # None /\ KillNotice(t, row)
    BY Zenon, <2>1 DEF StopBegin, marks, planned
  <2>4. (state # None => Born(state)) /\ (row # None => Born(row))
    BY Zenon DEF BornInv, MaybeBorn
  <2> QED BY Zenon, <1>0, <1>1, <2>1, <2>2, <2>3, <2>4, KillNoticeMarks
<1>3. CASE \E t \in Stoppers : RecycleBegin(t)
  <2>1. PICK t \in Stoppers : RecycleBegin(t)
    BY <1>3
  <2>2. t \in Requests /\ at[t] = "idle" /\ seen' = seen
    BY Zenon, <2>1 DEF RecycleBegin, Arrives
  <2>3. \/ UNCHANGED <<epoch, expected, overlap>>
        \/ state # None /\ BeginStop(t, state, known)
        \/ row # None /\ BeginStop(t, row, known)
    BY Zenon, <2>1 DEF RecycleBegin, marks, planned
  <2>4. (state # None => Born(state)) /\ (row # None => Born(row))
    BY Zenon DEF BornInv, MaybeBorn
  <2> QED BY Zenon, <1>0, <1>1, <2>1, <2>2, <2>3, <2>4, BeginStopMarks
<1>4. CASE \E t \in Stoppers : StopNotify(t)
  <2>1. PICK t \in Stoppers : StopNotify(t)
    BY <1>4
  <2> DEFINE c == IF Is(t, "evict") THEN obj[t] ELSE cid[t]
  <2>2. at[t] = "notify" /\ seen' = seen /\ KillNotice(t, c)
    BY Zenon, <2>1 DEF StopNotify, memory
  <2>3. Born(c)
    BY Zenon, <2>2, StopHasBorn
  <2>4. t = Monitor => c = cid[t]
    BY Zenon, <1>0 DEF Is
  <2> HIDE DEF c
  <2> QED BY Zenon, <1>1, <2>2, <2>3, <2>4, KillNoticeMarks
<1>5. CASE \E t \in Stoppers : StopUnbind(t)
  <2>1. PICK t \in Stoppers : StopUnbind(t)
    BY <1>5
  <2> DEFINE c == IF Is(t, "evict") THEN obj[t] ELSE cid[t]
  <2>2. /\ at[t] = "unbind" /\ seen' = seen
        /\ \E tracked \in {known, known \ {state}} : BeginStop(t, c, tracked)
    BY Zenon, <2>1 DEF StopUnbind, memory
  <2>3. Born(c)
    BY Zenon, <2>2, StopHasBorn
  <2>4. t = Monitor => c = cid[t]
    BY Zenon, <1>0 DEF Is
  <2> HIDE DEF c
  <2> QED BY Zenon, <1>1, <2>2, <2>3, <2>4, BeginStopMarks
<1>6. CASE DeathConfirmed
  <2>1. /\ at[Monitor] = "limit" /\ seen' = seen
        /\ \/ UNCHANGED <<epoch, expected, overlap>>
           \/ KillNotice(Monitor, cid[Monitor])
    BY Zenon, <1>6 DEF DeathConfirmed, marks, planned
  <2>2. Born(cid[Monitor])
    BY Zenon, <1>0, <2>1 DEF BornInv, TaskBorn, HasContainer
  <2> QED BY Zenon, <1>0, <1>1, <2>1, <2>2, KillNoticeMarks
<1> QED
  BY Zenon, <1>2, <1>3, <1>4, <1>5, <1>6, EpochChanges, ExpectedChanges, OverlapChanges

-----------------------------------------------------------------------------
(* Types *)

\* Attempts and pending restart keep their types.
LEMMA CrashTypes ==
  ASSUME TypeOK, Next
  PROVE  attempts' \in 0 .. MaxAttempts /\ pending' \in Restarts \cup {Nobody}
<1>0. /\ attempts \in 0 .. MaxAttempts /\ tries \in 0 .. MaxAttempts
      /\ pending \in Restarts \cup {Nobody} /\ 0 \in 0 .. MaxAttempts
      /\ Starters \subseteq Tasks /\ Stoppers \subseteq Tasks /\ Monitor \in Tasks
      /\ row \in Cid /\ state \in Cid /\ obj \in [Stoppers -> Cid] /\ cid \in [Tasks -> Cid]
      /\ TRUE \in BOOLEAN /\ FALSE \in BOOLEAN
  BY ConstantsAssumption DEF TypeOK, Starters, Stoppers, Tasks, Cid
<1>1. CASE \E t \in Starters : StartLock(t)
  BY Zenon, <1>0, <1>1 DEF StartLock, ClearCrash, crash
<1>2. CASE \E t \in Starters : \/ StartInspect(t) \/ StartDiscard(t) \/ StartLabel(t)
                               \/ StartAdopted(t) \/ StartGate(t) \/ StartSidecar(t)
                               \/ StartCreated(t) \/ StartBringup(t) \/ StartUndo(t)
  <2>1. PICK t \in Starters : \/ StartInspect(t) \/ StartDiscard(t) \/ StartLabel(t)
                              \/ StartAdopted(t) \/ StartGate(t) \/ StartSidecar(t)
                              \/ StartCreated(t) \/ StartBringup(t) \/ StartUndo(t)
    BY <1>2
  <2>2. UNCHANGED crash \/ Release(t, TRUE) \/ Release(t, FALSE)
    BY Zenon, <2>1
       DEF StartInspect, StartDiscard, StartLabel, StartAdopted, StartGate, StartSidecar,
           StartCreated, StartBringup, StartUndo
  <2> QED BY Zenon, <1>0, <2>2, ReleaseAlone DEF crash
<1>3. CASE \E t \in Stoppers : StopBegin(t) \/ RecycleBegin(t) \/ StopNotify(t) \/ StopUnbind(t)
  <2>1. PICK t \in Stoppers : StopBegin(t) \/ RecycleBegin(t) \/ StopNotify(t) \/ StopUnbind(t)
    BY <1>3
  <2>2. \/ UNCHANGED crash
        \/ \E c \in Cid : KillNotice(t, c)
        \/ \E c \in Cid, tracked \in SUBSET known : BeginStop(t, c, tracked)
    BY Zenon, <1>0, <2>1 DEF StopBegin, RecycleBegin, StopNotify, StopUnbind
  <2> QED BY Zenon, <1>0, <2>2, KillNoticeAlone, BeginStopAlone DEF crash
<1>4. CASE \E t \in Stoppers : StopSettle(t)
  BY Zenon, <1>0, <1>4 DEF StopSettle, ClearCrash
<1>5. CASE DeathConfirmed
  BY Zenon, <1>0, <1>5, KillNoticeAlone DEF DeathConfirmed, crash
<1>6. CASE DeathSettled
  <2>1. tries < MaxAttempts => tries + 1 \in 0 .. MaxAttempts
    BY <1>0, ConstantsAssumption
  <2>2. tries < MaxAttempts \/ tries >= MaxAttempts
    BY <1>0, ConstantsAssumption
  <2> QED BY Zenon, <1>0, <1>6, <2>1, <2>2 DEF DeathSettled, ClearCrash
<1>7. CASE SweepListed
  BY Zenon, <1>0, <1>7 DEF SweepListed
<1>8. CASE \E t \in Restarts : RestartWakes(t)
  BY Zenon, <1>0, <1>8 DEF RestartWakes
<1>9. CASE UNCHANGED crash
  BY Zenon, <1>0, <1>9 DEF crash
<1> QED
  BY Zenon, <1>1, <1>2, <1>3, <1>4, <1>5, <1>6, <1>7, <1>8, <1>9, AttemptsChanges,
     PendingChanges DEF crash

\* The lock keeps its type.
LEMMA LockTypes ==
  ASSUME TypeOK, Next
  PROVE  lock' \in Tasks \cup {Nobody}
<1>0. Starters \subseteq Tasks /\ Stoppers \subseteq Tasks /\ lock \in Tasks \cup {Nobody}
  BY Zenon DEF TypeOK, Starters, Stoppers, Tasks
<1>1. CASE \E t \in Starters : \/ StartInspect(t) \/ StartDiscard(t) \/ StartLabel(t)
                               \/ StartAdopted(t) \/ StartGate(t) \/ StartSidecar(t)
                               \/ StartCreated(t) \/ StartBringup(t) \/ StartUndo(t)
                               \/ StartLock(t)
  BY ZenonT(30), <1>0, <1>1
     DEF StartInspect, StartDiscard, StartLabel, StartAdopted, StartGate, StartSidecar,
         StartCreated, StartBringup, StartUndo, StartLock, Release
<1>2. CASE \E t \in Restarts : RestartCancelled(t) \/ RestartUnwinds(t)
  BY Zenon, <1>0, <1>2 DEF RestartCancelled, RestartUnwinds
<1>3. CASE \E t \in Stoppers : StopTeardown(t) \/ StopUnhook(t)
  BY Zenon, <1>0, <1>3 DEF StopTeardown, StopUnhook
<1>4. CASE lock' = lock
  BY <1>0, <1>4
<1> QED BY Zenon, <1>1, <1>2, <1>3, <1>4, LockChanges

\* So do the row, the sidecar, the flags and what the monitor remembers.
LEMMA OtherTypes ==
  ASSUME TypeOK, BornInv, Next
  PROVE  /\ row' \in Cid /\ sidecar' \in Cid
         /\ stopping' \in BOOLEAN /\ stray' \in BOOLEAN /\ wanted' \in BOOLEAN
         /\ seen' \in Nat /\ tries' \in 0 .. MaxAttempts
<1>0. /\ row \in Cid /\ sidecar \in Cid /\ seen \in Nat /\ epoch \in Nat
      /\ attempts \in 0 .. MaxAttempts /\ tries \in 0 .. MaxAttempts
      /\ cid \in [Tasks -> Cid] /\ None \in Cid /\ Containers \subseteq Cid
      /\ Starters \subseteq Tasks /\ Restarts \subseteq Tasks
      /\ Stoppers \subseteq Tasks /\ Monitor \in Tasks /\ state \in Cid
      /\ obj \in [Stoppers -> Cid]
  BY ConstantsAssumption DEF TypeOK, Cid, None, Containers, Starters, Stoppers, Tasks
<1>1. row' \in Cid
  BY Zenon, <1>0, RowChanges DEF StartAdopt, CreateRecord, RestartCancelled
<1>2. sidecar' \in Cid
  BY Zenon, <1>0, SidecarChanges
     DEF StartSidecar, StartUndo, RestartCancelled, RestartUnwinds, StopUnhook, DropSidecar
<1>3. seen' \in Nat
  BY Zenon, <1>0, SeenChanges DEF Sweep
<1>4. tries' \in 0 .. MaxAttempts
  BY Zenon, <1>0, TriesChanges DEF DeathConfirmed
<1>5. stray' \in BOOLEAN /\ wanted' \in BOOLEAN
  BY Zenon, StrayChanges, WantedChanges
     DEF TypeOK, RestartCancelled, StartBegin, StopBegin, RecycleBegin
<1>6. stopping' \in BOOLEAN
  <2>1. CASE \E t \in Stoppers : StopBegin(t) \/ RecycleBegin(t) \/ StopNotify(t) \/ StopUnbind(t)
    <3>1. PICK t \in Stoppers : StopBegin(t) \/ RecycleBegin(t) \/ StopNotify(t) \/ StopUnbind(t)
      BY <2>1
    <3>2. \/ UNCHANGED marks
          \/ \E c \in Cid : KillNotice(t, c)
          \/ \E c \in Cid, tracked \in SUBSET known : BeginStop(t, c, tracked)
      BY Zenon, <1>0, <3>1 DEF StopBegin, RecycleBegin, StopNotify, StopUnbind
    <3> QED BY Zenon, <1>0, <3>2, KillNoticeAlone, BeginStopAlone DEF marks, TypeOK
  <2>2. CASE DeathConfirmed
    BY Zenon, <1>0, <2>2, KillNoticeAlone DEF DeathConfirmed, marks, TypeOK
  <2>3. CASE \E t \in Stoppers : StopSettle(t)
    BY Zenon, <2>3 DEF StopSettle
  <2>4. CASE DeathSettled
    BY Zenon, <2>4 DEF DeathSettled
  <2> QED BY Zenon, <2>1, <2>2, <2>3, <2>4, StoppingChanges DEF TypeOK
<1> QED BY Zenon, <1>1, <1>2, <1>3, <1>4, <1>5, <1>6

\* The epoch grows and an overlap is not forgotten.
LEMMA PlanTypes ==
  ASSUME TypeOK, BornInv, Next
  PROVE  /\ epoch' \in Nat /\ overlap' \in BOOLEAN /\ expected' \subseteq Containers
         /\ epoch <= epoch'
         /\ overlap => overlap'
<1>1. CASE UNCHANGED <<epoch, expected, overlap>>
  BY <1>1 DEF TypeOK
<1>2. CASE \E t \in Stoppers : \E c \in Containers : Marks(t, c)
  <2>1. PICK t \in Stoppers, c \in Containers : Marks(t, c)
    BY <1>2
  <2>2. epoch' = epoch + 1
    BY Zenon, <2>1 DEF Marks
  <2>3. epoch' \in Nat /\ epoch <= epoch'
    BY <2>2 DEF TypeOK
  <2>4. expected' \subseteq Containers
    BY Zenon, <2>1 DEF Marks, TypeOK
  <2>5. overlap' \in BOOLEAN /\ (overlap => overlap')
    BY Zenon, <2>1 DEF Marks
  <2> QED BY Zenon, <2>3, <2>4, <2>5
<1> QED BY Zenon, <1>1, <1>2, MarkStep

\* Every step keeps every variable in its type.
LEMMA TypesKept ==
  ASSUME TypeOK, BornInv, Next
  PROVE  TypeOK'
BY Zenon, PodStep, CreStep, RegistryStep, Moves, CrashTypes, LockTypes, OtherTypes, PlanTypes
   DEF TypeOK, PodState, CreState, Cid, Place

-----------------------------------------------------------------------------
(* The workspace lock *)

\* Where a task goes is where it stands next.
LEMMA GoesTo ==
  ASSUME TypeOK, NEW t \in Tasks, NEW p, Go(t, p)
  PROVE  at'[t] = p
BY DEF TypeOK, Go

\* The end of a start gives the lock back.
LEMMA ReleaseFrees ==
  ASSUME TypeOK, NEW t \in Starters, NEW ok, Release(t, ok)
  PROVE  lock' = Nobody /\ ~Holds(t)' /\ at'[t] \in {"done", "idle", "sleep"}
<1>1. t \in Tasks
  BY Zenon DEF Starters, Tasks
<1>2. lock' = Nobody /\ (Go(t, "done") \/ Go(t, "idle") \/ Go(t, "sleep"))
  BY Zenon DEF Release
<1> QED BY Zenon, <1>1, <1>2, GoesTo DEF Holds, Locked

\* The lock changes hands by a task that takes it while it is free, and by its
\* holder, who then holds it no longer.
LEMMA LockStep ==
  ASSUME TypeOK, LockInv, Next, lock' # lock
  PROVE  \E u \in Tasks : \/ lock = Nobody /\ lock' = u
                          \/ lock = u /\ lock' = Nobody /\ ~Holds(u)'
<1>0. Starters \subseteq Tasks /\ Restarts \subseteq Starters /\ Stoppers \subseteq Tasks
  BY Zenon DEF Starters, Stoppers, Tasks
<1>1. CASE \E t \in Starters : StartLock(t)
  BY Zenon, <1>0, <1>1 DEF StartLock
<1>2. CASE \E t \in Starters : \/ StartInspect(t) \/ StartDiscard(t) \/ StartLabel(t)
                               \/ StartAdopted(t) \/ StartGate(t) \/ StartSidecar(t)
                               \/ StartCreated(t) \/ StartBringup(t) \/ StartUndo(t)
  <2>1. PICK t \in Starters : \/ StartInspect(t) \/ StartDiscard(t) \/ StartLabel(t)
                              \/ StartAdopted(t) \/ StartGate(t) \/ StartSidecar(t)
                              \/ StartCreated(t) \/ StartBringup(t) \/ StartUndo(t)
    BY <1>2
  <2>2. at[t] \in Locked /\ (Release(t, TRUE) \/ Release(t, FALSE))
    BY Zenon, <2>1
       DEF StartInspect, StartDiscard, StartLabel, StartAdopted, StartGate, StartSidecar,
           StartCreated, StartBringup, StartUndo, Locked
  <2>3. lock = t
    BY Zenon, <1>0, <2>2 DEF LockInv, Holds
  <2> QED BY Zenon, <1>0, <2>2, <2>3, ReleaseFrees
<1>3. CASE \E t \in Restarts : RestartCancelled(t)
  <2>1. PICK t \in Restarts : RestartCancelled(t)
    BY <1>3
  <2>2. Go(t, "idle") /\ lock = t /\ lock' = Nobody
    BY Zenon, <2>1 DEF RestartCancelled
  <2> QED BY Zenon, <1>0, <2>2, GoesTo DEF Holds, Locked
<1>4. CASE \E t \in Restarts : RestartUnwinds(t)
  <2>1. PICK t \in Restarts : RestartUnwinds(t)
    BY <1>4
  <2>2. at[t] = "unwind" /\ Go(t, "idle") /\ lock' = Nobody
    BY Zenon, <2>1 DEF RestartUnwinds
  <2>3. lock = t
    BY Zenon, <1>0, <2>2 DEF LockInv, Holds, Locked
  <2> QED BY Zenon, <1>0, <2>2, <2>3, GoesTo DEF Holds, Locked
<1>5. CASE \E t \in Stoppers : StopTeardown(t)
  BY Zenon, <1>0, <1>5 DEF StopTeardown
<1>6. CASE \E t \in Stoppers : StopUnhook(t)
  <2>1. PICK t \in Stoppers : StopUnhook(t)
    BY <1>6
  <2>2. at[t] = "unhook" /\ Go(t, "settle") /\ lock' = Nobody
    BY Zenon, <2>1 DEF StopUnhook
  <2>3. lock = t
    BY Zenon, <1>0, <2>2 DEF LockInv, Holds
  <2> QED BY Zenon, <1>0, <2>2, <2>3, GoesTo DEF Holds, Locked
<1> QED BY Zenon, <1>1, <1>2, <1>3, <1>4, <1>5, <1>6, LockChanges

\* A task comes to the locked places by taking the lock.
LEMMA HoldsEntered ==
  ASSUME TypeOK, NEW t \in Tasks, Acts(t), Holds(t)'
  PROVE  Holds(t) \/ lock' = t
<1>0. /\ Starters \subseteq Tasks /\ Restarts \subseteq Starters /\ Stoppers \subseteq Tasks
      /\ Monitor \notin Starters
  BY Zenon, ConstantsAssumption DEF Starters, Stoppers, Tasks
<1>1. CASE t \in Starters /\ StartStep(t)
  <2>1. StartLock(t) \/ at[t] \in Locked
    BY Zenon, <1>1
       DEF StartStep, StartInspect, StartDiscard, StartLabel, StartAdopted, StartGate,
           StartSidecar, StartCreated, StartBringup, StartUndo, StartAdopt, Locked
  <2> QED BY Zenon, <1>1, <2>1 DEF Holds, StartLock
<1>2. CASE t \in Starters /\ StartBegin(t)
  BY Zenon, <1>2, GoesTo DEF StartBegin, Holds, Locked
<1>3. CASE t \in Restarts /\ RestartWakes(t)
  BY Zenon, <1>3, GoesTo DEF RestartWakes, Holds, Locked
<1>4. CASE t \in Restarts /\ RestartCancelled(t)
  BY Zenon, <1>0, <1>4, GoesTo DEF RestartCancelled, Holds, Locked
<1>5. CASE t \in Restarts /\ RestartUnwinds(t)
  BY Zenon, <1>0, <1>5 DEF RestartUnwinds, Holds, Locked
<1>6. CASE t \in Stoppers /\ Begins(t)
  <2>1. \E p \in {"reset", "unbind", "remove", "removeonly", "notify"} : Go(t, p)
    BY Zenon, <1>6
       DEF Begins, StopBegin, RecycleBegin, IdleBegin, LogoutBegin, DrainBegin, EvictBegin,
           KillNotice, BeginStop
  <2> QED BY Zenon, <2>1, GoesTo DEF Holds, Locked
<1>7. CASE t \in Stoppers /\ StopStep(t)
  <2>1. \/ StopTeardown(t)
        \/ \E p \in {"unbind", "remove", "removeonly", "teardown", "settle", "reset", "lock",
                     "done"} : Go(t, p)
    BY Zenon, <1>7
       DEF StopStep, StopNotify, StopUnbind, StopRemove, StopUnhook, StopSettle, StopReset,
           KillNotice, BeginStop
  <2>2. \/ lock' = t
        \/ \E p \in {"unbind", "remove", "removeonly", "teardown", "settle", "reset", "lock",
                     "done"} : Go(t, p)
    BY Zenon, <2>1 DEF StopTeardown
  <2> QED BY Zenon, <2>2, GoesTo DEF Holds, Locked
<1>8. CASE t = Monitor /\ (Sweep \/ MonitorStep)
  <2>1. \E p \in {"list", "inspect", "idle", "limit", "unbind", "remove", "removeonly"} :
          at'[t] = p
    BY Zenon, <1>8, GoesTo, DeathSettledAlone
       DEF Sweep, MonitorStep, SweepListed, DeathEntry, DeathConfirmed, KillNotice, BeginStop
  <2> QED BY Zenon, <1>0, <1>8, <2>1 DEF Holds
<1> QED
  BY Zenon, <1>1, <1>2, <1>3, <1>4, <1>5, <1>6, <1>7, <1>8 DEF Acts, RestartStep

\* Whoever stands at a locked place is the holder of the lock.
LEMMA LockKept ==
  ASSUME TypeOK, LockInv, Next
  PROVE  LockInv'
<1> SUFFICES ASSUME NEW t \in Tasks, Holds(t)'
             PROVE  lock' = t
  BY Zenon DEF LockInv
<1>1. Holds(t) \/ lock' = t
  <2>1. CASE Stays(t)
    BY Zenon, <2>1 DEF Stays, Holds
  <2>2. CASE Acts(t)
    BY Zenon, <2>2, HoldsEntered
  <2>3. CASE Scheduled(t)
    BY Zenon, <2>3, ConstantsAssumption DEF Scheduled, Holds, Locked
  <2> QED BY Zenon, <2>1, <2>2, <2>3, Moves
<1>2. Holds(t) => lock = t /\ t # Nobody
  BY Zenon, ConstantsAssumption DEF LockInv
<1> QED BY Zenon, <1>1, <1>2, LockStep

-----------------------------------------------------------------------------
(* Where tasks come from *)

\* Where the steps of a start lead.
LEMMA StartGoes ==
  ASSUME TypeOK, NEW t \in Starters
  PROVE  /\ StartBegin(t) => at'[t] = "lock"
         /\ StartLock(t) => at'[t] \in {"gate", "inspect"}
         /\ StartInspect(t) => at'[t] \in {"discard", "label", "done", "idle", "sleep"}
         /\ StartDiscard(t) => at'[t] \in {"gate", "done", "idle", "sleep"}
         /\ StartLabel(t) => at'[t] \in {"adopt", "gate", "done", "idle", "sleep"}
         /\ StartAdopt(t) => at'[t] = "adopted"
         /\ StartAdopted(t) => at'[t] \in {"done", "idle", "sleep"}
         /\ StartGate(t) => at'[t] \in {"sidecar", "create", "done", "idle", "sleep"}
         /\ StartSidecar(t) => at'[t] \in {"create", "done", "idle", "sleep"}
         /\ StartCreated(t) => at'[t] \in {"bringup", "undo", "done", "idle", "sleep"}
         /\ StartBringup(t) \/ StartUndo(t) => at'[t] \in {"done", "idle", "sleep"}
<1>1. t \in Tasks
  BY Zenon DEF Starters, Tasks
<1>2. StartBegin(t) => at'[t] = "lock"
  BY Zenon, <1>1, GoesTo DEF StartBegin
<1>3. StartLock(t) => at'[t] \in {"gate", "inspect"}
  BY Zenon, <1>1, GoesTo DEF StartLock
<1>4. StartInspect(t) => at'[t] \in {"discard", "label", "done", "idle", "sleep"}
  BY Zenon, <1>1, GoesTo, ReleaseFrees DEF StartInspect
<1>5. StartDiscard(t) => at'[t] \in {"gate", "done", "idle", "sleep"}
  BY Zenon, <1>1, GoesTo, ReleaseFrees DEF StartDiscard
<1>6. StartLabel(t) => at'[t] \in {"adopt", "gate", "done", "idle", "sleep"}
  BY Zenon, <1>1, GoesTo, ReleaseFrees DEF StartLabel
<1>7. StartAdopt(t) => at'[t] = "adopted"
  BY Zenon, <1>1, GoesTo DEF StartAdopt
<1>8. StartAdopted(t) => at'[t] \in {"done", "idle", "sleep"}
  BY Zenon, ReleaseFrees DEF StartAdopted
<1>9. StartGate(t) => at'[t] \in {"sidecar", "create", "done", "idle", "sleep"}
  BY Zenon, <1>1, GoesTo, ReleaseFrees DEF StartGate
<1>10. StartSidecar(t) => at'[t] \in {"create", "done", "idle", "sleep"}
  BY Zenon, <1>1, GoesTo, ReleaseFrees DEF StartSidecar
<1>11. StartCreated(t) => at'[t] \in {"bringup", "undo", "done", "idle", "sleep"}
  BY Zenon, <1>1, GoesTo, ReleaseFrees DEF StartCreated
<1>12. StartBringup(t) \/ StartUndo(t) => at'[t] \in {"done", "idle", "sleep"}
  BY Zenon, ReleaseFrees DEF StartBringup, StartUndo
<1> QED
  BY Zenon, <1>2, <1>3, <1>4, <1>5, <1>6, <1>7, <1>8, <1>9, <1>10, <1>11, <1>12

\* Where the steps of a restart lead.
LEMMA RestartGoes ==
  ASSUME TypeOK, NEW t \in Restarts
  PROVE  /\ RestartWakes(t) => at'[t] \in {"lock", "idle"}
         /\ RestartCancelled(t) => at'[t] \in {"unwind", "idle"}
         /\ RestartUnwinds(t) => at'[t] = "idle"
<1>1. t \in Tasks
  BY Zenon DEF Tasks
<1>2. RestartWakes(t) => at'[t] \in {"lock", "idle"}
  BY Zenon, <1>1, GoesTo DEF RestartWakes
<1>3. RestartCancelled(t) => at'[t] \in {"unwind", "idle"}
  BY Zenon, <1>1, GoesTo DEF RestartCancelled
<1>4. RestartUnwinds(t) => at'[t] = "idle"
  BY Zenon, <1>1, GoesTo DEF RestartUnwinds
<1> QED BY Zenon, <1>2, <1>3, <1>4

\* Where the steps of a stop lead.
LEMMA StopGoes ==
  ASSUME TypeOK, NEW t \in Stoppers
  PROVE  /\ StopBegin(t) => at'[t] \in {"reset", "unbind", "remove", "removeonly"}
         /\ RecycleBegin(t) => at'[t] \in {"reset", "remove", "removeonly"}
         /\ IdleBegin(t) \/ LogoutBegin(t) \/ DrainBegin(t) \/ EvictBegin(t) =>
              at'[t] = "notify"
         /\ StopNotify(t) => at'[t] \in {"unbind", "remove", "removeonly"}
         /\ StopUnbind(t) => at'[t] \in {"remove", "removeonly"}
         /\ StopRemove(t) => at'[t] = IF at[t] = "remove" THEN "teardown" ELSE "done"
         /\ StopTeardown(t) => at'[t] \in {"settle", "unhook"}
         /\ StopUnhook(t) => at'[t] = "settle"
         /\ StopSettle(t) => at'[t] \in {"reset", "done"}
         /\ StopReset(t) => at'[t] \in {"lock", "done"}
<1>1. t \in Tasks
  BY Zenon DEF Stoppers, Tasks
<1>2. StopBegin(t) => at'[t] \in {"reset", "unbind", "remove", "removeonly"}
  BY Zenon, <1>1, GoesTo DEF StopBegin, KillNotice, BeginStop
<1>3. RecycleBegin(t) => at'[t] \in {"reset", "remove", "removeonly"}
  BY Zenon, <1>1, GoesTo DEF RecycleBegin, BeginStop
<1>4. IdleBegin(t) \/ LogoutBegin(t) \/ DrainBegin(t) \/ EvictBegin(t) => at'[t] = "notify"
  BY Zenon, <1>1, GoesTo DEF IdleBegin, LogoutBegin, DrainBegin, EvictBegin
<1>5. StopNotify(t) => at'[t] \in {"unbind", "remove", "removeonly"}
  BY Zenon, <1>1, GoesTo DEF StopNotify, KillNotice, BeginStop
<1>6. StopUnbind(t) => at'[t] \in {"remove", "removeonly"}
  BY Zenon, <1>1, GoesTo DEF StopUnbind, BeginStop
<1>7. StopRemove(t) => at'[t] = IF at[t] = "remove" THEN "teardown" ELSE "done"
  BY Zenon, <1>1, GoesTo DEF StopRemove
<1>8. StopTeardown(t) => at'[t] \in {"settle", "unhook"}
  BY Zenon, <1>1, GoesTo DEF StopTeardown
<1>9. StopUnhook(t) => at'[t] = "settle"
  BY Zenon, <1>1, GoesTo DEF StopUnhook
<1>10. StopSettle(t) => at'[t] \in {"reset", "done"}
  BY Zenon, <1>1, GoesTo DEF StopSettle
<1>11. StopReset(t) => at'[t] \in {"lock", "done"}
  BY Zenon, <1>1, GoesTo DEF StopReset
<1> QED BY Zenon, <1>2, <1>3, <1>4, <1>5, <1>6, <1>7, <1>8, <1>9, <1>10, <1>11

\* Where the steps of the monitor lead.
LEMMA MonitorGoes ==
  ASSUME TypeOK
  PROVE  /\ Sweep => at'[Monitor] = "list"
         /\ SweepListed => at'[Monitor] \in {"inspect", "idle"}
         /\ DeathEntry => at'[Monitor] \in {"limit", "idle"}
         /\ DeathConfirmed => at'[Monitor] \in {"unbind", "remove", "removeonly", "idle"}
         /\ DeathSettled => at'[Monitor] = "idle"
<1>1. Monitor \in Tasks
  BY Zenon DEF Tasks
<1>2. Sweep => at'[Monitor] = "list"
  BY Zenon, <1>1, GoesTo DEF Sweep
<1>3. SweepListed => at'[Monitor] \in {"inspect", "idle"}
  BY Zenon, <1>1, GoesTo DEF SweepListed
<1>4. DeathEntry => at'[Monitor] \in {"limit", "idle"}
  BY Zenon, <1>1, GoesTo DEF DeathEntry
<1>5. DeathConfirmed => at'[Monitor] \in {"unbind", "remove", "removeonly", "idle"}
  BY Zenon, <1>1, GoesTo DEF DeathConfirmed, KillNotice, BeginStop
<1> QED BY Zenon, <1>2, <1>3, <1>4, <1>5, DeathSettledAlone

\* How a start comes to its places.
LEMMA StartEnters ==
  ASSUME TypeOK, Next, NEW t \in Starters, ~Stays(t)
  PROVE  /\ at'[t] = "lock" => \/ StartBegin(t)
                               \/ t \in Restarts /\ RestartWakes(t)
                               \/ t \in Stoppers /\ StopReset(t)
         /\ at'[t] = "inspect" => StartLock(t)
         /\ at'[t] \in {"discard", "label"} => StartInspect(t)
         /\ at'[t] = "adopt" => StartLabel(t)
         /\ at'[t] = "adopted" => StartAdopt(t)
         /\ at'[t] = "gate" => StartLock(t) \/ StartDiscard(t) \/ StartLabel(t)
         /\ at'[t] = "sidecar" => StartGate(t)
         /\ at'[t] = "create" => StartGate(t) \/ StartSidecar(t)
<1>1. t \in Tasks /\ t # Monitor
  BY Zenon, ConstantsAssumption DEF Starters, Tasks
<1>2. Acts(t) \/ Scheduled(t)
  BY Zenon, <1>1, Moves
<1>3. CASE Scheduled(t)
  BY Zenon, <1>3 DEF Scheduled
<1>4. CASE StartBegin(t) \/ StartStep(t)
  BY Zenon, <1>4, StartGoes DEF StartStep
<1>5. CASE t \in Restarts /\ RestartStep(t)
  BY Zenon, <1>5, RestartGoes DEF RestartStep
<1>6. CASE t \in Stoppers /\ (Begins(t) \/ StopStep(t))
  BY Zenon, <1>6, StopGoes DEF Begins, StopStep
<1> QED BY Zenon, <1>1, <1>2, <1>3, <1>4, <1>5, <1>6 DEF Acts

\* How a stop comes to its places.
LEMMA StopEnters ==
  ASSUME TypeOK, Next, NEW t \in Stoppers, ~Stays(t)
  PROVE  /\ at'[t] = "notify" => \/ IdleBegin(t) \/ LogoutBegin(t)
                                 \/ DrainBegin(t) \/ EvictBegin(t)
         /\ at'[t] = "unbind" => \/ StopBegin(t) \/ StopNotify(t)
                                 \/ t = Monitor /\ DeathConfirmed
         /\ at'[t] \in {"remove", "removeonly"} =>
              \/ StopBegin(t) \/ RecycleBegin(t) \/ StopNotify(t) \/ StopUnbind(t)
              \/ t = Monitor /\ DeathConfirmed
         /\ at'[t] = "teardown" => StopRemove(t) /\ at[t] = "remove"
         /\ at'[t] = "unhook" => StopTeardown(t)
         /\ at'[t] = "settle" => StopTeardown(t) \/ StopUnhook(t)
         /\ at'[t] = "reset" => StopBegin(t) \/ RecycleBegin(t) \/ StopSettle(t)
         /\ t = Monitor => /\ at'[t] = "list" => Sweep
                           /\ at'[t] = "inspect" => SweepListed
                           /\ at'[t] = "limit" => DeathEntry
<1>1. t \in Tasks /\ t \notin Restarts /\ Monitor \notin Starters
  BY Zenon, ConstantsAssumption DEF Starters, Stoppers, Tasks
<1>2. Acts(t)
  BY Zenon, <1>1, Moves DEF Scheduled
<1>3. CASE t \in Starters /\ (StartBegin(t) \/ StartStep(t))
  BY Zenon, <1>1, <1>3, StartGoes DEF StartStep
<1>4. CASE Begins(t) \/ StopStep(t)
  BY Zenon, <1>4, StopGoes DEF Begins, StopStep
<1>5. CASE t = Monitor /\ (Sweep \/ MonitorStep)
  BY Zenon, <1>5, MonitorGoes DEF MonitorStep
<1> QED BY Zenon, <1>1, <1>2, <1>3, <1>4, <1>5 DEF Acts

-----------------------------------------------------------------------------
(* Every container referred to exists *)

\* A task that stays keeps what it knows of its container.
LEMMA StaysBorn ==
  ASSUME TypeOK, LockInv, BornInv, Next, NEW t \in Tasks, Stays(t)
  PROVE  TaskBorn(t)'
<1>0. /\ TaskBorn(t)
      /\ \A c : Born(c) => Born(c)'
      /\ \A c : MaybeBorn(c) => MaybeBorn(c)'
  BY Zenon, CreStep DEF BornInv, MaybeBorn
<1>1. /\ HasContainer(t)' => HasContainer(t)
      /\ Is(t, "stop") => Is(t, "stop")'
      /\ Is(t, "restart") => Is(t, "restart")'
  BY Zenon DEF Stays, HasContainer, Is
<1>2. HasContainer(t)' => Born(cid[t])'
  BY Zenon, <1>0, <1>1 DEF TaskBorn, Stays
<1>3. t \in Starters /\ at'[t] \in {"lock", "discard", "label", "gate"} => MaybeBorn(cid[t])'
  BY Zenon, <1>0 DEF TaskBorn, Stays
<1>4. cid[t] \in 1 .. made => cid'[t] \in 1 .. made'
  BY CreStep DEF Stays, TypeOK
<1>5. ASSUME t \in Starters, at'[t] = "sidecar"
      PROVE  cid'[t] \in 1 .. made' /\ cre'[cid'[t]] = "none"
  <2>1. cid[t] \in 1 .. made /\ cre[cid[t]] = "none" /\ at[t] = "sidecar" /\ cid'[t] = cid[t]
    BY Zenon, <1>0, <1>5 DEF TaskBorn, Stays
  <2>2. cid[t] \in Containers
    BY <2>1 DEF TypeOK, Containers
  <2>3. ~CreateStep(cid[t])
    BY Zenon, <2>1
       DEF CreateStep, CreateContainer, CreateRecord, CreateTrack, CreateBoot, CreateReady
  <2>4. ASSUME NEW u \in Starters, SetsOut(u, cid[t])
        PROVE  FALSE
    <3>1. Holds(u) /\ Holds(t) /\ u \in Tasks
      BY Zenon, <1>5, <2>1, <2>4 DEF SetsOut, StartGate, StartSidecar, Holds, Locked, Starters, Tasks
    <3>2. u = t
      BY Zenon, <3>1 DEF LockInv
    <3> QED BY Zenon, <1>5, <2>4, <3>2 DEF SetsOut
  <2>5. cre'[cid[t]] = "none"
    BY Zenon, <2>1, <2>2, <2>3, <2>4, CreStep
  <2> QED BY Zenon, <1>4, <2>1, <2>5
<1>6. t \in Starters /\ at'[t] = "create" => cid'[t] \in 1 .. made'
  BY Zenon, <1>0, <1>4 DEF TaskBorn, Stays
<1>7. t \in Requests => MaybeBorn(kept[t])'
  BY Zenon, <1>0 DEF TaskBorn, Stays
<1>8. ASSUME t \in Requests, kind'[t] = "evict", at'[t] \in {"notify", "unbind"}
      PROVE  Born(obj[t])'
  <2>1. Born(obj[t]) /\ t \in Stoppers
    BY Zenon, <1>0, <1>8 DEF TaskBorn, Stays, Stoppers
  <2>2. Born(obj'[t])
    BY Zenon, <2>1, RegistryStep
  <2>3. \A c : Born(c) => c \in Containers /\ cre'[c] \notin {"none", "create"}
    BY Zenon, <1>0 DEF Born
  <2> QED BY Zenon, <2>2, <2>3 DEF Born
<1>9. t \in Stoppers /\ at'[t] = "reset" => Is(t, "stop")' \/ Is(t, "restart")'
  BY Zenon, <1>0, <1>1 DEF TaskBorn, Stays
<1> QED BY Zenon, <1>2, <1>3, <1>5, <1>6, <1>7, <1>8, <1>9 DEF TaskBorn

\* The container a task is given is the one it has next.
LEMMA CidSet ==
  ASSUME TypeOK, NEW t \in Tasks, NEW c, cid' = [cid EXCEPT ![t] = c]
  PROVE  cid'[t] = c
BY DEF TypeOK

\* The kind a request arrives with is the one it has next.
LEMMA KindSet ==
  ASSUME TypeOK, NEW t, NEW k, Arrives(t, k)
  PROVE  t \in Requests /\ kind'[t] = k /\ at[t] = "idle"
BY DEF Arrives, TypeOK

\* The container a start works on exists at every place that needs it.
LEMMA StartMovesBorn ==
  ASSUME TypeOK, BornInv, Next, NEW t \in Starters, ~Stays(t)
  PROVE  /\ at'[t] \in {"inspect", "adopt", "adopted"} => Born(cid'[t])
         /\ at'[t] \in {"lock", "discard", "label", "gate"} => MaybeBorn(cid'[t])
         /\ at'[t] = "sidecar" => cid'[t] \in 1 .. made' /\ cre'[cid'[t]] = "none"
         /\ at'[t] = "create" => cid'[t] \in 1 .. made'
<1>0. t \in Tasks /\ TaskBorn(t) /\ MaybeBorn(row)
  BY Zenon DEF BornInv, Starters, Tasks
<1>1. at'[t] = "inspect" => Born(cid'[t])
  BY Zenon, <1>0, StartEnters, GoesTo DEF StartLock, TaskBorn, MaybeBorn
<1>2. at'[t] = "adopt" => Born(cid'[t])
  <2> SUFFICES ASSUME at'[t] = "adopt" PROVE Born(cid'[t])
    OBVIOUS
  <2>1. StartLabel(t)
    BY Zenon, StartEnters
  <2>2. PICK c \in Containers : pod[c] = "running" /\ cid' = [cid EXCEPT ![t] = c]
    BY Zenon, <1>0, <2>1, GoesTo, ReleaseFrees DEF StartLabel
  <2> QED BY Zenon, <1>0, <2>2, CidSet DEF BornInv
<1>3. at'[t] = "adopted" => Born(cid'[t])
  BY Zenon, <1>0, StartEnters DEF StartAdopt, TaskBorn, HasContainer
<1>4. at'[t] = "lock" => MaybeBorn(cid'[t])
  <2>1. CASE StartBegin(t) \/ (t \in Restarts /\ RestartWakes(t) /\ at'[t] = "lock")
    BY Zenon, <1>0, <2>1, CidSet, GoesTo DEF StartBegin, RestartWakes
  <2>2. CASE StopReset(t) /\ at'[t] = "lock"
    <3>1. t \in Requests /\ cid' = [cid EXCEPT ![t] = kept[t]]
      BY Zenon, <1>0, <2>2, GoesTo DEF StopReset, Is
    <3> QED BY Zenon, <1>0, <3>1, CidSet DEF TaskBorn
  <2> QED BY Zenon, <2>1, <2>2, StartEnters
<1>5. at'[t] \in {"discard", "label"} => MaybeBorn(cid'[t])
  BY Zenon, <1>0, StartEnters DEF StartInspect, TaskBorn, HasContainer, MaybeBorn
<1>6. at'[t] = "gate" => MaybeBorn(cid'[t])
  <2>1. CASE StartLock(t) \/ StartDiscard(t)
    BY Zenon, <1>0, <2>1, GoesTo DEF StartLock, StartDiscard, TaskBorn
  <2>2. CASE StartLabel(t) /\ at'[t] = "gate"
    BY Zenon, <1>0, <2>2, GoesTo DEF StartLabel, TaskBorn
  <2> QED BY Zenon, <2>1, <2>2, StartEnters
<1>7. StartGate(t) /\ at'[t] \in {"sidecar", "create"} =>
        /\ cid'[t] = made + 1 /\ made' = made + 1 /\ made < MaxContainers
        /\ at'[t] = "sidecar" => cre' = cre
  BY Zenon, <1>0, CidSet, GoesTo, ReleaseFrees DEF StartGate
<1>8. StartGate(t) /\ at'[t] \in {"sidecar", "create"} =>
        cid'[t] \in 1 .. made' /\ (at'[t] = "sidecar" => cre'[cid'[t]] = "none")
  <2>1. made < MaxContainers =>
          made + 1 \in Containers /\ made + 1 > made /\ made + 1 \in 1 .. made + 1
    BY ConstantsAssumption DEF TypeOK, Containers
  <2>2. made < MaxContainers => cre[made + 1] = "none"
    BY Zenon, <2>1 DEF BornInv
  <2> QED BY Zenon, <1>7, <2>1, <2>2
<1>9. at'[t] = "create" /\ StartSidecar(t) => cid'[t] \in 1 .. made'
  BY Zenon, <1>0 DEF StartSidecar, TaskBorn
<1> QED
  BY Zenon, <1>1, <1>2, <1>3, <1>4, <1>5, <1>6, <1>8, <1>9, StartEnters

\* So does the container a stop or the monitor works on.
LEMMA StopMovesBorn ==
  ASSUME TypeOK, BornInv, Next, NEW t \in Stoppers, ~Stays(t)
  PROVE  /\ at'[t] \in {"unbind", "remove", "removeonly", "teardown", "unhook", "settle"} =>
              Born(cid'[t])
         /\ at'[t] = "notify" /\ ~Is(t, "evict")' => Born(cid'[t])
         /\ t = Monitor /\ at'[t] \in {"list", "inspect", "limit"} => Born(cid'[t])
<1>0. /\ t \in Tasks /\ TaskBorn(t)
      /\ (row # None => Born(row)) /\ (state # None => Born(state))
  BY Zenon DEF BornInv, Stoppers, Tasks, MaybeBorn
<1>1. CASE StopBegin(t) /\ at'[t] # "reset"
  <2>1. (state # None /\ KillNotice(t, state)) \/ (row # None /\ KillNotice(t, row))
    BY Zenon, <1>0, <1>1, GoesTo DEF StopBegin
  <2> QED BY Zenon, <1>0, <2>1, CidSet DEF KillNotice, BeginStop
<1>2. CASE RecycleBegin(t) /\ at'[t] # "reset"
  <2>1. \/ state # None /\ BeginStop(t, state, known)
        \/ row # None /\ BeginStop(t, row, known)
    BY Zenon, <1>0, <1>2, GoesTo DEF RecycleBegin
  <2> QED BY Zenon, <1>0, <2>1, CidSet DEF BeginStop
<1>3. CASE StopNotify(t) \/ StopUnbind(t)
  <2>1. at[t] \in {"notify", "unbind"}
        /\ cid' = [cid EXCEPT ![t] = IF Is(t, "evict") THEN obj[t] ELSE cid[t]]
    BY Zenon, <1>3 DEF StopNotify, StopUnbind, KillNotice, BeginStop
  <2>2. cid'[t] = IF Is(t, "evict") THEN obj[t] ELSE cid[t]
    BY Zenon, <1>0, <2>1, CidSet
  <2> QED BY Zenon, <2>1, <2>2, StopHasBorn
<1>4. CASE t = Monitor /\ DeathConfirmed
  <2>1. Born(cid[t])
    BY Zenon, <1>0, <1>4 DEF TaskBorn, HasContainer, DeathConfirmed
  <2>2. cid' = cid \/ cid' = [cid EXCEPT ![t] = cid[t]]
    BY Zenon, <1>4 DEF DeathConfirmed, KillNotice, BeginStop
  <2> QED BY Zenon, <1>0, <2>1, <2>2, CidSet
<1>5. CASE StopRemove(t) /\ at[t] = "remove"
  BY Zenon, <1>0, <1>5 DEF StopRemove, TaskBorn, HasContainer
<1>6. CASE StopTeardown(t) \/ StopUnhook(t)
  BY Zenon, <1>0, <1>6 DEF StopTeardown, StopUnhook, TaskBorn, HasContainer
<1>7. CASE IdleBegin(t) \/ LogoutBegin(t) \/ DrainBegin(t)
  BY Zenon, <1>0, <1>7, CidSet DEF IdleBegin, LogoutBegin, DrainBegin
<1>8. CASE EvictBegin(t)
  <2>1. Is(t, "evict")' /\ at'[t] = "notify"
    BY Zenon, <1>8, KindSet, StopGoes DEF EvictBegin, Is
  <2> QED BY Zenon, <2>1
<1>9. CASE t = Monitor /\ Sweep
  BY Zenon, <1>0, <1>9, CidSet DEF Sweep
<1>10. CASE t = Monitor /\ (SweepListed \/ DeathEntry)
  BY Zenon, <1>0, <1>10 DEF SweepListed, DeathEntry, TaskBorn, HasContainer
<1> QED
  BY Zenon, <1>1, <1>2, <1>3, <1>4, <1>5, <1>6, <1>7, <1>8, <1>9, <1>10, StopEnters

\* So do the container an eviction has captured and the one a /restart keeps.
LEMMA RequestMovesBorn ==
  ASSUME TypeOK, BornInv, Next, NEW t \in Tasks, ~Stays(t)
  PROVE  /\ t \in Requests => MaybeBorn(kept'[t])
         /\ t \in Requests /\ kind'[t] = "evict" /\ at'[t] \in {"notify", "unbind"} =>
              Born(obj'[t])
         /\ t \in Stoppers /\ at'[t] = "reset" => Is(t, "stop")' \/ Is(t, "restart")'
<1>0. TaskBorn(t) /\ MaybeBorn(row) /\ (state # None => Born(state))
  BY Zenon DEF BornInv, MaybeBorn
<1>1. ASSUME t \in Requests PROVE MaybeBorn(kept'[t])
  <2>1. MaybeBorn(kept[t])
    BY Zenon, <1>0, <1>1 DEF TaskBorn
  <2>2. kept' = kept \/ \E u \in Stoppers : kept' = [kept EXCEPT ![u] = row]
    BY Zenon, KeptChanges DEF RecycleBegin
  <2>3. kept'[t] \in {kept[t], row}
    BY <1>1, <2>2 DEF TypeOK
  <2>4. CASE kept'[t] = kept[t]
    BY Zenon, <2>1, <2>4
  <2>5. CASE kept'[t] = row
    BY Zenon, <1>0, <2>5
  <2> QED BY Zenon, <2>3, <2>4, <2>5
<1>2. ASSUME t \in Requests, kind'[t] = "evict", at'[t] \in {"notify", "unbind"}
      PROVE  Born(obj'[t])
  <2>0. t \in Stoppers
    BY Zenon, <1>2 DEF Stoppers
  <2>1. CASE EvictBegin(t)
    <3>1. state # None /\ obj' = [obj EXCEPT ![t] = state]
      BY Zenon, <2>1 DEF EvictBegin
    <3>2. obj'[t] = state
      BY <2>0, <3>1 DEF TypeOK
    <3> QED BY Zenon, <1>0, <3>1, <3>2
  <2>2. CASE IdleBegin(t) \/ LogoutBegin(t) \/ DrainBegin(t) \/ StopBegin(t)
    <3>1. kind'[t] \in {"idle", "logout", "drain", "stop"}
      BY Zenon, <2>2, KindSet DEF IdleBegin, LogoutBegin, DrainBegin, StopBegin
    <3> QED BY Zenon, <1>2, <3>1
  <2>3. CASE StopNotify(t)
    <3>1. at[t] = "notify" /\ kind' = kind /\ obj' = obj
      BY Zenon, <2>3 DEF StopNotify, memory, registry
    <3> QED BY Zenon, <1>0, <1>2, <3>1 DEF TaskBorn
  <2>4. t # Monitor
    BY Zenon, <1>2, ConstantsAssumption
  <2> QED BY Zenon, <1>2, <2>0, <2>1, <2>2, <2>3, <2>4, StopEnters
<1>3. ASSUME t \in Stoppers, at'[t] = "reset"
      PROVE  Is(t, "stop")' \/ Is(t, "restart")'
  <2>1. CASE StopBegin(t) \/ RecycleBegin(t)
    BY Zenon, <2>1, KindSet DEF StopBegin, RecycleBegin, Is
  <2>2. CASE StopSettle(t)
    BY Zenon, <1>3, <2>2, GoesTo DEF StopSettle, Is, memory
  <2> QED BY Zenon, <1>3, <2>1, <2>2, StopEnters
<1> QED BY Zenon, <1>1, <1>2, <1>3

\* Every container the program refers to has been created.
LEMMA BornKept ==
  ASSUME TypeOK, LockInv, BornInv, Next
  PROVE  BornInv'
<1>0. /\ \A c : Born(c) => c \in Containers /\ cre'[c] \notin {"none", "create"}
      /\ cre' \in [Containers -> CreState]
      /\ cre \in [Containers -> CreState]
  BY Zenon, CreStep DEF Born, TypeOK, CreState
<1>1. \A c \in Containers : c > made' => cre'[c] = "none"
  BY Zenon, CreStep
<1>2. ASSUME NEW c \in Containers, pod'[c] # "absent" PROVE Born(c)'
  <2>1. CASE Calms(c)
    BY Zenon, <1>0, <1>2, <2>1 DEF BornInv, Calms, Born
  <2>2. CASE CreateContainer(c)
    BY <1>0, <2>2 DEF CreateContainer, Born
  <2>3. CASE CreateBoot(c)
    BY <1>0, <2>3 DEF CreateBoot, Born
  <2> QED BY Zenon, <2>1, <2>2, <2>3, PodStep
<1>3. MaybeBorn(row)'
  <2>1. CASE row' = row
    BY Zenon, <1>0, <2>1 DEF BornInv, MaybeBorn, Born
  <2>2. CASE \E t \in Starters : at[t] = "adopt" /\ row' = cid[t]
    BY Zenon, <1>0, <2>2
       DEF BornInv, MaybeBorn, Born, TaskBorn, HasContainer, Starters, Tasks
  <2>3. CASE \E c \in Containers : CreateRecord(c)
    BY <1>0, <2>3 DEF CreateRecord, MaybeBorn, Born
  <2> QED
    BY Zenon, <2>1, <2>2, <2>3, RowChanges DEF StartAdopt, RestartCancelled, Starters
<1>4. MaybeBorn(state)'
  BY Zenon, <1>0, RegistryStep DEF BornInv, MaybeBorn, Born
<1>5. \A h \in Stoppers : MaybeBorn(obj[h])'
  BY Zenon, <1>0, RegistryStep DEF BornInv, MaybeBorn, Born
<1>6. ASSUME NEW t \in Tasks, ~Stays(t) PROVE TaskBorn(t)'
  <2>1. HasContainer(t)' => Born(cid'[t])
    BY Zenon, <1>6, StartMovesBorn, StopMovesBorn DEF HasContainer, Stoppers
  <2>2. HasContainer(t)' => Born(cid[t])'
    BY Zenon, <1>0, <2>1 DEF Born
  <2>3. t \in Starters /\ at'[t] \in {"lock", "discard", "label", "gate"} => MaybeBorn(cid[t])'
    BY Zenon, <1>0, <1>6, StartMovesBorn DEF MaybeBorn, Born
  <2>4. t \in Requests => MaybeBorn(kept[t])'
    BY Zenon, <1>0, <1>6, RequestMovesBorn DEF MaybeBorn, Born
  <2>5. t \in Requests /\ kind'[t] = "evict" /\ at'[t] \in {"notify", "unbind"} =>
          Born(obj[t])'
    BY Zenon, <1>0, <1>6, RequestMovesBorn DEF Born
  <2> QED
    BY Zenon, <1>6, <2>2, <2>3, <2>4, <2>5, StartMovesBorn, RequestMovesBorn DEF TaskBorn
<1> QED BY Zenon, <1>1, <1>2, <1>3, <1>4, <1>5, <1>6, StaysBorn DEF BornInv

-----------------------------------------------------------------------------
(* Containers that are down *)

\* A container that is down stays down.
LEMMA DownStays ==
  ASSUME TypeOK, BornInv, Next, NEW c, Born(c)
  PROVE  /\ pod[c] = "absent" => pod'[c] = "absent"
         /\ pod[c] \in {"dead", "absent"} => pod'[c] \in {"dead", "absent"}
<1>1. c \in Containers /\ cre[c] # "create"
  BY Zenon DEF Born
<1>2. Calms(c) \/ (CreateBoot(c) /\ pod[c] \notin {"dead", "absent"}) \/ pod'[c] = pod[c]
  <2>1. Calms(c) \/ CreateContainer(c) \/ CreateBoot(c)
    BY Zenon, <1>1, PodStep
  <2>2. ~CreateContainer(c)
    BY Zenon, <1>1 DEF CreateContainer
  <2>3. CreateBoot(c) => pod[c] = "created" \/ pod' = pod
    BY Zenon DEF CreateBoot
  <2> QED BY Zenon, <2>1, <2>2, <2>3
<1> QED BY Zenon, <1>2 DEF Calms

\* The containers of a workspace share a name, so at most one of them exists.
LEMMA OnePodKept ==
  ASSUME TypeOK, BornInv, PodInv, Next, NEW c \in Containers, NEW d \in Containers,
         pod'[c] # "absent", pod'[d] # "absent"
  PROVE  c = d
<1>1. CASE \E e \in Containers : CreateContainer(e) /\ pod' # pod
  <2>1. PICK e \in Containers : CreateContainer(e) /\ pod' # pod
    BY <1>1
  <2>2. pod' = [f \in Containers |-> IF f = e THEN "created" ELSE "absent"]
    BY Zenon, <2>1 DEF CreateContainer
  <2> QED BY <2>2
<1>2. CASE ~\E e \in Containers : CreateContainer(e) /\ pod' # pod
  <2>1. \A e \in Containers : pod'[e] # "absent" => pod[e] # "absent"
    <3>1. \A e \in Containers : CreateBoot(e) => pod[e] = "created" \/ pod' = pod
      BY Zenon DEF CreateBoot
    <3> QED BY Zenon, <1>2, <3>1, PodStep DEF Calms
  <2> QED BY Zenon, <2>1 DEF PodInv
<1> QED BY <1>1, <1>2

\* The monitor handles containers that are down, and what a stop has removed
\* stays away.
LEMMA PodKept ==
  ASSUME TypeOK, LockInv, BornInv, PodInv, Next, "rm" \notin Faults
  PROVE  PodInv'
<1>0. /\ Monitor \in Stoppers /\ Monitor \in Tasks /\ Stoppers \subseteq Tasks
      /\ Monitor \notin Requests
      /\ \A t \in Tasks : TaskBorn(t)
  BY Zenon, ConstantsAssumption DEF BornInv, Stoppers, Tasks
<1>1. \A c, d \in Containers : pod'[c] # "absent" /\ pod'[d] # "absent" => c = d
  BY Zenon, OnePodKept
<1>2. ASSUME at'[Monitor] \in {"inspect", "limit", "notify", "unbind", "remove",
                               "removeonly", "teardown", "unhook", "settle"}
      PROVE  pod'[cid'[Monitor]] \in {"dead", "absent"}
  <2>1. CASE SweepListed
    <3>1. /\ at[Monitor] = "list" /\ pod[cid[Monitor]] \notin {"created", "running"}
          /\ cid' = cid /\ pod' = pod
      BY Zenon, <1>0, <1>2, <2>1, GoesTo DEF SweepListed, world
    <3>2. Born(cid[Monitor])
      BY Zenon, <1>0, <3>1 DEF TaskBorn, HasContainer
    <3> QED BY <3>1, <3>2 DEF TypeOK, Born
  <2>2. CASE /\ at[Monitor] \in {"inspect", "limit", "notify", "unbind", "remove",
                                 "removeonly", "teardown", "unhook", "settle"}
             /\ cid'[Monitor] = cid[Monitor]
    <3>1. pod[cid[Monitor]] \in {"dead", "absent"}
      BY Zenon, <2>2 DEF PodInv
    <3>2. Born(cid[Monitor])
      BY Zenon, <1>0, <2>2 DEF TaskBorn, HasContainer, Is
    <3> QED BY Zenon, <2>2, <3>1, <3>2, DownStays
  <2>3. CASE Stays(Monitor)
    BY Zenon, <1>2, <2>2, <2>3 DEF Stays
  <2>4. CASE DeathEntry
    BY Zenon, <2>2, <2>4 DEF DeathEntry
  <2>5. CASE DeathConfirmed
    <3>1. at[Monitor] = "limit" /\ (cid' = cid \/ cid' = [cid EXCEPT ![Monitor] = cid[Monitor]])
      BY Zenon, <2>5 DEF DeathConfirmed, KillNotice, BeginStop
    <3> QED BY Zenon, <1>0, <2>2, <3>1, CidSet
  <2>6. CASE StopNotify(Monitor) \/ StopUnbind(Monitor)
    <3>1. at[Monitor] \in {"notify", "unbind"} /\ cid' = [cid EXCEPT ![Monitor] = cid[Monitor]]
      BY Zenon, <1>0, <2>6 DEF StopNotify, StopUnbind, KillNotice, BeginStop, Is
    <3> QED BY Zenon, <1>0, <2>2, <3>1, CidSet
  <2>7. CASE StopRemove(Monitor) \/ StopTeardown(Monitor) \/ StopUnhook(Monitor)
    BY Zenon, <2>2, <2>7 DEF StopRemove, StopTeardown, StopUnhook
  <2>8. ~StopBegin(Monitor) /\ ~RecycleBegin(Monitor) /\ ~IdleBegin(Monitor)
        /\ ~LogoutBegin(Monitor) /\ ~DrainBegin(Monitor) /\ ~EvictBegin(Monitor)
    BY Zenon, <1>0
       DEF StopBegin, RecycleBegin, IdleBegin, LogoutBegin, DrainBegin, EvictBegin, Arrives
  <2> QED
    BY Zenon, <1>0, <1>2, <2>1, <2>3, <2>4, <2>5, <2>6, <2>7, <2>8, StopEnters
<1>3. ASSUME NEW t \in Stoppers, at'[t] \in {"teardown", "unhook", "settle"}
      PROVE  pod'[cid'[t]] = "absent"
  <2>1. CASE /\ at[t] \in {"teardown", "unhook", "settle"} /\ cid'[t] = cid[t]
    <3>1. Born(cid[t])
      BY Zenon, <1>0, <2>1 DEF TaskBorn, HasContainer
    <3> QED BY Zenon, <2>1, <3>1, DownStays DEF PodInv
  <2>2. CASE StopRemove(t) /\ at[t] = "remove"
    <3>1. Born(cid[t])
      BY Zenon, <1>0, <2>2 DEF TaskBorn, HasContainer
    <3>2. cid' = cid /\ pod' = [pod EXCEPT ![cid[t]] = "absent"]
      BY Zenon, <2>2 DEF StopRemove
    <3> QED BY <3>1, <3>2 DEF TypeOK, Born
  <2>3. CASE StopTeardown(t) \/ StopUnhook(t)
    BY Zenon, <2>1, <2>3 DEF StopTeardown, StopUnhook
  <2> QED BY Zenon, <1>3, <2>1, <2>2, <2>3, StopEnters DEF Stays
<1> QED BY Zenon, <1>1, <1>2, <1>3 DEF PodInv

-----------------------------------------------------------------------------
(* Creates under the lock *)

\* Without strays, a create that is under way has its start, which holds the lock.
LEMMA CreatingLocked ==
  ASSUME LockInv, StrayInv, NEW c \in Creating
  PROVE  \E t \in Starters : lock = t /\ t \in Tasks /\ at[t] = "create" /\ cid[t] = c
BY Zenon DEF StrayInv, LockInv, Holds, Locked, Starters, Tasks

\* Nothing comes up beside c when no other container is being created.
LEMMA OnlyPodStays ==
  ASSUME TypeOK, Next, NEW c, OnlyPod(c), \A d \in Creating : d = c
  PROVE  OnlyPod(c)'
<1> SUFFICES ASSUME NEW d \in Containers, d # c
             PROVE  pod'[d] = "absent"
  BY Zenon DEF OnlyPod
<1>1. d \notin Creating /\ pod[d] = "absent"
  BY Zenon DEF OnlyPod
<1>2. ~CreateContainer(d) /\ ~CreateBoot(d)
  BY Zenon, <1>1 DEF CreateContainer, CreateBoot, Creating
<1> QED BY Zenon, <1>1, <1>2, PodStep DEF Calms

\* A container is tracked under the lock, and is the only one there is.
LEMMA TracksUnder ==
  ASSUME TypeOK, LockInv, BornInv, PodInv, StrayInv, NEW c \in Containers, Tracks(c)
  PROVE  /\ OnlyPod(c)
         /\ \E t \in Starters : /\ lock = t /\ t \in Tasks
                                /\ \/ at[t] \in {"inspect", "adopted"}
                                   \/ at[t] = "create" /\ cid[t] = c /\ cre[c] = "track"
<1>1. CASE CreateTrack(c)
  <2>1. cre[c] = "track" /\ c \in Creating
    BY Zenon, <1>1 DEF CreateTrack, Creating
  <2> QED BY Zenon, <2>1, CreatingLocked DEF StrayInv
<1>2. CASE \E t \in Starters : cid[t] = c /\ StartInspect(t) /\ pod[c] = "running"
  <2>1. OnlyPod(c)
    BY Zenon, <1>2 DEF PodInv, OnlyPod
  <2> QED BY Zenon, <1>2, <2>1 DEF StartInspect, LockInv, Holds, Locked, Starters, Tasks
<1>3. CASE \E t \in Starters : cid[t] = c /\ StartAdopted(t)
  BY Zenon, <1>3 DEF StartAdopted, LockInv, Holds, Locked, Starters, Tasks, StrayInv
<1> QED BY Zenon, <1>1, <1>2, <1>3 DEF Tracks

\* While c is being created nobody else changes what is tracked.
LEMMA CreatingKeepsState ==
  ASSUME TypeOK, LockInv, StrayInv, Next, NEW c \in Creating
  PROVE  state' = state \/ CreateTrack(c)
<1>1. PICK t \in Starters : lock = t /\ t \in Tasks /\ at[t] = "create" /\ cid[t] = c
  BY Zenon, CreatingLocked
<1>2. t # Nobody
  BY Zenon, <1>1, ConstantsAssumption
<1>3. \A u \in Tasks : Holds(u) => at[u] = "create"
  BY Zenon, <1>1 DEF LockInv
<1>4. \A u \in Starters : ~StartInspect(u) /\ ~StartAdopted(u)
  BY Zenon, <1>3 DEF StartInspect, StartAdopted, Holds, Locked, Starters, Tasks
<1>5. \A u \in Stoppers : ~StopUnbind(u) /\ ~StopUnhook(u) /\ ~StopReset(u)
  BY Zenon, <1>1, <1>2, <1>3 DEF StopUnbind, StopUnhook, StopReset, Holds, Stoppers, Tasks
<1>6. \A d \in Containers : CreateTrack(d) => d = c
  <2> SUFFICES ASSUME NEW d \in Containers, CreateTrack(d) PROVE d = c
    OBVIOUS
  <2>1. d \in Creating
    BY Zenon DEF CreateTrack, Creating
  <2> QED BY Zenon, <1>1, <2>1, CreatingLocked
<1> QED BY Zenon, <1>4, <1>5, <1>6, StateChanges

\* How a start leaves the shielded create.
LEMMA CreateLeft ==
  ASSUME TypeOK, Next, NEW t \in Starters, at[t] = "create"
  PROVE  Stays(t) \/ StartCreated(t) \/ (t \in Restarts /\ RestartCancelled(t))
<1>1. t \in Tasks /\ t # Monitor
  BY Zenon, ConstantsAssumption DEF Starters, Tasks
<1>2. Stays(t) \/ Acts(t)
  BY Zenon, <1>1, Moves DEF Scheduled
<1>3. StartBegin(t) \/ StartStep(t) => StartCreated(t)
  BY Zenon
     DEF StartBegin, Arrives, StartStep, StartLock, StartInspect, StartDiscard, StartLabel,
         StartAdopt, StartAdopted, StartGate, StartSidecar, StartBringup, StartUndo
<1>4. RestartStep(t) => RestartCancelled(t)
  BY Zenon DEF RestartStep, RestartWakes, RestartUnwinds
<1>5. ~Begins(t) /\ ~StopStep(t)
  BY Zenon
     DEF Begins, StopBegin, RecycleBegin, IdleBegin, LogoutBegin, DrainBegin, EvictBegin,
         Arrives, StopStep, StopNotify, StopUnbind, StopRemove, StopTeardown, StopUnhook,
         StopSettle, StopReset
<1>6. Acts(t) => StartBegin(t) \/ StartStep(t) \/ (t \in Restarts /\ RestartStep(t))
  BY Zenon, <1>1, <1>5 DEF Acts
<1> QED BY Zenon, <1>2, <1>3, <1>4, <1>6

\* A create that has outlived its restart is not forgotten.
LEMMA StrayMonotone ==
  ASSUME TypeOK, Next, ~stray'
  PROVE  ~stray /\ \A t \in Restarts : at[t] = "create" => ~RestartCancelled(t)
<1>1. ASSUME NEW t \in Restarts, RestartCancelled(t) PROVE ~stray /\ at[t] # "create"
  BY Zenon, <1>1 DEF RestartCancelled
<1>2. CASE stray' = stray
  BY Zenon, <1>1, <1>2
<1>3. CASE stray' # stray
  BY Zenon, <1>1, <1>3, StrayChanges
<1> QED BY <1>2, <1>3

\* Every create that is under way has its start waiting for it, under the lock.
LEMMA StrayKept ==
  ASSUME TypeOK, LockInv, BornInv, PodInv, StrayInv, Next, ~stray'
  PROVE  StrayInv'
<1>0. /\ Starters \subseteq Tasks /\ Stoppers \subseteq Tasks
      /\ \A t \in Tasks : TaskBorn(t)
  BY Zenon DEF BornInv, Starters, Stoppers, Tasks
<1>1. ASSUME NEW c \in Creating'
      PROVE  \E t \in Starters : at'[t] = "create" /\ cid'[t] = c
  <2>1. CASE c \in Creating
    <3>1. PICK t \in Starters : at[t] = "create" /\ cid[t] = c
      BY Zenon, <2>1 DEF StrayInv
    <3>2. ~StartCreated(t)
      BY Zenon, <2>1, <3>1 DEF StartCreated, Creating
    <3>3. Stays(t)
      BY Zenon, <3>1, <3>2, CreateLeft, StrayMonotone
    <3> QED BY Zenon, <3>1, <3>3 DEF Stays
  <2>2. CASE c \notin Creating
    <3>1. c \in Containers /\ cre'[c] # cre[c]
      BY Zenon, <1>1, <2>2 DEF Creating
    <3>2. ~CreateStep(c)
      BY Zenon, <2>2, <3>1
         DEF CreateStep, CreateContainer, CreateRecord, CreateTrack, CreateBoot, CreateReady,
             Creating
    <3> QED BY ZenonT(30), <3>1, <3>2, CreStep DEF SetsOut
  <2> QED BY <2>1, <2>2
<1>2. ASSUME NEW c \in Containers, cre'[c] = "boot" PROVE state' = c
  <2>1. CASE CreateTrack(c)
    BY Zenon, <2>1 DEF CreateTrack, Track
  <2>2. CASE cre[c] = "boot"
    <3>1. state = c /\ c \in Creating /\ ~CreateTrack(c)
      BY Zenon, <2>2 DEF StrayInv, Creating, CreateTrack
    <3> QED BY Zenon, <3>1, CreatingKeepsState
  <2>3. CASE CreateStep(c) /\ cre[c] # "boot" /\ ~CreateTrack(c)
    <3>1. cre \in [Containers -> CreState]
      BY Zenon DEF TypeOK, CreState
    <3>2. \E x \in {"record", "track", "ready", "ok", "failed"} : cre' = [cre EXCEPT ![c] = x]
      BY Zenon, <2>3
         DEF CreateStep, CreateContainer, CreateRecord, CreateBoot, CreateReady
    <3> QED BY <1>2, <3>1, <3>2
  <2> QED BY Zenon, <1>2, <2>1, <2>2, <2>3, CreStep DEF SetsOut
<1>3. ASSUME NEW t \in Stoppers, at'[t] = "unhook" PROVE state' \in {None, cid'[t]}
  <2>1. CASE Stays(t)
    <3>1. state \in {None, cid[t]} /\ at[t] = "unhook" /\ cid'[t] = cid[t] /\ lock = t
      BY Zenon, <1>0, <1>3, <2>1 DEF StrayInv, Stays, LockInv, Holds
    <3>2. ASSUME state' # state, state' # None PROVE FALSE
      <4>1. Tracks(state') /\ state' \in Containers
        BY Zenon, <3>2, RegistryStep DEF Born
      <4> QED BY Zenon, <3>1, <4>1, TracksUnder
    <3> QED BY Zenon, <3>1, <3>2
  <2>2. CASE StopTeardown(t)
    BY Zenon, <1>0, <1>3, <2>2, GoesTo DEF StopTeardown, Rebound, registry
  <2> QED BY Zenon, <1>3, <2>1, <2>2, StopEnters
<1>4. ASSUME NEW c \in Containers, cre'[c] \in {"record", "track"} PROVE OnlyPod(c)'
  <2>1. CASE cre[c] \in {"record", "track"}
    <3>1. OnlyPod(c) /\ c \in Creating
      BY Zenon, <2>1 DEF StrayInv, Creating
    <3>2. \A d \in Creating : d = c
      BY Zenon, <3>1, CreatingLocked
    <3> QED BY Zenon, <3>1, <3>2, OnlyPodStays
  <2>2. CASE CreateContainer(c) /\ cre'[c] = "record"
    <3>1. cre' # [cre EXCEPT ![c] = "failed"]
      BY <2>2 DEF TypeOK
    <3>2. pod' = [d \in Containers |-> IF d = c THEN "created" ELSE "absent"]
      BY Zenon, <2>2, <3>1 DEF CreateContainer
    <3> QED BY <3>2 DEF OnlyPod
  <2>3. CASE CreateStep(c) /\ cre[c] \notin {"record", "track"} /\ ~CreateContainer(c)
    <3>1. cre \in [Containers -> CreState]
      BY Zenon DEF TypeOK, CreState
    <3>2. \E x \in {"ready", "ok", "failed"} : cre' = [cre EXCEPT ![c] = x]
      BY Zenon, <2>3
         DEF CreateStep, CreateRecord, CreateTrack, CreateBoot, CreateReady
    <3> QED BY <1>4, <3>1, <3>2
  <2>4. CASE CreateContainer(c) /\ cre'[c] = "track"
    <3>1. cre \in [Containers -> CreState]
      BY Zenon DEF TypeOK, CreState
    <3>2. \E x \in {"record", "failed"} : cre' = [cre EXCEPT ![c] = x]
      BY Zenon, <2>4 DEF CreateContainer
    <3> QED BY <2>4, <3>1, <3>2
  <2> QED BY Zenon, <1>4, <2>1, <2>2, <2>3, <2>4, CreStep DEF SetsOut
<1>5. ASSUME NEW t \in Starters, at'[t] \in {"adopt", "adopted"} PROVE OnlyPod(cid[t])'
  <2>1. CASE at[t] \in {"adopt", "adopted"} /\ cid'[t] = cid[t]
    <3>1. OnlyPod(cid[t]) /\ lock = t
      BY Zenon, <1>0, <2>1 DEF StrayInv, LockInv, Holds, Locked
    <3>2. \A d \in Creating : d = cid[t]
      BY Zenon, <2>1, <3>1, CreatingLocked
    <3>3. \A d \in Containers : d # cid[t] => pod'[d] = "absent"
      BY Zenon, <3>1, <3>2, OnlyPodStays DEF OnlyPod
    <3> QED BY Zenon, <2>1, <3>3 DEF OnlyPod
  <2>2. CASE StartLabel(t) /\ at'[t] = "adopt"
    <3>1. PICK c \in Containers, gone \in SUBSET Down :
             pod[c] = "running" /\ cid' = [cid EXCEPT ![t] = c] /\ pod' = Without(gone)
      BY Zenon, <1>0, <2>2, GoesTo, ReleaseFrees DEF StartLabel
    <3>2. OnlyPod(c)
      BY Zenon, <3>1 DEF PodInv, OnlyPod
    <3>3. cid'[t] = c
      BY Zenon, <1>0, <3>1, CidSet
    <3> QED BY <3>1, <3>2, <3>3 DEF OnlyPod, Without
  <2>3. CASE StartAdopt(t)
    BY Zenon, <2>1, <2>3 DEF StartAdopt
  <2> QED BY Zenon, <1>5, <2>1, <2>2, <2>3, StartEnters DEF Stays
<1>6. ASSUME NEW t \in Requests, kind'[t] = "evict", at'[t] = "unbind",
             pod'[cid'[t]] # "absent"
      PROVE  obj'[t] = cid'[t]
  <2>0. t \in Stoppers /\ t \in Tasks /\ t # Monitor
    BY Zenon, <1>6, ConstantsAssumption DEF Stoppers, Tasks
  <2>1. CASE Stays(t)
    <3>1. kind[t] = "evict" /\ at[t] = "unbind" /\ cid'[t] = cid[t]
      BY Zenon, <1>6, <2>1 DEF Stays
    <3>2. Born(cid[t])
      BY Zenon, <1>0, <2>0, <3>1 DEF TaskBorn, HasContainer
    <3>3. pod[cid[t]] # "absent"
      BY Zenon, <1>6, <3>1, <3>2, DownStays
    <3>4. obj[t] = cid[t]
      BY Zenon, <3>1, <3>3 DEF StrayInv
    <3>5. CASE \E c \in Containers : Tracks(c) /\ Track(c)
      <4>1. PICK c \in Containers : Tracks(c) /\ Track(c)
        BY <3>5
      <4>2. OnlyPod(c)
        BY Zenon, <4>1, TracksUnder
      <4>3. cid[t] \in Containers
        BY Zenon, <3>2 DEF Born
      <4>4. c = cid[t]
        BY Zenon, <3>3, <4>2, <4>3 DEF OnlyPod
      <4>5. obj'[t] \in {c, obj[t]}
        BY Zenon, <2>0, <4>1, TrackTypes
      <4> QED BY Zenon, <3>1, <3>4, <4>4, <4>5
    <3>6. CASE \E h \in Stoppers : /\ obj' = [obj EXCEPT ![h] = state]
                                   /\ EvictBegin(h) \/ h = Monitor
      <4>1. PICK h \in Stoppers : /\ obj' = [obj EXCEPT ![h] = state]
                                  /\ EvictBegin(h) \/ h = Monitor
        BY <3>6
      <4>2. h # t
        BY Zenon, <2>0, <3>1, <4>1 DEF EvictBegin, Arrives
      <4>3. obj'[t] = obj[t]
        BY <2>0, <4>1, <4>2 DEF TypeOK
      <4> QED BY Zenon, <3>1, <3>4, <4>3
    <3>7. CASE obj' = obj
      BY Zenon, <3>1, <3>4, <3>7
    <3> QED BY Zenon, <3>5, <3>6, <3>7, StateStep, UntrackTypes
  <2>2. CASE StopBegin(t)
    <3>1. kind'[t] = "stop"
      BY Zenon, <2>2, KindSet DEF StopBegin
    <3> QED BY Zenon, <1>6, <3>1
  <2>3. CASE StopNotify(t)
    <3>1. kind' = kind /\ obj' = obj
          /\ cid' = [cid EXCEPT ![t] = IF Is(t, "evict") THEN obj[t] ELSE cid[t]]
      BY Zenon, <2>3 DEF StopNotify, KillNotice, BeginStop, memory, registry
    <3>2. cid'[t] = IF Is(t, "evict") THEN obj[t] ELSE cid[t]
      BY Zenon, <2>0, <3>1, CidSet
    <3> QED BY Zenon, <1>6, <3>1, <3>2 DEF Is
  <2> QED BY Zenon, <1>6, <2>0, <2>1, <2>2, <2>3, StopEnters
<1> QED BY Zenon, <1>1, <1>2, <1>3, <1>4, <1>5, <1>6 DEF StrayInv

-----------------------------------------------------------------------------
(* Running containers are tracked *)

\* A step that bypasses a re-bind guard is never undone.
LEMMA GuardedBefore ==
  ASSUME TypeOK, Next, Guarded'
  PROVE  Guarded
<1>1. ~stray
  BY Zenon, StrayMonotone DEF Guarded
<1>2. ASSUME NEW t \in Requests, kind[t] \in {"stop", "restart"},
             at[t] \in StartPlaces \cup {"done"}
      PROVE  FALSE
  <2>1. t \in Tasks /\ t \in Starters /\ t \in Stoppers /\ t # Monitor /\ t \notin Restarts
    BY Zenon, ConstantsAssumption DEF Tasks, Starters, Stoppers
  <2>2. kind'[t] \in {"stop", "restart"} /\ at'[t] \in StartPlaces \cup {"done"}
    <3>1. CASE Stays(t)
      BY Zenon, <1>2, <3>1 DEF Stays
    <3>2. CASE StartStep(t)
      <4>1. at'[t] \in StartPlaces \cup {"done"}
        <5>1. \/ \E p \in StartPlaces \ {"sleep"} : Go(t, p)
              \/ \E ok \in BOOLEAN : Release(t, ok)
          BY Zenon, <3>2
             DEF StartStep, StartLock, StartInspect, StartDiscard, StartLabel, StartAdopt,
                 StartAdopted, StartGate, StartSidecar, StartCreated, StartBringup, StartUndo,
                 StartPlaces
        <5> QED BY Zenon, <2>1, <5>1, GoesTo DEF Release
      <4>2. kind' = kind
        BY Zenon, <3>2
           DEF StartStep, StartLock, StartInspect, StartDiscard, StartLabel, StartAdopt,
               StartAdopted, StartGate, StartSidecar, StartCreated, StartBringup, StartUndo,
               memory
      <4> QED BY Zenon, <1>2, <4>1, <4>2
    <3>3. ~StopStep(t)
      BY Zenon, <1>2
         DEF StartPlaces, StopStep, StopNotify, StopUnbind, StopRemove, StopTeardown,
             StopUnhook, StopSettle, StopReset
    <3>4. ~StartBegin(t) /\ ~Begins(t)
      BY Zenon, <1>2
         DEF StartPlaces, Begins, StartBegin, StopBegin, RecycleBegin, IdleBegin, LogoutBegin,
             DrainBegin, EvictBegin, Arrives
    <3> QED BY Zenon, <2>1, <3>1, <3>2, <3>3, <3>4, Moves DEF Acts, Scheduled
  <2> QED BY Zenon, <2>2 DEF Guarded
<1> QED BY Zenon, <1>1, <1>2 DEF Guarded

\* How a stop leaves its removal.
LEMMA RemoveLeft ==
  ASSUME TypeOK, Next, NEW t \in Stoppers, at[t] \in {"remove", "removeonly"}
  PROVE  Stays(t) \/ StopRemove(t)
<1>1. t \in Tasks /\ t \notin Restarts
  BY Zenon, ConstantsAssumption DEF Stoppers, Tasks
<1>2. Stays(t) \/ Acts(t)
  BY Zenon, <1>1, Moves DEF Scheduled
<1>3. ~StartBegin(t) /\ ~StartStep(t)
  BY Zenon
     DEF StartBegin, Arrives, StartStep, StartLock, StartInspect, StartDiscard, StartLabel,
         StartAdopt, StartAdopted, StartGate, StartSidecar, StartCreated, StartBringup,
         StartUndo
<1>4. StopStep(t) => StopRemove(t)
  BY Zenon
     DEF StopStep, StopNotify, StopUnbind, StopTeardown, StopUnhook, StopSettle, StopReset
<1>5. ~Begins(t) /\ ~(t = Monitor /\ (Sweep \/ MonitorStep))
  BY Zenon
     DEF Begins, StopBegin, RecycleBegin, IdleBegin, LogoutBegin, DrainBegin, EvictBegin,
         Arrives, Sweep, MonitorStep, SweepListed, DeathEntry, DeathConfirmed, DeathSettled
<1> QED BY Zenon, <1>1, <1>2, <1>3, <1>4, <1>5 DEF Acts

\* A running container is tracked, or a stop is about to remove it.
LEMMA TrackKept ==
  ASSUME TypeOK, LockInv, BornInv, PodInv, StrayInv, TrackInv, Next, Guarded',
         "rm" \notin Faults
  PROVE  TrackInv'
<1> SUFFICES ASSUME NEW c \in Containers, pod'[c] = "running"
             PROVE  \/ state' = c
                    \/ \E t \in Stoppers :
                         at'[t] \in {"remove", "removeonly"} /\ cid'[t] = c
  BY Zenon DEF TrackInv
<1>0. Stoppers \subseteq Tasks /\ Requests \subseteq Stoppers /\ None \notin Containers
  BY ConstantsAssumption DEF Stoppers, Tasks, None, Containers
<1>1. CASE pod[c] # "running"
  <2>1. CreateBoot(c)
    <3>1. ~Calms(c)
      BY Zenon, <1>1 DEF Calms
    <3>2. ~CreateContainer(c)
      BY <1>1 DEF CreateContainer, TypeOK
    <3> QED BY Zenon, <3>1, <3>2, PodStep
  <2> QED BY Zenon, <2>1 DEF CreateBoot, StrayInv, registry
<1>2. CASE /\ pod[c] = "running"
           /\ \E t \in Stoppers : at[t] \in {"remove", "removeonly"} /\ cid[t] = c
  <2>1. PICK t \in Stoppers : at[t] \in {"remove", "removeonly"} /\ cid[t] = c
    BY <1>2
  <2>2. CASE Stays(t)
    BY Zenon, <2>1, <2>2 DEF Stays
  <2>3. CASE StopRemove(t)
    <3>1. pod' = [pod EXCEPT ![c] = "absent"]
      BY Zenon, <2>1, <2>3 DEF StopRemove
    <3> QED BY <3>1 DEF TypeOK
  <2> QED BY Zenon, <2>1, <2>2, <2>3, RemoveLeft
<1>3. CASE pod[c] = "running" /\ state = c /\ state' # c
  <2>1. ASSUME NEW d \in Containers, Tracks(d), state' = d PROVE FALSE
    BY Zenon, <1>3, <2>1, TracksUnder DEF OnlyPod
  <2>2. state' = None
    BY Zenon, <1>3, <2>1, RegistryStep DEF Born
  <2>3. CASE \E t \in Stoppers : StopUnbind(t)
    <3>1. PICK t \in Stoppers : StopUnbind(t)
      BY <2>3
    <3> DEFINE v == IF Is(t, "evict") THEN obj[t] ELSE cid[t]
    <3>2. /\ at[t] = "unbind" /\ ~Rebound(cid[t])
          /\ \E tracked : BeginStop(t, v, tracked)
      BY Zenon, <1>3, <3>1 DEF StopUnbind, registry
    <3>3. cid[t] = c
      BY Zenon, <1>0, <1>3, <3>2 DEF Rebound
    <3>4. v = c
      BY Zenon, <1>3, <3>2, <3>3 DEF StrayInv, Is
    <3> HIDE DEF v
    <3>5. cid' = [cid EXCEPT ![t] = c] /\ (Go(t, "remove") \/ Go(t, "removeonly"))
      BY Zenon, <3>2, <3>4 DEF BeginStop
    <3> QED BY Zenon, <1>0, <3>5, CidSet, GoesTo
  <2>4. CASE \E t \in Stoppers : StopUnhook(t)
    <3>1. PICK t \in Stoppers : StopUnhook(t)
      BY <2>4
    <3>2. at[t] = "unhook"
      BY Zenon, <3>1 DEF StopUnhook
    <3>3. cid[t] = c /\ pod[cid[t]] = "absent"
      BY Zenon, <1>0, <1>3, <3>2 DEF StrayInv, PodInv
    <3> QED BY Zenon, <1>3, <3>3
  <2>5. CASE \E t \in Stoppers : StopReset(t)
    <3>1. PICK t \in Stoppers : StopReset(t)
      BY <2>5
    <3>2. at[t] = "reset" /\ kind' = kind
      BY Zenon, <3>1 DEF StopReset, memory
    <3>3. t \in Requests /\ kind[t] \in {"stop", "restart"}
      BY Zenon, <1>0, <3>2 DEF BornInv, TaskBorn, Is
    <3>4. at'[t] \in {"lock", "done"}
      BY Zenon, <3>1, StopGoes
    <3> QED BY Zenon, <3>2, <3>3, <3>4 DEF Guarded, StartPlaces
  <2>6. CASE \E d \in Containers : CreateTrack(d)
    BY Zenon, <1>0, <2>2, <2>6 DEF CreateTrack, Track
  <2>7. CASE \E t \in Starters : StartInspect(t) \/ StartAdopted(t)
    <3>1. PICK t \in Starters : StartInspect(t) \/ StartAdopted(t)
      BY <2>7
    <3>2. state' = cid[t]
      BY Zenon, <1>3, <3>1 DEF StartInspect, StartAdopted, Track, registry
    <3>3. cid[t] \in Containers
      BY Zenon, <3>1
         DEF BornInv, TaskBorn, HasContainer, StartInspect, StartAdopted, Born, Starters, Tasks
    <3> QED BY Zenon, <1>0, <2>2, <3>2, <3>3
  <2> QED BY Zenon, <1>3, <2>3, <2>4, <2>5, <2>6, <2>7, StateChanges
<1> QED BY Zenon, <1>1, <1>2, <1>3 DEF TrackInv

\* A step of the monitor takes no container away that is up.
LEMMA MonitorSpares ==
  ASSUME TypeOK, BornInv, PodInv, StrayInv, TrackInv, Next, at'[Monitor] # at[Monitor],
         NEW c \in Containers, pod[c] = "running",
         \A t \in Stoppers \ {Monitor} : at[t] \in {"remove", "removeonly"} => cid[t] # c
  PROVE  pod'[c] = "running"
<1>0. Monitor \in Stoppers /\ Monitor \in Tasks /\ Monitor \notin Requests
      /\ Monitor \notin Starters /\ Monitor \notin Restarts
  BY Zenon, ConstantsAssumption DEF Stoppers, Starters, Tasks
<1>1. Acts(Monitor)
  BY Zenon, <1>0, Moves DEF Stays, Scheduled
<1>2. CASE StopRemove(Monitor)
  <2>1. cid[Monitor] # c
    BY Zenon, <1>2 DEF StopRemove, PodInv
  <2>2. pod' = pod \/ pod' = [pod EXCEPT ![cid[Monitor]] = "absent"]
    BY Zenon, <1>2 DEF StopRemove
  <2> QED BY <2>1, <2>2 DEF TypeOK
<1>3. CASE StopUnhook(Monitor)
  <2>1. at[Monitor] = "unhook"
    BY Zenon, <1>3 DEF StopUnhook
  <2>2. state = c
    BY Zenon, <2>1 DEF TrackInv
  <2>3. c = cid[Monitor] /\ pod[cid[Monitor]] = "absent"
    <3>1. c # None
      BY DEF Containers, None
    <3> QED BY Zenon, <1>0, <2>1, <2>2, <3>1 DEF StrayInv, PodInv
  <2> QED BY Zenon, <2>3
<1>4. CASE Begins(Monitor)
  BY Zenon, <1>0, <1>4
     DEF Begins, StopBegin, RecycleBegin, IdleBegin, LogoutBegin, DrainBegin, EvictBegin,
         Arrives
<1>5. CASE StopNotify(Monitor) \/ StopUnbind(Monitor) \/ StopTeardown(Monitor)
           \/ StopSettle(Monitor) \/ StopReset(Monitor) \/ Sweep \/ MonitorStep
  <2>1. pod' = pod
    BY Zenon, <1>5
       DEF StopNotify, StopUnbind, StopTeardown, StopSettle, StopReset, Sweep, MonitorStep,
           SweepListed, DeathEntry, DeathConfirmed, DeathSettled, world
  <2> QED BY Zenon, <2>1
<1> QED BY Zenon, <1>0, <1>1, <1>2, <1>3, <1>4, <1>5 DEF Acts, StopStep

-----------------------------------------------------------------------------
(* What was stopped stays down *)

\* A container that is over stays so.
LEMMA OverStays ==
  ASSUME TypeOK, BornInv, Next, NEW c, Born(c), Over(c)
  PROVE  Over(c)'
<1>0. /\ c \in Containers /\ cre[c] \notin {"none", "create"} /\ c # None
      /\ c \notin Creating /\ state # c /\ pod[c] # "running"
      /\ \A t \in Starters : at[t] \in {"adopt", "adopted"} => cid[t] # c
  <2>1. c \in Containers => c # None
    BY DEF Containers, None
  <2> QED BY Zenon, <2>1 DEF Born, Over
<1>1. ~CreateStep(c)
  BY Zenon, <1>0
     DEF CreateStep, CreateContainer, CreateRecord, CreateTrack, CreateBoot, CreateReady,
         Creating
<1>2. state' # c
  <2>1. ~Tracks(c)
    BY Zenon, <1>0, <1>1 DEF Tracks, CreateStep, StartAdopted
  <2> QED BY Zenon, <1>0, <2>1, RegistryStep
<1>3. pod'[c] # "running"
  BY Zenon, <1>0, <1>1, PodStep DEF CreateStep, Calms
<1>4. c \notin Creating'
  <2>1. cre'[c] = cre[c]
    BY Zenon, <1>0, <1>1, CreStep DEF SetsOut
  <2> QED BY Zenon, <1>0, <2>1 DEF Creating
<1>5. ASSUME NEW t \in Starters, at'[t] \in {"adopt", "adopted"}, cid'[t] = c PROVE FALSE
  <2>1. t \in Tasks
    BY Zenon DEF Starters, Tasks
  <2>2. CASE Stays(t)
    BY Zenon, <1>0, <1>5, <2>2 DEF Stays
  <2>3. CASE StartLabel(t) /\ at'[t] = "adopt"
    <3>1. PICK d \in Containers : pod[d] = "running" /\ cid' = [cid EXCEPT ![t] = d]
      BY Zenon, <2>1, <2>3, GoesTo, ReleaseFrees DEF StartLabel
    <3> QED BY Zenon, <1>0, <1>5, <2>1, <3>1, CidSet
  <2>4. CASE StartAdopt(t)
    BY Zenon, <1>0, <1>5, <2>4 DEF StartAdopt
  <2> QED BY Zenon, <1>5, <2>2, <2>3, <2>4, StartEnters
<1> QED BY Zenon, <1>2, <1>3, <1>4, <1>5 DEF Over

\* Under the free lock, or under that of a teardown, a container that was removed
\* is over once it is not tracked.
LEMMA RemovedIsOver ==
  ASSUME TypeOK, LockInv, BornInv, PodInv, StrayInv, Next, NEW t \in Stoppers,
         at[t] \in {"teardown", "unhook"}, lock \in {Nobody, t}, cid'[t] = cid[t],
         state' # cid[t], cre' = cre, \A u \in Tasks \ {t} : Stays(u),
         at'[t] \notin {"adopt", "adopted"}
  PROVE  Over(cid[t])'
<1>0. t \in Tasks /\ Starters \subseteq Tasks
  BY Zenon DEF Stoppers, Starters, Tasks
<1>1. Born(cid[t]) /\ pod[cid[t]] = "absent"
  BY Zenon, <1>0 DEF BornInv, TaskBorn, HasContainer, PodInv
<1>2. pod'[cid[t]] = "absent"
  BY Zenon, <1>1, DownStays
<1>3. \A u \in Starters : at[u] \notin {"create", "adopt", "adopted"}
  BY Zenon, <1>0, ConstantsAssumption DEF LockInv, Holds, Locked
<1>4. Creating' = {}
  BY Zenon, <1>3 DEF StrayInv, Creating
<1>5. \A u \in Starters : at'[u] \notin {"adopt", "adopted"}
  BY Zenon, <1>0, <1>3 DEF Stays
<1> QED BY Zenon, <1>2, <1>4, <1>5 DEF Over

\* The steps that end a teardown.
LEMMA SettleIsOver ==
  ASSUME TypeOK, LockInv, BornInv, PodInv, StrayInv, Next, NEW t \in Stoppers,
         StopTeardown(t) \/ StopUnhook(t), at'[t] = "settle"
  PROVE  Over(cid[t])' /\ cid'[t] = cid[t]
<1>0. t \in Tasks /\ \A u \in Tasks \ {t} : Stays(u)
  <2>1. t \in Tasks
    BY Zenon DEF Stoppers, Tasks
  <2>2. One(t)
    BY Zenon, StopOne DEF StopStep
  <2> QED BY Zenon, <2>1, <2>2, OneAlone
<1>1. Born(cid[t]) /\ cid[t] # None
  <2>1. Born(cid[t])
    BY Zenon, <1>0 DEF StopTeardown, StopUnhook, BornInv, TaskBorn, HasContainer
  <2> QED BY <2>1 DEF Born, Containers, None
<1>2. cid' = cid /\ cre' = cre /\ at[t] \in {"teardown", "unhook"}
  BY Zenon DEF StopTeardown, StopUnhook
<1>3. lock \in {Nobody, t}
  BY Zenon, <1>0 DEF StopTeardown, StopUnhook, LockInv, Holds
<1>4. state' # cid[t]
  <2>1. CASE StopTeardown(t)
    BY Zenon, <1>0, <2>1, GoesTo DEF StopTeardown, Rebound, registry
  <2>2. CASE StopUnhook(t)
    BY Zenon, <1>1, <2>2 DEF StopUnhook, Untrack
  <2> QED BY <2>1, <2>2
<1>5. Over(cid[t])'
  BY Zenon, <1>0, <1>2, <1>3, <1>4, RemovedIsOver
<1> QED BY Zenon, <1>2, <1>5

\* How a stop comes to the steps that carry its mark: it has set the mark just
\* now, or it was there before and works on the same container.
LEMMA StoppingStep ==
  ASSUME TypeOK, BornInv, Next, NEW t \in Stoppers, t \in Stopping'
  PROVE  \/ \E c \in Containers : Marks(t, c)
         \/ t \in Stopping /\ cid'[t] = cid[t]
<1>0. t \in Tasks
  BY Zenon DEF Stoppers, Tasks
<1>1. CASE Stays(t)
  BY Zenon, <1>1 DEF Stays, Stopping
<1>2. CASE StopRemove(t) /\ at[t] = "remove"
  BY Zenon, <1>2 DEF StopRemove, Stopping
<1>3. CASE StopTeardown(t) \/ StopUnhook(t)
  BY Zenon, <1>3 DEF StopTeardown, StopUnhook, Stopping
<1>4. CASE at'[t] = "remove" /\ ~Stays(t)
  <2>1. \/ StopBegin(t) \/ RecycleBegin(t) \/ StopNotify(t) \/ StopUnbind(t)
        \/ (t = Monitor /\ DeathConfirmed)
    BY Zenon, <1>4, StopEnters
  <2>2. ~Go(t, "unbind") /\ ~Go(t, "reset") /\ ~Go(t, "removeonly") /\ ~Go(t, "idle")
    BY Zenon, <1>0, <1>4, GoesTo
  <2>3. epoch' = epoch + 1 /\ epoch \in Nat
    BY Zenon, <2>1, <2>2
       DEF StopBegin, RecycleBegin, StopNotify, StopUnbind, DeathConfirmed, KillNotice,
           BeginStop, TypeOK
  <2>4. epoch' # epoch
    BY <2>3
  <2>5. PICK u \in Stoppers, c \in Containers : Marks(u, c)
    BY Zenon, <2>4, MarkStep
  <2>6. u \in Tasks /\ at[u] # "remove"
    BY Zenon, <2>5 DEF Stoppers, Tasks, Marks
  <2>7. u = t
    <3> SUFFICES ASSUME u # t PROVE FALSE
      OBVIOUS
    <3>1. at'[t] = at[t]
      BY <1>0, <2>5 DEF Marks, Go, TypeOK
    <3>2. at[t] = "remove"
      BY Zenon, <1>4, <3>1
    <3> QED
      BY Zenon, <2>1, <3>2, ConstantsAssumption
         DEF StopBegin, RecycleBegin, Arrives, StopNotify, StopUnbind, DeathConfirmed
  <2> QED BY Zenon, <2>5, <2>7
<1> QED BY Zenon, <1>1, <1>2, <1>3, <1>4, StopEnters DEF Stopping

\* A mark moves its own task only, and two tasks do not mark at once.
LEMMA MarkAlone ==
  ASSUME TypeOK, NEW t \in Stoppers, NEW c, Marks(t, c)
  PROVE  /\ t \in Stopping' /\ at'[t] = "remove" /\ cid'[t] = c /\ t \notin Stopping
         /\ \A u \in Stoppers \ {t} : /\ at'[u] = at[u] /\ cid'[u] = cid[u]
                                      /\ \A d : ~Marks(u, d)
<1>0. Stoppers \subseteq Tasks
  BY Zenon DEF Stoppers, Tasks
<1>1. at'[t] = "remove" /\ cid'[t] = c
  BY <1>0 DEF Marks, Go, TypeOK
<1>2. \A u \in Stoppers \ {t} : at'[u] = at[u] /\ cid'[u] = cid[u]
  BY <1>0 DEF Marks, Go, TypeOK
<1>3. ASSUME NEW u \in Stoppers \ {t}, NEW d, Marks(u, d) PROVE FALSE
  <2>1. at'[u] = "remove"
    BY <1>0, <1>3 DEF Marks, Go, TypeOK
  <2> QED BY Zenon, <1>2, <1>3, <2>1 DEF Marks
<1>4. t \in Stopping' /\ t \notin Stopping
  BY Zenon, <1>1 DEF Stopping, Marks
<1> QED BY Zenon, <1>1, <1>2, <1>3, <1>4

\* Containers a stop was marked for have been created.
LEMMA ExpectedBornKept ==
  ASSUME TypeOK, BornInv, ExpectedBorn, Next
  PROVE  ExpectedBorn'
<1>1. CASE expected' = expected
  BY Zenon, <1>1, CreStep DEF ExpectedBorn
<1>2. CASE \E t \in Stoppers : \E c \in Containers : Marks(t, c)
  BY Zenon, <1>2, CreStep DEF ExpectedBorn, Marks
<1> QED BY Zenon, <1>1, <1>2, MarkStep

\* Until two stops overlap, only the monitor's teardown of the same container
\* goes beside a stop.
LEMMA OverlapKept ==
  ASSUME TypeOK, BornInv, OverlapInv, Next, ~overlap'
  PROVE  OverlapInv'
<1>0. Stopping \subseteq Stoppers /\ Stopping' \subseteq Stoppers
  BY Zenon DEF Stopping
<1>1. ASSUME NEW t \in Stopping', NEW u \in Stopping', t # u, NEW c, Marks(t, c)
      PROVE  Monitor \in {t, u} /\ cid'[t] = cid'[u]
  <2>1. u \in Stopping /\ cid'[u] = cid[u]
    BY Zenon, <1>0, <1>1, StoppingStep, MarkAlone
  <2>2. cid'[t] = c
    BY Zenon, <1>0, <1>1, MarkAlone
  <2>3. ~(Monitor \notin {t, u} \/ cid[u] # c)
    BY Zenon, <1>1, <2>1 DEF Marks
  <2> QED BY Zenon, <2>1, <2>2, <2>3
<1>2. ASSUME NEW t \in Stopping', NEW u \in Stopping', t # u,
             \A c : ~Marks(t, c) /\ ~Marks(u, c)
      PROVE  Monitor \in {t, u} /\ cid'[t] = cid'[u]
  <2>1. t \in Stopping /\ cid'[t] = cid[t] /\ u \in Stopping /\ cid'[u] = cid[u]
    BY Zenon, <1>0, <1>2, StoppingStep
  <2> QED BY Zenon, <1>2, <2>1 DEF OverlapInv
<1>3. ASSUME NEW t \in Stopping', NEW u \in Stopping', t # u
      PROVE  Monitor \in {t, u} /\ cid'[t] = cid'[u]
  <2>1. CASE \E c : Marks(t, c)
    BY Zenon, <1>1, <1>3, <2>1
  <2>2. CASE \E c : Marks(u, c)
    <3>1. Monitor \in {u, t} /\ cid'[u] = cid'[t]
      BY Zenon, <1>1, <1>3, <2>2
    <3> QED BY Zenon, <3>1
  <2> QED BY Zenon, <1>2, <1>3, <2>1, <2>2
<1> QED BY Zenon, <1>3 DEF OverlapInv

\* How a stop leaves the places between its mark and its settling.
LEMMA TeardownLeft ==
  ASSUME TypeOK, Next, NEW t \in Stoppers, at[t] \in {"remove", "teardown", "unhook"}
  PROVE  Stays(t) \/ StopRemove(t) \/ StopTeardown(t) \/ StopUnhook(t)
<1>1. t \in Tasks /\ t \notin Restarts
  BY Zenon, ConstantsAssumption DEF Stoppers, Tasks
<1>2. Stays(t) \/ Acts(t)
  BY Zenon, <1>1, Moves DEF Scheduled
<1>3. ~StartBegin(t) /\ ~StartStep(t)
  BY Zenon
     DEF StartBegin, Arrives, StartStep, StartLock, StartInspect, StartDiscard, StartLabel,
         StartAdopt, StartAdopted, StartGate, StartSidecar, StartCreated, StartBringup,
         StartUndo
<1>4. StopStep(t) => StopRemove(t) \/ StopTeardown(t) \/ StopUnhook(t)
  BY Zenon DEF StopStep, StopNotify, StopUnbind, StopSettle, StopReset
<1>5. ~Begins(t) /\ ~(t = Monitor /\ (Sweep \/ MonitorStep))
  BY Zenon
     DEF Begins, StopBegin, RecycleBegin, IdleBegin, LogoutBegin, DrainBegin, EvictBegin,
         Arrives, Sweep, MonitorStep, SweepListed, DeathEntry, DeathConfirmed, DeathSettled
<1> QED BY Zenon, <1>1, <1>2, <1>3, <1>4, <1>5 DEF Acts

\* The mark on the workspace is taken away at the settling of a stop only.
LEMMA MarkTaken ==
  ASSUME TypeOK, BornInv, Next, stopping, ~stopping'
  PROVE  (\E v \in Requests : StopSettle(v)) \/ DeathSettled
<1>0. \A t \in Stoppers : t \in Tasks
  BY Zenon DEF Stoppers, Tasks
<1>1. \A t, c, k : BeginStop(t, c, k) => stopping'
  BY Zenon DEF BeginStop, marks
<1>2. \A t, c : KillNotice(t, c) => stopping'
  BY Zenon, <1>1 DEF KillNotice, marks
<1>3. \A t : ~StopBegin(t) /\ ~RecycleBegin(t) /\ ~StopNotify(t) /\ ~StopUnbind(t)
  BY Zenon, <1>1, <1>2 DEF StopBegin, RecycleBegin, StopNotify, StopUnbind, marks
<1>4. ~DeathConfirmed
  BY Zenon, <1>2 DEF DeathConfirmed, marks
<1>5. stopping' # stopping
  BY Zenon
<1>6. \A t \in Stoppers : StopSettle(t) => t \in Requests
  BY Zenon DEF StopSettle, Stoppers
<1> QED BY Zenon, <1>3, <1>4, <1>5, <1>6, StoppingChanges

\* What a stop was marked for stays down: its container is over from the
\* settling on, and until then the workspace is marked.
LEMMA StopKept ==
  ASSUME TypeOK, LockInv, BornInv, PodInv, StrayInv, ExpectedBorn, OverlapInv, StopInv, Next,
         ~overlap'
  PROVE  StopInv'
<1>0. /\ Requests \subseteq Stoppers /\ Stoppers \subseteq Tasks
      /\ Monitor \in Stoppers /\ Monitor \notin Requests
      /\ Stopping \subseteq Stoppers
      /\ \A t \in Tasks : TaskBorn(t)
  BY Zenon, ConstantsAssumption DEF BornInv, Stoppers, Tasks, Stopping
<1>1. \A t \in Stopping : Born(cid[t])
  BY Zenon, <1>0 DEF TaskBorn, HasContainer, Stopping
<1>2. ASSUME NEW c \in expected'
      PROVE  \/ Over(c)'
             \/ \E u \in Requests : cid'[u] = c /\ at'[u] \in {"remove", "teardown", "unhook"}
  <2>1. CASE c \notin expected
    <3>1. PICK t \in Stoppers, d \in Containers : Marks(t, d)
      BY Zenon, <1>2, <2>1, MarkStep
    <3>2. t # Monitor /\ c = d
      BY Zenon, <1>2, <2>1, <3>1 DEF Marks
    <3>3. t \in Requests
      BY Zenon, <3>2 DEF Stoppers
    <3> QED BY Zenon, <3>1, <3>2, <3>3, MarkAlone
  <2>2. CASE c \in expected /\ Over(c)
    BY Zenon, <2>2, OverStays DEF ExpectedBorn
  <2>3. CASE \E u \in Requests : cid[u] = c /\ at[u] \in {"remove", "teardown", "unhook"}
    <3>1. PICK u \in Requests : cid[u] = c /\ at[u] \in {"remove", "teardown", "unhook"}
      BY <2>3
    <3>2. CASE Stays(u)
      BY Zenon, <3>1, <3>2 DEF Stays
    <3>3. CASE StopRemove(u)
      <4>1. at'[u] = "teardown" /\ cid' = cid
        BY Zenon, <1>0, <3>1, <3>3, StopGoes DEF StopRemove
      <4> QED BY Zenon, <3>1, <4>1
    <3>4. CASE StopTeardown(u) \/ StopUnhook(u)
      <4>1. at'[u] \in {"settle", "unhook"} /\ cid' = cid
        BY Zenon, <1>0, <3>4, StopGoes DEF StopTeardown, StopUnhook
      <4>2. CASE at'[u] = "unhook"
        BY Zenon, <3>1, <4>1, <4>2
      <4>3. CASE at'[u] = "settle"
        BY Zenon, <1>0, <3>1, <3>4, <4>3, SettleIsOver
      <4> QED BY Zenon, <4>1, <4>2, <4>3
    <3> QED BY Zenon, <1>0, <3>1, <3>2, <3>3, <3>4, TeardownLeft
  <2> QED BY Zenon, <2>1, <2>2, <2>3 DEF StopInv
<1>3. ASSUME NEW u \in Requests, u \in Stopping'
      PROVE  stopping' \/ Over(cid[u])'
  <2>1. CASE \E c \in Containers : Marks(u, c)
    BY Zenon, <2>1 DEF Marks
  <2>2. CASE u \in Stopping /\ cid'[u] = cid[u] /\ Over(cid[u])
    <3>1. Over(cid[u])' \/ \E c : c = cid[u] /\ Over(c)'
      BY Zenon, <1>1, <2>2, OverStays
    <3> QED BY Zenon, <2>2, <3>1 DEF Over
  <2>3. CASE u \in Stopping /\ cid'[u] = cid[u] /\ stopping /\ ~stopping'
    <3>1. ASSUME NEW v \in Requests, StopSettle(v) PROVE FALSE
      <4>1. v \in Stopping /\ at'[v] \in {"reset", "done"}
        BY Zenon, <1>0, <3>1, StopGoes DEF StopSettle, Stopping
      <4>2. v # u
        BY Zenon, <1>3, <4>1 DEF Stopping
      <4> QED BY Zenon, <1>0, <2>3, <4>1, <4>2 DEF OverlapInv
    <3>2. CASE DeathSettled
      <4>1. Monitor \in Stopping /\ at[Monitor] = "settle"
        BY Zenon, <1>0, <3>2 DEF DeathSettled, Stopping
      <4>2. cid[u] = cid[Monitor]
        BY Zenon, <1>0, <2>3, <4>1 DEF OverlapInv
      <4>3. Over(cid[u]) /\ Born(cid[u])
        BY Zenon, <1>0, <1>1, <2>3, <4>1, <4>2 DEF StopInv
      <4>4. \E c : c = cid[u] /\ Over(c)'
        BY Zenon, <4>3, OverStays
      <4> QED BY Zenon, <2>3, <4>4 DEF Over
    <3> QED BY Zenon, <2>3, <3>1, <3>2, MarkTaken
  <2>4. u \in Stopping => stopping \/ Over(cid[u])
    BY Zenon DEF StopInv
  <2> QED BY Zenon, <1>0, <1>3, <2>1, <2>2, <2>3, <2>4, StoppingStep
<1>4. ASSUME NEW t \in Stoppers, at'[t] = "settle"
      PROVE  Over(cid[t])'
  <2>1. CASE Stays(t)
    <3>1. at[t] = "settle" /\ cid'[t] = cid[t] /\ t \in Stopping
      BY Zenon, <1>4, <2>1 DEF Stays, Stopping
    <3>2. \E c : c = cid[t] /\ Over(c)'
      BY Zenon, <1>1, <3>1, OverStays DEF StopInv
    <3> QED BY Zenon, <3>1, <3>2 DEF Over
  <2>2. CASE ~Stays(t)
    <3>1. StopTeardown(t) \/ StopUnhook(t)
      BY Zenon, <1>4, <2>2, StopEnters
    <3> QED BY Zenon, <1>4, <3>1, SettleIsOver DEF Over
  <2> QED BY <2>1, <2>2
<1> QED BY Zenon, <1>2, <1>3, <1>4 DEF StopInv

\* A restart becomes pending at the settling of a death only, and only when no
\* user action has come in between.
LEMMA PendingStep ==
  ASSUME TypeOK, Next, pending' # pending, pending' # Nobody
  PROVE  DeathSettled /\ ~UserActionInterleaved
<1>0. /\ Starters \subseteq Tasks /\ Stoppers \subseteq Tasks /\ Monitor \in Tasks
      /\ row \in Cid /\ state \in Cid /\ obj \in [Stoppers -> Cid] /\ cid \in [Tasks -> Cid]
      /\ TRUE \in BOOLEAN /\ FALSE \in BOOLEAN
  BY ConstantsAssumption DEF TypeOK, Starters, Stoppers, Tasks, Cid
<1>1. ASSUME NEW t \in Starters PROVE ~StartLock(t)
  BY Zenon DEF StartLock, ClearCrash, crash
<1>2. ASSUME NEW t \in Starters, \/ StartInspect(t) \/ StartDiscard(t) \/ StartLabel(t)
                                 \/ StartAdopted(t) \/ StartGate(t) \/ StartSidecar(t)
                                 \/ StartCreated(t) \/ StartBringup(t) \/ StartUndo(t)
      PROVE  FALSE
  <2>1. Release(t, TRUE) \/ Release(t, FALSE)
    BY Zenon, <1>2
       DEF StartInspect, StartDiscard, StartLabel, StartAdopted, StartGate, StartSidecar,
           StartCreated, StartBringup, StartUndo, crash
  <2> QED BY Zenon, <1>0, <2>1, ReleaseAlone
<1>3. ASSUME NEW t \in Stoppers,
             StopBegin(t) \/ RecycleBegin(t) \/ StopNotify(t) \/ StopUnbind(t)
      PROVE  FALSE
  <2>1. \/ \E c \in Cid : KillNotice(t, c)
        \/ \E c \in Cid, tracked \in SUBSET known : BeginStop(t, c, tracked)
    BY Zenon, <1>0, <1>3 DEF StopBegin, RecycleBegin, StopNotify, StopUnbind, crash
  <2> QED BY Zenon, <1>0, <2>1, KillNoticeAlone, BeginStopAlone
<1>4. ASSUME NEW t \in Stoppers PROVE ~StopSettle(t)
  BY Zenon DEF StopSettle, ClearCrash
<1>5. ~DeathConfirmed
  BY Zenon, <1>0, KillNoticeAlone DEF DeathConfirmed, crash
<1>6. ASSUME NEW t \in Restarts PROVE ~RestartWakes(t)
  BY Zenon DEF RestartWakes
<1>7. DeathSettled => ~UserActionInterleaved
  BY Zenon DEF DeathSettled, ClearCrash
<1> QED BY Zenon, <1>1, <1>2, <1>3, <1>4, <1>5, <1>6, <1>7, PendingChanges

\* Where the monitor handles a death before it has marked the workspace.
Watching == {"list", "inspect", "limit", "notify", "unbind"}
Tearing == {"remove", "teardown", "unhook", "settle"}

\* Between two sweeps the monitor keeps its container and goes its way.
LEMMA MonitorPath ==
  ASSUME TypeOK, BornInv, Next, ~Sweep
  PROVE  /\ cid'[Monitor] = cid[Monitor] /\ seen' = seen
         /\ at'[Monitor] \in Watching => at[Monitor] \in Watching
         /\ at'[Monitor] \in Tearing =>
              at[Monitor] \in Tearing \/ \E c \in Containers : Marks(Monitor, c)
<1>0. Monitor \in Tasks /\ Monitor \in Stoppers /\ Monitor \notin Starters
      /\ Monitor \notin Requests /\ Monitor \notin Restarts
  BY Zenon, ConstantsAssumption DEF Stoppers, Starters, Tasks
<1>1. seen' = seen
  BY Zenon, SeenChanges
<1>2. at'[Monitor] \in Tearing =>
        at[Monitor] \in Tearing \/ \E c \in Containers : Marks(Monitor, c)
  BY Zenon, <1>0, StoppingStep DEF Stopping, Tearing
<1>3. CASE Stays(Monitor)
  BY Zenon, <1>1, <1>2, <1>3 DEF Stays
<1>4. CASE ~Stays(Monitor)
  <2>1. ~Begins(Monitor)
    BY Zenon, <1>0
       DEF Begins, StopBegin, RecycleBegin, IdleBegin, LogoutBegin, DrainBegin, EvictBegin,
           Arrives
  <2>2. StopStep(Monitor) \/ MonitorStep
    BY Zenon, <1>0, <1>4, <2>1, Moves DEF Acts, Scheduled
  <2>3. ~Is(Monitor, "evict") /\ ~Is(Monitor, "restart")
    BY Zenon, <1>0 DEF Is
  <2>4. \A c, k : KillNotice(Monitor, c) \/ BeginStop(Monitor, c, k) =>
                    cid' = [cid EXCEPT ![Monitor] = c]
    BY Zenon DEF KillNotice, BeginStop
  <2>5. cid' = cid \/ cid' = [cid EXCEPT ![Monitor] = cid[Monitor]]
    BY Zenon, <2>2, <2>3, <2>4
       DEF StopStep, StopNotify, StopUnbind, StopRemove, StopTeardown, StopUnhook,
           StopSettle, StopReset, MonitorStep, SweepListed, DeathEntry, DeathConfirmed,
           DeathSettled
  <2>6. cid'[Monitor] = cid[Monitor]
    BY Zenon, <1>0, <2>5, CidSet
  <2>7. at'[Monitor] \in Watching => at[Monitor] \in Watching
    <3>1. at'[Monitor] \notin {"list", "notify"}
      BY Zenon, <1>0, <1>4, <2>1, StopEnters DEF Begins
    <3>2. at'[Monitor] = "inspect" => at[Monitor] = "list"
      BY Zenon, <1>0, <1>4, StopEnters DEF SweepListed
    <3>3. at'[Monitor] = "limit" => at[Monitor] = "inspect"
      BY Zenon, <1>0, <1>4, StopEnters DEF DeathEntry
    <3>4. at'[Monitor] = "unbind" => at[Monitor] \in {"notify", "limit"}
      BY Zenon, <1>0, <1>4, <2>1, StopEnters DEF Begins, StopNotify, DeathConfirmed
    <3> QED BY Zenon, <3>1, <3>2, <3>3, <3>4 DEF Watching
  <2> QED BY Zenon, <1>1, <1>2, <2>6, <2>7
<1> QED BY <1>3, <1>4

\* The stop epoch tells the monitor of every stop marked since its sweep.
LEMMA EpochKept ==
  ASSUME TypeOK, BornInv, StopInv, EpochInv, Next
  PROVE  EpochInv'
<1>0. /\ Monitor \in Tasks /\ Monitor \in Stoppers /\ epoch \in Nat /\ seen \in Nat
  BY Zenon DEF Stoppers, Tasks, TypeOK
<1>1. CASE Sweep
  <2>1. state \notin expected
    <3> SUFFICES ASSUME state \in expected PROVE FALSE
      OBVIOUS
    <3>1. PICK u \in Requests : cid[u] = state /\ at[u] \in {"remove", "teardown", "unhook"}
      BY Zenon DEF StopInv, Over
    <3>2. u \in Stopping
      BY Zenon, <3>1 DEF Stopping, Stoppers
    <3> QED BY Zenon, <1>1, <3>1, <3>2 DEF StopInv, Over, Sweep
  <2>2. cid'[Monitor] = state /\ at'[Monitor] = "list"
    BY Zenon, <1>0, <1>1, CidSet, GoesTo DEF Sweep
  <2>3. seen' = epoch /\ epoch' = epoch /\ expected' = expected /\ pending' = Nobody
    BY Zenon, <1>1 DEF Sweep, marks, history, planned, crash
  <2> QED BY <1>0, <2>1, <2>2, <2>3 DEF EpochInv
<1>2. CASE ~Sweep /\ \E t \in Stoppers : \E c \in Containers : Marks(t, c)
  <2>1. PICK t \in Stoppers, c \in Containers : Marks(t, c)
    BY <1>2
  <2>2. seen' = seen /\ epoch' = epoch + 1 /\ pending' = Nobody
        /\ cid'[Monitor] = cid[Monitor]
    BY Zenon, <1>2, <2>1, MonitorPath DEF Marks
  <2>3. CASE t = Monitor
    <3>1. at[Monitor] \in {"notify", "unbind", "limit"} /\ expected' = expected
          /\ at'[Monitor] = "remove"
      BY Zenon, <2>1, <2>3, MarkAlone DEF Marks
    <3> QED BY <1>0, <2>2, <3>1 DEF EpochInv
  <2>4. CASE t # Monitor
    <3>1. at'[Monitor] = at[Monitor]
      BY Zenon, <1>0, <2>1, <2>4, MarkAlone
    <3> QED BY <1>0, <2>2, <3>1 DEF EpochInv
  <2> QED BY <2>3, <2>4
<1>3. CASE ~Sweep /\ ~\E t \in Stoppers : \E c \in Containers : Marks(t, c)
  <2>1. epoch' = epoch /\ expected' = expected
    BY Zenon, <1>3, MarkStep
  <2>2. /\ cid'[Monitor] = cid[Monitor] /\ seen' = seen
        /\ at'[Monitor] \in Watching => at[Monitor] \in Watching
        /\ at'[Monitor] \in Tearing => at[Monitor] \in Tearing
    BY Zenon, <1>0, <1>3, MonitorPath
  <2>3. pending' # Nobody => cid[Monitor] \notin expected
    <3>1. CASE pending' = pending
      BY Zenon, <3>1 DEF EpochInv
    <3>2. CASE pending' # pending /\ pending' # Nobody
      <4>1. at[Monitor] = "settle" /\ ~(epoch > seen + 1)
        BY Zenon, <3>2, PendingStep DEF DeathSettled, UserActionInterleaved
      <4>2. epoch <= seen + 1
        BY <1>0, <4>1
      <4> QED BY Zenon, <4>1, <4>2 DEF EpochInv
    <3> QED BY Zenon, <3>1, <3>2
  <2> QED BY <1>0, <2>1, <2>2, <2>3 DEF EpochInv, Watching, Tearing
<1> QED BY <1>1, <1>2, <1>3

-----------------------------------------------------------------------------
(* The invariant and the theorems *)

\* A workspace that has never been started satisfies the invariant.
LEMMA InitInv == Init => Inv
<1> SUFFICES ASSUME Init PROVE Inv
  OBVIOUS
<1>1. TypeOK
  <2>1. 0 \in 0 .. MaxContainers /\ 0 \in 0 .. MaxAttempts /\ 0 \in Nat
    BY ConstantsAssumption
  <2>2. /\ pod \in [Containers -> {"absent", "created", "running", "dead"}]
        /\ cre \in [Containers -> {"none", "create", "record", "track", "boot", "ready", "ok",
                                   "failed"}]
        /\ at \in [Tasks -> {"idle", "done"} \cup StartPlaces \cup StopPlaces]
        /\ kind \in [Requests -> Kinds \cup {"none"}]
        /\ held \in [Stoppers -> BOOLEAN]
    BY DEF Init
  <2>3. /\ cid \in [Tasks -> 0 .. MaxContainers]
        /\ kept \in [Requests -> 0 .. MaxContainers]
        /\ obj \in [Stoppers -> 0 .. MaxContainers]
    BY <2>1 DEF Init, None
  <2> QED BY Zenon, <2>1, <2>2, <2>3 DEF Init, TypeOK, None
<1>2. \A t \in Tasks : at[t] = "idle" /\ cid[t] = None
  BY Zenon DEF Init
<1>3. /\ \A c \in Containers : pod[c] = "absent" /\ cre[c] = "none"
      /\ \A t \in Requests : kind[t] = "none" /\ kept[t] = None
      /\ \A h \in Stoppers : obj[h] = None
      /\ row = None /\ state = None
      /\ expected = {}
  BY Zenon DEF Init
<1>4. /\ Requests \subseteq Tasks /\ Starters \subseteq Tasks /\ Stoppers \subseteq Tasks
      /\ Monitor \in Tasks
  BY Zenon DEF Starters, Stoppers, Tasks
<1>5. LockInv
  BY Zenon, <1>2 DEF LockInv, Holds, Locked
<1>6. BornInv
  <2>1. \A t \in Tasks : TaskBorn(t)
    BY Zenon, <1>2, <1>3, <1>4 DEF TaskBorn, HasContainer, MaybeBorn
  <2> QED BY Zenon, <1>3, <2>1 DEF BornInv, MaybeBorn
<1>7. Stopping = {} /\ Creating = {}
  BY Zenon, <1>2, <1>3, <1>4 DEF Stopping, Creating
<1>8. ExpectedBorn /\ OverlapInv
  BY Zenon, <1>3, <1>7 DEF ExpectedBorn, OverlapInv
<1>9. PodInv
  BY Zenon, <1>2, <1>3, <1>4 DEF PodInv
<1>10. StrayInv
  BY Zenon, <1>2, <1>3, <1>4, <1>7 DEF StrayInv
<1>11. TrackInv
  BY Zenon, <1>3 DEF TrackInv
<1>12. StopInv
  BY Zenon, <1>2, <1>3, <1>4, <1>7 DEF StopInv
<1>13. EpochInv
  <2>1. seen = 0 /\ epoch = 0 /\ pending = Nobody /\ at[Monitor] = "idle"
    BY Zenon, <1>2, <1>4 DEF Init
  <2> QED BY <2>1 DEF EpochInv
<1> QED
  BY Zenon, <1>1, <1>5, <1>6, <1>8, <1>9, <1>10, <1>11, <1>12, <1>13 DEF Inv

\* Every step keeps the invariant.
LEMMA NextInv == Inv /\ [Next]_vars => Inv'
<1>1. ASSUME Inv, Next PROVE Inv'
  <2>1. TypeOK /\ LockInv /\ BornInv /\ ExpectedBorn
    BY Zenon, <1>1 DEF Inv
  <2>2. TypeOK' /\ LockInv' /\ BornInv' /\ ExpectedBorn'
    BY Zenon, <1>1, <2>1, TypesKept, LockKept, BornKept, ExpectedBornKept
  <2>3. ~overlap' => ~overlap /\ OverlapInv /\ OverlapInv'
    BY Zenon, <1>1, <2>1, PlanTypes, OverlapKept DEF Inv
  <2>4. ASSUME "rm" \notin Faults
        PROVE  /\ PodInv'
               /\ ~stray' => StrayInv'
               /\ Guarded' => TrackInv'
               /\ ~stray' /\ ~overlap' => StopInv' /\ EpochInv'
    <3>1. PodInv /\ PodInv'
      BY Zenon, <1>1, <2>1, <2>4, PodKept DEF Inv
    <3>2. ~stray' => ~stray /\ StrayInv /\ StrayInv'
      BY Zenon, <1>1, <2>1, <2>4, <3>1, StrayMonotone, StrayKept DEF Inv
    <3>3. ASSUME Guarded' PROVE TrackInv'
      <4>1. Guarded /\ ~stray'
        BY Zenon, <1>1, <2>1, <3>3, GuardedBefore DEF Guarded
      <4> QED BY Zenon, <1>1, <2>1, <2>4, <3>1, <3>2, <3>3, <4>1, TrackKept DEF Inv
    <3>4. ASSUME ~stray', ~overlap' PROVE StopInv' /\ EpochInv'
      <4>1. StopInv /\ EpochInv
        BY Zenon, <1>1, <2>3, <2>4, <3>2, <3>4 DEF Inv
      <4> QED BY Zenon, <1>1, <2>1, <2>3, <3>1, <3>2, <3>4, <4>1, StopKept, EpochKept
    <3> QED BY Zenon, <3>1, <3>2, <3>3, <3>4
  <2> QED BY Zenon, <2>2, <2>3, <2>4 DEF Inv
<1>2. ASSUME Inv, UNCHANGED vars PROVE Inv'
  <2>1. /\ pod' = pod /\ made' = made /\ row' = row /\ state' = state /\ stopping' = stopping
        /\ epoch' = epoch /\ pending' = pending /\ lock' = lock /\ at' = at /\ cid' = cid
        /\ kind' = kind /\ kept' = kept /\ cre' = cre /\ obj' = obj /\ seen' = seen
        /\ expected' = expected /\ overlap' = overlap /\ stray' = stray
    BY Zenon, <1>2 DEF vars
  <2>2. TypeOK' = TypeOK
    BY Zenon, <1>2 DEF vars, TypeOK
  <2>3. LockInv => LockInv'
    BY Zenon, <2>1 DEF LockInv, Holds
  <2>4. \A c : (Born(c) => Born(c)') /\ (MaybeBorn(c) => MaybeBorn(c)')
    BY Zenon, <2>1 DEF Born, MaybeBorn
  <2>5. ASSUME NEW t, TaskBorn(t) PROVE TaskBorn(t)'
    <3>1. \A k : Is(t, k)' = Is(t, k)
      BY Zenon, <2>1 DEF Is
    <3>2. HasContainer(t)' => HasContainer(t)
      BY Zenon, <2>1, <3>1 DEF HasContainer
    <3>3. (HasContainer(t) => Born(cid[t])') /\ (MaybeBorn(cid[t]) => MaybeBorn(cid[t])')
      BY Zenon, <2>1, <2>5 DEF TaskBorn, Born, MaybeBorn
    <3>4. (MaybeBorn(kept[t]) => MaybeBorn(kept[t])') /\ (Born(obj[t]) => Born(obj[t])')
      BY Zenon, <2>1 DEF Born, MaybeBorn
    <3> QED BY Zenon, <2>1, <2>5, <3>1, <3>2, <3>3, <3>4 DEF TaskBorn
  <2>6. (BornInv => BornInv') /\ (ExpectedBorn => ExpectedBorn')
    BY Zenon, <2>1, <2>4, <2>5 DEF BornInv, ExpectedBorn
  <2>7. Stopping' = Stopping /\ Creating' = Creating
    BY Zenon, <2>1 DEF Stopping, Creating
  <2>8. OverlapInv => OverlapInv'
    BY Zenon, <2>1, <2>7 DEF OverlapInv
  <2>9. (PodInv => PodInv') /\ (TrackInv => TrackInv') /\ (Guarded' => Guarded)
    BY Zenon, <2>1 DEF PodInv, TrackInv, Guarded
  <2>10. ASSUME StrayInv PROVE StrayInv'
    <3>1. \A c : OnlyPod(c) => OnlyPod(c)'
      BY Zenon, <2>1 DEF OnlyPod
    <3>2. \A t \in Starters : at'[t] \in {"adopt", "adopted"} => OnlyPod(cid[t])'
      BY ZenonT(30), <2>1, <2>10, <3>1 DEF StrayInv, OnlyPod
    <3>3. \A c \in Containers : cre'[c] \in {"record", "track"} => OnlyPod(c)'
      BY Zenon, <2>1, <2>10, <3>1 DEF StrayInv
    <3>4. /\ \A c \in Creating' : \E t \in Starters : at'[t] = "create" /\ cid'[t] = c
          /\ \A c \in Containers : cre'[c] = "boot" => state' = c
          /\ \A t \in Stoppers : at'[t] = "unhook" => state' \in {None, cid'[t]}
      BY Zenon, <2>1, <2>7, <2>10 DEF StrayInv
    <3>5. \A t \in Requests :
            kind'[t] = "evict" /\ at'[t] = "unbind" /\ pod'[cid'[t]] # "absent" =>
              obj'[t] = cid'[t]
      BY Zenon, <2>1, <2>10 DEF StrayInv
    <3> QED BY Zenon, <3>2, <3>3, <3>4, <3>5 DEF StrayInv
  <2>11. \A c : Over(c) => Over(c)'
    BY Zenon, <2>1, <2>7 DEF Over
  <2>12. StopInv => StopInv'
    BY Zenon, <2>1, <2>7, <2>11 DEF StopInv
  <2>13. EpochInv => EpochInv'
    BY Zenon, <2>1 DEF EpochInv
  <2> QED
    BY Zenon, <1>2, <2>1, <2>2, <2>3, <2>6, <2>8, <2>9, <2>10, <2>12, <2>13 DEF Inv
<1> QED BY Zenon, <1>1, <1>2

\* The invariant holds throughout.
THEOREM Invariance == Spec => []Inv
BY InitInv, NextInv, PTL DEF Spec

\* Every variable keeps its type, whatever podman does: the attempts stay
\* within crash_max_retries, and every task is at one of its places.
THEOREM TypeCorrect == Spec => []TypeOK
<1>1. Inv => TypeOK
  BY Zenon DEF Inv
<1> QED BY <1>1, Invariance, PTL

\* With removals that succeed, a container that runs when every task has come to
\* rest is the one the registry tracks: no re-bind guard pops the state of a
\* container that a racing start has bound.
THEOREM TrackedWhenRunning ==
  ASSUME "rm" \notin Faults
  PROVE  Spec => []RunningIsTracked
<1>1. Inv => RunningIsTracked
  <2> SUFFICES ASSUME Inv, AtRest, Guarded, NEW c \in Containers, pod[c] = "running"
               PROVE  state = c
    BY Zenon DEF RunningIsTracked
  <2>1. TrackInv
    BY Zenon DEF Inv
  <2>2. \A t \in Stoppers : at[t] \notin {"remove", "removeonly"}
    <3>1. \A t \in Stoppers : at[t] \in {"idle", "done"}
      BY Zenon DEF AtRest, Stoppers, Tasks
    <3> QED BY Zenon, <3>1
  <2> QED BY Zenon, <2>1, <2>2 DEF TrackInv
<1> QED BY <1>1, Invariance, PTL

\* With removals that succeed, a crash restart is never pending for a container
\* that a marked stop has begun for, unless two stops have overlapped or a
\* create has outlived its restart.
THEOREM StaysDown ==
  ASSUME "rm" \notin Faults
  PROVE  Spec => []ExpectedStaysDown
<1>1. Inv => ExpectedStaysDown
  BY Zenon DEF Inv, ExpectedStaysDown, EpochInv
<1> QED BY <1>1, Invariance, PTL

\* With removals that succeed, no step of the crash monitor takes a running
\* container away that no request is removing.
THEOREM SparesLive ==
  ASSUME "rm" \notin Faults
  PROVE  Spec => CrashSparesLive
<1>1. ASSUME Inv, [Next]_vars
      PROVE  [at'[Monitor] # at[Monitor] /\ Guarded =>
                \A c \in Containers :
                    /\ pod[c] = "running"
                    /\ \A t \in Stoppers \ {Monitor} :
                           at[t] \in {"remove", "removeonly"} => cid[t] # c
                    => pod'[c] = "running"]_vars
  <2> SUFFICES ASSUME Next, at'[Monitor] # at[Monitor], Guarded, NEW c \in Containers,
                      pod[c] = "running",
                      \A t \in Stoppers \ {Monitor} :
                         at[t] \in {"remove", "removeonly"} => cid[t] # c
               PROVE  pod'[c] = "running"
    BY Zenon, <1>1
  <2>1. TypeOK /\ BornInv /\ PodInv /\ StrayInv /\ TrackInv
    BY Zenon, <1>1 DEF Inv, Guarded
  <2> QED BY Zenon, <2>1, MonitorSpares
<1> QED BY <1>1, Invariance, PTL DEF Spec, CrashSparesLive
=============================================================================
