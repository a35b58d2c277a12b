------------------------- MODULE ContainerLifecycle -------------------------
(***************************************************************************)
(* The container of ONE workspace: starting, adopting, stopping, idle stop, *)
(* eviction, and the crash monitor with its delayed restarts               *)
(* (container/registry.py, crash.py, idle.py, eviction.py and the          *)
(* workspace endpoints of api/workspaces.py).                              *)
(*                                                                         *)
(* Every task is an asyncio task: at[t] is the await it stands at, and a   *)
(* step runs from one await to the next.  Several containers of the        *)
(* workspace may exist one after another; they are numbered in the order   *)
(* the code sets out to create them.  They share one name, so creating one *)
(* replaces whatever exists under that name.                               *)
(***************************************************************************)
EXTENDS Integers, FiniteSets

CONSTANTS
    Requests,       \* what users, idle monitor and evictor may ask for
    Kinds,          \* the kinds of requests that arrive
    Restarts,       \* the crash monitor's delayed restart tasks
    Monitor,        \* the crash monitor's sweep
    Nobody,         \* no task
    MaxContainers,  \* bound on the containers created
    MaxAttempts,    \* crash_max_retries
    Filtered,       \* whether the workspace needs a network sidecar
    Faults          \* the podman failures that may happen

None == 0
Containers == 1..MaxContainers
Tasks == Requests \cup Restarts \cup {Monitor}
Starters == Requests \cup Restarts
Stoppers == Requests \cup {Monitor}

ASSUME ConstantsAssumption ==
    /\ MaxContainers \in Nat
    /\ MaxAttempts \in Nat
    /\ Filtered \in BOOLEAN
    /\ Faults \subseteq {"die", "rm", "boot", "refuse", "sidecar"}
    /\ Kinds \subseteq {"start", "stop", "restart", "logout", "drain", "idle",
                        "evict"}
    /\ Nobody \notin Tasks
    /\ Monitor \notin Requests \cup Restarts
    /\ Requests \cap Restarts = {}

VARIABLES
    pod,        \* podman's view of each container
    made,       \* number of containers the code has set out to create
    sidecar,    \* the container the workspace's sidecar was started for
    row,        \* workspaces.container_id in the database
    state,      \* registry.states[ws].container_id
    known,      \* keys of registry._cid_to_wsid
    stopping,   \* ws in registry.stopping
    epoch,      \* registry.stop_epoch[ws]
    attempts,   \* crash.trackers[ws].attempts, 0 when there is no tracker
    pending,    \* crash.pending[ws]
    lock,       \* the holder of the workspace lock
    at,         \* where each task stands
    cid,        \* the container each task works on
    kind,       \* what each request asks for
    kept,       \* the container in the row that a /restart has read
    cre,        \* the shielded create_and_start of each container
    obj,        \* container_id of the ContainerState a holder has captured
    held,       \* whether that object is still the one in registry.states
    seen,       \* the stop epoch the sweep has captured
    tries,      \* attempts of the tracker that handle_death has captured
    expected,   \* history: the containers a marked stop has begun for
    overlap,    \* history: two stops, neither of them the monitor's teardown
                \* of the same container, have been under way at once
    stray,      \* history: a create has outlived the restart it belongs to
    wanted      \* history: the last settled user action asked for a container

world == <<pod, made, sidecar>>
registry == <<state, known, obj, held>>
crash == <<attempts, pending>>
marks == <<stopping, epoch>>
memory == <<kind, kept, seen, tries>>
planned == <<expected, overlap>>
history == <<planned, stray, wanted>>
vars == <<pod, made, sidecar, row, state, known, stopping, epoch, attempts,
          pending, lock, at, cid, kind, kept, cre, obj, held, seen, tries,
          expected, overlap, stray, wanted>>

StartPlaces == {"lock", "inspect", "discard", "label", "adopt", "adopted",
                "gate", "sidecar", "create", "bringup", "undo", "unwind",
                "sleep"}
StopPlaces == {"notify", "unbind", "remove", "removeonly", "teardown",
               "unhook", "settle", "reset", "list", "inspect", "limit"}

\* The type of every variable.
TypeOK ==
    /\ pod \in [Containers -> {"absent", "created", "running", "dead"}]
    /\ made \in 0..MaxContainers
    /\ sidecar \in 0..MaxContainers
    /\ row \in 0..MaxContainers
    /\ state \in 0..MaxContainers
    /\ known \subseteq Containers
    /\ stopping \in BOOLEAN
    /\ epoch \in Nat
    /\ attempts \in 0..MaxAttempts
    /\ pending \in Restarts \cup {Nobody}
    /\ lock \in Tasks \cup {Nobody}
    /\ at \in [Tasks -> {"idle", "done"} \cup StartPlaces \cup StopPlaces]
    /\ cid \in [Tasks -> 0..MaxContainers]
    /\ kind \in [Requests -> Kinds \cup {"none"}]
    /\ kept \in [Requests -> 0..MaxContainers]
    /\ cre \in [Containers -> {"none", "create", "record", "track", "boot",
                               "ready", "ok", "failed"}]
    /\ obj \in [Stoppers -> 0..MaxContainers]
    /\ held \in [Stoppers -> BOOLEAN]
    /\ seen \in Nat
    /\ tries \in 0..MaxAttempts
    /\ expected \subseteq Containers
    /\ overlap \in BOOLEAN
    /\ stray \in BOOLEAN
    /\ wanted \in BOOLEAN

\* A workspace that has never been started.
Init ==
    /\ pod = [c \in Containers |-> "absent"]
    /\ made = 0
    /\ sidecar = None
    /\ row = None
    /\ state = None
    /\ known = {}
    /\ stopping = FALSE
    /\ epoch = 0
    /\ attempts = 0
    /\ pending = Nobody
    /\ lock = Nobody
    /\ at = [t \in Tasks |-> "idle"]
    /\ cid = [t \in Tasks |-> None]
    /\ kind = [t \in Requests |-> "none"]
    /\ kept = [t \in Requests |-> None]
    /\ cre = [c \in Containers |-> "none"]
    /\ obj = [h \in Stoppers |-> None]
    /\ held = [h \in Stoppers |-> FALSE]
    /\ seen = 0
    /\ tries = 0
    /\ expected = {}
    /\ overlap = FALSE
    /\ stray = FALSE
    /\ wanted = FALSE

-----------------------------------------------------------------------------
(* What the actions share *)

\* A request of kind k arrives.
Arrives(t, k) ==
    /\ t \in Requests
    /\ at[t] = "idle"
    /\ k \in Kinds
    /\ kind' = [kind EXCEPT ![t] = k]

\* Task t serves a request of kind k.
Is(t, k) == t \in Requests /\ kind[t] = k

Go(t, place) == at' = [at EXCEPT ![t] = place]

\* crash.clear: the tracker goes and the pending task is cancelled.  The task
\* finds out when it runs again, see RestartCancelled.
ClearCrash ==
    /\ attempts' = 0
    /\ pending' = Nobody

Cancelled(t) == t \in Restarts /\ pending # t

\* track_activity: a state that exists is changed in place, so a task that
\* has captured the object sees the change.
Track(c) ==
    /\ state' = c
    /\ known' = (known \ {state}) \cup {c}
    /\ obj' = [h \in Stoppers |-> IF held[h] THEN c ELSE obj[h]]
    /\ UNCHANGED held

\* states.pop together with the reverse mapping of container c.
Untrack(c) ==
    /\ state' = None
    /\ known' = known \ {c}
    /\ held' = [h \in Stoppers |-> FALSE]
    /\ UNCHANGED obj

\* _remove_network_sidecar: a sidecar with dependents is freed by removing the
\* workspace's containers first, the ones of other generations included.
Freed ==
    IF \E c \in Containers : sidecar = c /\ pod[c] # "absent"
    THEN [c \in Containers |-> "absent"]
    ELSE pod

\* The removal is best effort: its callers go on when it fails.
DropSidecar ==
    \/ sidecar' = None /\ pod' = Freed
    \/ "sidecar" \in Faults /\ UNCHANGED <<sidecar, pod>>

-----------------------------------------------------------------------------
(* start_container, run by a connect, by /start, by /restart or by a restart *)

\* A caller (a connect, or POST /start) has read the workspace row and waits
\* for the workspace lock.
StartBegin(t) ==
    /\ Arrives(t, "start")
    /\ cid' = [cid EXCEPT ![t] = row]
    /\ Go(t, "lock")
    /\ wanted' = TRUE
    /\ UNCHANGED <<world, row, registry, marks, crash, lock, cre, kept, seen,
                   tries, planned, stray>>

\* Under the lock: a start that is not the monitor's own forgets the crashes.
\* Without an id to look at, the existing-container branch is skipped.
StartLock(t) ==
    /\ at[t] = "lock"
    /\ ~Cancelled(t)
    /\ lock = Nobody
    /\ lock' = t
    /\ IF t \in Restarts THEN UNCHANGED crash ELSE ClearCrash
    /\ Go(t, IF cid[t] = None THEN "gate" ELSE "inspect")
    /\ UNCHANGED <<world, row, registry, marks, cid, cre, memory, history>>

\* Mutant: the attempts are not compared with crash_max_retries.
Release_unbounded(t, ok) ==
    /\ lock' = Nobody
    /\ IF t \notin Restarts
       THEN Go(t, "done") /\ UNCHANGED crash
       ELSE IF ok
       THEN Go(t, "idle") /\ pending' = Nobody /\ UNCHANGED attempts
       ELSE Go(t, "sleep") /\ attempts' = attempts + 1 /\ UNCHANGED pending

\* Mutant: schedule_restart without its done callback.
Release_keeps(t, ok) ==
    /\ lock' = Nobody
    /\ IF t \notin Restarts
       THEN Go(t, "done") /\ UNCHANGED crash
       ELSE IF ok \/ attempts >= MaxAttempts
       THEN Go(t, "idle") /\ UNCHANGED crash
       ELSE Go(t, "sleep") /\ attempts' = attempts + 1 /\ UNCHANGED pending

\* The end of a start that holds the lock.  A restart task that failed goes
\* back to sleep until its attempts are used up.
Release(t, ok) ==
    /\ lock' = Nobody
    /\ IF t \notin Restarts
       THEN Go(t, "done") /\ UNCHANGED crash
       ELSE IF ok \/ attempts >= MaxAttempts
       THEN Go(t, "idle") /\ pending' = Nobody /\ UNCHANGED attempts
       ELSE Go(t, "sleep") /\ attempts' = attempts + 1 /\ UNCHANGED pending

\* handle_existing_container: reuse the container when it runs.
StartInspect(t) ==
    /\ t \in Starters
    /\ at[t] = "inspect"
    /\ ~Cancelled(t)
    /\ CASE pod[cid[t]] = "running" -> Track(cid[t]) /\ Release(t, TRUE)
         [] pod[cid[t]] = "absent" ->
                Go(t, "label") /\ UNCHANGED <<registry, crash, lock>>
         [] OTHER ->
                Go(t, "discard") /\ UNCHANGED <<registry, crash, lock>>
    /\ UNCHANGED <<world, row, marks, cid, cre, memory, history>>

\* The stopped container is removed to make room for a new one.
StartDiscard(t) ==
    /\ at[t] = "discard"
    /\ ~Cancelled(t)
    /\ \/ pod' = [pod EXCEPT ![cid[t]] = "absent"]
          /\ Go(t, "gate")
          /\ UNCHANGED <<crash, lock>>
       \/ "rm" \in Faults /\ Release(t, FALSE) /\ UNCHANGED pod
    /\ UNCHANGED <<made, sidecar, row, registry, marks, cid, cre, memory,
                   history>>

\* The containers a label scan removes, and podman without some of them.
Down == {c \in Containers : pod[c] \in {"created", "dead"}}
Without(gone) == [c \in Containers |-> IF c \in gone THEN "absent" ELSE pod[c]]

\* _adopt_labeled_container: the id was stale.  Stopped containers of the
\* workspace are removed until a running one is met.  A listing that fails is
\* ignored, a removal that fails ends the start.
StartLabel(t) ==
    /\ at[t] = "label"
    /\ ~Cancelled(t)
    /\ LET up == {c \in Containers : pod[c] = "running"}
       IN \/ \E c \in up, gone \in SUBSET Down :
                 /\ pod' = Without(gone)
                 /\ cid' = [cid EXCEPT ![t] = c]
                 /\ Go(t, "adopt")
                 /\ UNCHANGED <<crash, lock>>
          \/ /\ up = {}
             /\ pod' = Without(Down)
             /\ Go(t, "gate")
             /\ UNCHANGED <<crash, lock, cid>>
          \/ /\ "rm" \in Faults
             /\ \/ Go(t, "gate") /\ UNCHANGED <<crash, lock>>
                \/ Down # {} /\ Release(t, FALSE)
             /\ UNCHANGED <<pod, cid>>
    /\ UNCHANGED <<made, sidecar, row, registry, marks, cre, memory, history>>

\* _adopt_running_labeled: the row is updated, then the container tracked.
StartAdopt(t) ==
    /\ at[t] = "adopt"
    /\ ~Cancelled(t)
    /\ row' = cid[t]
    /\ Go(t, "adopted")
    /\ UNCHANGED <<world, registry, marks, crash, lock, cid, cre, memory,
                   history>>

StartAdopted(t) ==
    /\ at[t] = "adopted"
    /\ ~Cancelled(t)
    /\ Track(cid[t])
    /\ Release(t, TRUE)
    /\ UNCHANGED <<world, row, marks, cid, cre, memory, history>>

\* Drain, admission and port allocation let the start go on or refuse it.
StartGate(t) ==
    /\ at[t] = "gate"
    /\ ~Cancelled(t)
    /\ \/ /\ made < MaxContainers
          /\ made' = made + 1
          /\ cid' = [cid EXCEPT ![t] = made + 1]
          /\ IF Filtered
             THEN Go(t, "sidecar") /\ UNCHANGED cre
             ELSE Go(t, "create") /\ cre' = [cre EXCEPT ![made + 1] = "create"]
          /\ UNCHANGED <<crash, lock>>
       \/ /\ made = MaxContainers \/ "refuse" \in Faults
          /\ Release(t, FALSE)
          /\ UNCHANGED <<made, cid, cre>>
    /\ UNCHANGED <<pod, sidecar, row, registry, marks, memory, history>>

\* start_network_sidecar: the previous sidecar is removed first.  A start that
\* fails after the create leaves the new sidecar behind, started or not.
StartSidecar(t) ==
    /\ at[t] = "sidecar"
    /\ ~Cancelled(t)
    /\ \/ /\ pod' = Freed
          /\ sidecar' = cid[t]
          /\ Go(t, "create")
          /\ cre' = [cre EXCEPT ![cid[t]] = "create"]
          /\ UNCHANGED <<crash, lock>>
       \/ /\ "sidecar" \in Faults
          /\ DropSidecar \/ (sidecar' = cid[t] /\ pod' = Freed)
          /\ Release(t, FALSE)
          /\ UNCHANGED cre
    /\ UNCHANGED <<made, row, registry, marks, cid, memory, history>>

\* The shielded create_and_start runs as a task of its own.  Its caller waits.
CreateContainer(c) ==
    /\ cre[c] = "create"
    /\ \/ /\ Filtered => sidecar = c
          /\ cre' = [cre EXCEPT ![c] = "record"]
          /\ pod' = [d \in Containers |-> IF d = c THEN "created"
                                                   ELSE "absent"]
       \/ /\ (Filtered /\ sidecar # c) \/ "boot" \in Faults
          /\ cre' = [cre EXCEPT ![c] = "failed"]
          /\ UNCHANGED pod
    /\ UNCHANGED <<made, sidecar, row, registry, marks, crash, lock, at, cid,
                   memory, history>>

\* update_workspace_container, then track_activity.
CreateRecord(c) ==
    /\ cre[c] = "record"
    /\ cre' = [cre EXCEPT ![c] = "track"]
    /\ row' = c
    /\ UNCHANGED <<world, registry, marks, crash, lock, at, cid, memory,
                   history>>

CreateTrack(c) ==
    /\ cre[c] = "track"
    /\ cre' = [cre EXCEPT ![c] = "boot"]
    /\ Track(c)
    /\ UNCHANGED <<world, row, marks, crash, lock, at, cid, memory, history>>

\* podman start
CreateBoot(c) ==
    /\ cre[c] = "boot"
    /\ \/ /\ pod[c] = "created"
          /\ pod' = [pod EXCEPT ![c] = "running"]
          /\ cre' = [cre EXCEPT ![c] = "ready"]
       \/ /\ pod[c] # "created" \/ "boot" \in Faults
          /\ cre' = [cre EXCEPT ![c] = "failed"]
          /\ UNCHANGED pod
    /\ UNCHANGED <<made, sidecar, row, registry, marks, crash, lock, at, cid,
                   memory, history>>

\* Configuring sudo, writing the token and waiting for the entry point.
CreateReady(c) ==
    /\ cre[c] = "ready"
    /\ \/ /\ pod[c] = "running"
          /\ cre' = [cre EXCEPT ![c] = "ok"]
       \/ /\ pod[c] # "running" \/ "boot" \in Faults
          /\ cre' = [cre EXCEPT ![c] = "failed"]
    /\ UNCHANGED <<world, row, registry, marks, crash, lock, at, cid, memory,
                   history>>

\* The create returns: bring-up follows.  It failed: the sidecar goes.
StartCreated(t) ==
    /\ at[t] = "create"
    /\ ~Cancelled(t)
    /\ \/ /\ cre[cid[t]] = "ok"
          /\ Go(t, "bringup")
          /\ UNCHANGED <<crash, lock>>
       \/ /\ cre[cid[t]] = "failed"
          /\ IF Filtered
             THEN Go(t, "undo") /\ UNCHANGED <<crash, lock>>
             ELSE Release(t, FALSE)
    /\ UNCHANGED <<world, row, registry, marks, cid, cre, memory, history>>

\* bringup and the audit row.  A bring-up that fails leaves the container up.
StartBringup(t) ==
    /\ at[t] = "bringup"
    /\ ~Cancelled(t)
    /\ Release(t, TRUE) \/ ("boot" \in Faults /\ Release(t, FALSE))
    /\ UNCHANGED <<world, row, registry, marks, cid, cre, memory, history>>

\* _create_start_shielded removes the sidecar of a start that failed.
StartUndo(t) ==
    /\ at[t] = "undo"
    /\ ~Cancelled(t)
    /\ DropSidecar
    /\ Release(t, FALSE)
    /\ UNCHANGED <<made, row, registry, marks, cid, cre, memory, history>>

-----------------------------------------------------------------------------
(* delayed_restart *)

\* The back-off ends and the row is read again, unless the node drains.
RestartWakes(t) ==
    /\ at[t] = "sleep"
    /\ ~Cancelled(t)
    /\ \/ /\ cid' = [cid EXCEPT ![t] = row]
          /\ Go(t, "lock")
          /\ UNCHANGED pending
       \/ /\ "refuse" \in Faults
          /\ Go(t, "idle")
          /\ pending' = Nobody
          /\ UNCHANGED cid
    /\ UNCHANGED <<world, row, registry, marks, attempts, lock, cre, memory,
                   history>>

\* A user action has cancelled the task.  At the shielded create it goes on
\* to remove the sidecar and leaves the create running; elsewhere it ends, the
\* call it was waiting for done or not.
RestartCancelled(t) ==
    /\ t \in Restarts
    /\ at[t] \notin {"idle", "unwind"}
    /\ Cancelled(t)
    /\ IF at[t] = "create" /\ Filtered
       THEN Go(t, "unwind") /\ UNCHANGED lock
       ELSE Go(t, "idle") /\ lock' = IF lock = t THEN Nobody ELSE lock
    /\ \/ UNCHANGED <<pod, sidecar, row>>
       \/ /\ at[t] = "discard"
          /\ pod' = [pod EXCEPT ![cid[t]] = "absent"]
          /\ UNCHANGED <<sidecar, row>>
       \/ /\ at[t] = "label"
          /\ \E gone \in SUBSET Down : pod' = Without(gone)
          /\ UNCHANGED <<sidecar, row>>
       \/ /\ at[t] = "adopt"
          /\ row' = cid[t]
          /\ UNCHANGED <<pod, sidecar>>
       \/ /\ at[t] = "sidecar"
          /\ pod' = Freed
          /\ sidecar' = cid[t]
          /\ UNCHANGED row
       \/ /\ at[t] = "undo"
          /\ DropSidecar
          /\ UNCHANGED row
    /\ stray' = (stray \/ at[t] = "create")
    /\ UNCHANGED <<made, registry, marks, crash, cid, cre, memory, planned,
                   wanted>>

\* Mutant: the lock is not released when the sidecar is gone.
RestartUnwinds_locked(t) ==
    /\ at[t] = "unwind"
    /\ DropSidecar
    /\ Go(t, "idle")
    /\ UNCHANGED <<made, row, registry, marks, crash, lock, cid, cre, memory,
                   history>>

\* The sidecar of a cancelled restart is gone and the task ends.
RestartUnwinds(t) ==
    /\ at[t] = "unwind"
    /\ DropSidecar
    /\ Go(t, "idle")
    /\ lock' = Nobody
    /\ UNCHANGED <<made, row, registry, marks, crash, cid, cre, memory,
                   history>>

-----------------------------------------------------------------------------
(* notify_workspace_killed and stop_and_remove_container *)

\* The workspace is tracked under another container than c.
Rebound(c) == state \notin {None, c}

\* The stops that have marked the workspace and not yet taken the mark away.
Stopping == {t \in Stoppers : at[t] \in {"remove", "teardown", "unhook",
                                        "settle"}}

\* The entry of stop_and_remove_container for container c.  The caller names
\* the workspace, except the idle monitor, which leaves it to _cid_to_wsid;
\* tracked is that map at the time.  A call that does not know the workspace
\* removes the container and nothing else.
BeginStop(t, c, tracked) ==
    /\ cid' = [cid EXCEPT ![t] = c]
    /\ IF ~Is(t, "idle") \/ c \in tracked
       THEN /\ Go(t, "remove")
            /\ stopping' = TRUE
            /\ epoch' = epoch + 1
            /\ ClearCrash
            /\ expected' = IF t = Monitor THEN expected ELSE expected \cup {c}
            /\ overlap' = (overlap \/ \E u \in Stopping :
                                          Monitor \notin {t, u} \/ cid[u] # c)
       ELSE Go(t, "removeonly") /\ UNCHANGED <<marks, crash, planned>>

\* The synchronous start of notify_workspace_killed: a stop of a container
\* the workspace has moved away from goes straight to its removal.
KillNotice(t, c) ==
    IF Rebound(c)
    THEN BeginStop(t, c, known)
    ELSE /\ Go(t, "unbind")
         /\ cid' = [cid EXCEPT ![t] = c]
         /\ UNCHANGED <<marks, crash, planned>>

\* POST /stop: the tracked container, else the one in the row.  With neither
\* there is only the reset.
StopBegin(t) ==
    /\ Arrives(t, "stop")
    /\ LET c == IF state # None THEN state ELSE row
       IN IF c # None
          THEN KillNotice(t, c)
          ELSE Go(t, "reset") /\ UNCHANGED <<marks, crash, cid, planned>>
    /\ wanted' = (wanted /\ \E s \in Requests :
                                /\ kind[s] \in {"start", "restart"}
                                /\ at[s] # "done")
    /\ UNCHANGED <<world, row, registry, lock, cre, kept, seen, tries, stray>>

\* stop_user_containers (logout) takes the container from the row, _drain_one
\* from the registry; other workspaces may come first.
LogoutBegin(t) ==
    /\ Arrives(t, "logout")
    /\ row # None
    /\ cid' = [cid EXCEPT ![t] = row]
    /\ Go(t, "notify")
    /\ UNCHANGED <<world, row, registry, marks, crash, lock, cre, kept, seen,
                   tries, history>>

DrainBegin(t) ==
    /\ Arrives(t, "drain")
    /\ state # None
    /\ cid' = [cid EXCEPT ![t] = state]
    /\ Go(t, "notify")
    /\ UNCHANGED <<world, row, registry, marks, crash, lock, cre, kept, seen,
                   tries, history>>

\* POST /restart stops without the notice and keeps the row it has read.
RecycleBegin(t) ==
    /\ Arrives(t, "restart")
    /\ LET c == IF state # None THEN state ELSE row
       IN IF c # None
          THEN BeginStop(t, c, known)
          ELSE Go(t, "reset") /\ UNCHANGED <<marks, crash, cid, planned>>
    /\ kept' = [kept EXCEPT ![t] = row]
    /\ wanted' = TRUE
    /\ UNCHANGED <<world, row, registry, lock, cre, seen, tries, stray>>

\* The idle monitor has found the container overdue; its callbacks run first.
IdleBegin(t) ==
    /\ Arrives(t, "idle")
    /\ state # None
    /\ cid' = [cid EXCEPT ![t] = state]
    /\ Go(t, "notify")
    /\ UNCHANGED <<world, row, registry, marks, crash, lock, cre, kept, seen,
                   tries, history>>

\* The evictor captures the state object of a victim that nobody is starting
\* or stopping, and tells its members.
EvictBegin(t) ==
    /\ Arrives(t, "evict")
    /\ state # None
    /\ ~stopping
    /\ lock = Nobody
    /\ obj' = [obj EXCEPT ![t] = state]
    /\ held' = [held EXCEPT ![t] = TRUE]
    /\ Go(t, "notify")
    /\ UNCHANGED <<world, row, state, known, marks, crash, lock, cid, cre,
                   kept, seen, tries, history>>

\* The evictor reads the container id from the captured object only now.
StopNotify(t) ==
    /\ at[t] = "notify"
    /\ KillNotice(t, IF Is(t, "evict") THEN obj[t] ELSE cid[t])
    /\ UNCHANGED <<world, row, registry, lock, cre, memory, stray, wanted>>

\* Mutant: remove_state is not told which container it is called for.
StopUnbind_unguarded(t) ==
    /\ at[t] = "unbind"
    /\ lock = Nobody
    /\ Untrack(state)
    /\ BeginStop(t, IF Is(t, "evict") THEN obj[t] ELSE cid[t],
                 known \ {state})
    /\ UNCHANGED <<world, row, lock, cre, memory, stray, wanted>>

\* The callback of the notice: remove_state under the lock, with the expected
\* container.  The stop begins in the same step.
StopUnbind(t) ==
    /\ at[t] = "unbind"
    /\ lock = Nobody
    /\ LET tracked == IF Rebound(cid[t]) THEN known ELSE known \ {state}
           c == IF Is(t, "evict") THEN obj[t] ELSE cid[t]
       IN /\ IF Rebound(cid[t]) THEN UNCHANGED registry ELSE Untrack(state)
          /\ BeginStop(t, c, tracked)
    /\ UNCHANGED <<world, row, lock, cre, memory, stray, wanted>>

\* podman stop and rm, outside the lock; a failure is logged.
StopRemove(t) ==
    /\ at[t] \in {"remove", "removeonly"}
    /\ \/ pod' = [pod EXCEPT ![cid[t]] = "absent"]
       \/ "rm" \in Faults /\ UNCHANGED pod
    /\ Go(t, IF at[t] = "remove" THEN "teardown" ELSE "done")
    /\ UNCHANGED <<made, sidecar, row, registry, marks, crash, lock, cid, cre,
                   memory, history>>

\* Mutant: the workspace is not checked to be bound to this container still.
StopTeardown_unguarded(t) ==
    /\ at[t] = "teardown"
    /\ lock = Nobody
    /\ Go(t, "unhook")
    /\ lock' = t
    /\ UNCHANGED <<world, row, registry, marks, crash, cid, cre, memory,
                   history>>

\* _teardown_registry_state: under the lock, unless the workspace is bound to
\* another container by now.
StopTeardown(t) ==
    /\ at[t] = "teardown"
    /\ lock = Nobody
    /\ IF Rebound(cid[t])
       THEN Go(t, "settle") /\ UNCHANGED lock
       ELSE Go(t, "unhook") /\ lock' = t
    /\ UNCHANGED <<world, row, registry, marks, crash, cid, cre, memory,
                   history>>

StopUnhook(t) ==
    /\ at[t] = "unhook"
    /\ DropSidecar
    /\ Untrack(cid[t])
    /\ lock' = Nobody
    /\ Go(t, "settle")
    /\ UNCHANGED <<made, row, marks, crash, cid, cre, memory, history>>

\* The audit row is settled and the mark taken away; whatever restart was
\* scheduled meanwhile is cancelled.
StopSettle(t) ==
    /\ t # Monitor
    /\ at[t] = "settle"
    /\ stopping' = FALSE
    /\ ClearCrash
    /\ Go(t, IF Is(t, "stop") \/ Is(t, "restart") THEN "reset" ELSE "done")
    /\ UNCHANGED <<world, row, registry, epoch, lock, cid, cre, memory,
                   history>>

\* reset_workspace_state of /stop and /restart names no container.
StopReset(t) ==
    /\ at[t] = "reset"
    /\ lock = Nobody
    /\ Untrack(state)
    /\ IF Is(t, "restart")
       THEN Go(t, "lock") /\ cid' = [cid EXCEPT ![t] = kept[t]]
       ELSE Go(t, "done") /\ UNCHANGED cid
    /\ UNCHANGED <<world, row, marks, crash, lock, cre, memory, history>>

-----------------------------------------------------------------------------
(* CrashRecoveryMonitor: sweep_once, handle_death *)

\* _liveness_snapshot: what the guards need is captured before the listing.
Sweep ==
    /\ at[Monitor] = "idle"
    /\ state # None
    /\ ~stopping
    /\ pending = Nobody
    /\ cid' = [cid EXCEPT ![Monitor] = state]
    /\ seen' = epoch
    /\ obj' = [obj EXCEPT ![Monitor] = state]
    /\ held' = [held EXCEPT ![Monitor] = TRUE]
    /\ Go(Monitor, "list")
    /\ UNCHANGED <<world, row, state, known, marks, crash, lock, kind, kept,
                   cre, tries, history>>

\* _snapshot_still_current
SnapshotStillCurrent ==
    /\ held[Monitor]
    /\ obj[Monitor] = cid[Monitor]
    /\ ~stopping
    /\ epoch = seen

\* _sweep_one up to the inspect.  The tracker of a container that has been up
\* for the reset window is dropped.
SweepListed ==
    /\ at[Monitor] = "list"
    /\ LET alive == pod[cid[Monitor]] \in {"created", "running"}
       IN /\ Go(Monitor, IF SnapshotStillCurrent /\ ~alive THEN "inspect"
                                                          ELSE "idle")
          /\ \/ UNCHANGED attempts
             \/ /\ SnapshotStillCurrent
                /\ pod[cid[Monitor]] = "running"
                /\ attempts' = 0
    /\ UNCHANGED <<world, row, registry, marks, pending, lock, cid, cre,
                   memory, history>>

\* _death_guards_pass, for a state object that is bound to container c.
DeathGuardsPass(c) ==
    /\ c = cid[Monitor]
    /\ ~stopping
    /\ epoch = seen

\* handle_death fetches the state object again and checks the guards.
DeathEntry ==
    /\ at[Monitor] = "inspect"
    /\ IF DeathGuardsPass(state)
       THEN /\ obj' = [obj EXCEPT ![Monitor] = state]
            /\ held' = [held EXCEPT ![Monitor] = TRUE]
            /\ Go(Monitor, "limit")
       ELSE Go(Monitor, "idle") /\ UNCHANGED <<obj, held>>
    /\ UNCHANGED <<world, row, state, known, marks, crash, lock, cid, cre,
                   memory, history>>

\* After the memory limit is read the guards are checked again, on the object
\* fetched before.  Then the death is announced and torn down.
DeathConfirmed ==
    /\ at[Monitor] = "limit"
    /\ IF DeathGuardsPass(obj[Monitor])
       THEN tries' = attempts /\ KillNotice(Monitor, cid[Monitor])
       ELSE /\ Go(Monitor, "idle")
            /\ UNCHANGED <<marks, crash, cid, tries, planned>>
    /\ UNCHANGED <<world, row, registry, lock, cre, kind, seen, kept, stray,
                   wanted>>

\* Mutant: only a start counts as a user action.
UserActionInterleaved_start == state # None

\* _user_action_interleaved: more than the teardown's own stop has begun, or
\* a start has tracked a container.
UserActionInterleaved == epoch > seen + 1 \/ state # None

\* The teardown settles and _finalize_death runs in the same step.
DeathSettled ==
    /\ at[Monitor] = "settle"
    /\ stopping' = FALSE
    /\ IF UserActionInterleaved
       THEN ClearCrash /\ Go(Monitor, "idle")
       ELSE IF tries >= MaxAttempts
       THEN attempts' = tries /\ pending' = Nobody /\ Go(Monitor, "idle")
       ELSE \E r \in Restarts :
                /\ at[r] = "idle"
                /\ pending' = r
                /\ attempts' = tries + 1
                /\ at' = [at EXCEPT ![r] = "sleep", ![Monitor] = "idle"]
    /\ UNCHANGED <<world, row, registry, epoch, lock, cid, cre, memory,
                   history>>

\* A container dies or is removed behind the program's back.
Dies(c) ==
    /\ "die" \in Faults
    /\ pod[c] = "running"
    /\ \E end \in {"dead", "absent"} : pod' = [pod EXCEPT ![c] = end]
    /\ UNCHANGED <<made, sidecar, row, registry, marks, crash, lock, at, cid,
                   cre, memory, history>>

-----------------------------------------------------------------------------

StartStep(t) ==
    \/ StartLock(t)
    \/ StartInspect(t)
    \/ StartDiscard(t)
    \/ StartLabel(t)
    \/ StartAdopt(t)
    \/ StartAdopted(t)
    \/ StartGate(t)
    \/ StartSidecar(t)
    \/ StartCreated(t)
    \/ StartBringup(t)
    \/ StartUndo(t)

CreateStep(c) ==
    \/ CreateContainer(c)
    \/ CreateRecord(c)
    \/ CreateTrack(c)
    \/ CreateBoot(c)
    \/ CreateReady(c)

RestartStep(t) ==
    \/ RestartWakes(t)
    \/ RestartCancelled(t)
    \/ RestartUnwinds(t)

StopStep(t) ==
    \/ StopNotify(t)
    \/ StopUnbind(t)
    \/ StopRemove(t)
    \/ StopTeardown(t)
    \/ StopUnhook(t)
    \/ StopSettle(t)
    \/ StopReset(t)

MonitorStep ==
    \/ SweepListed
    \/ DeathEntry
    \/ DeathConfirmed
    \/ DeathSettled

Next ==
    \/ \E t \in Starters : StartBegin(t) \/ StartStep(t)
    \/ \E c \in Containers : CreateStep(c) \/ Dies(c)
    \/ \E t \in Restarts : RestartStep(t)
    \/ \E t \in Stoppers : StopBegin(t) \/ RecycleBegin(t) \/ IdleBegin(t)
                           \/ LogoutBegin(t) \/ DrainBegin(t)
                           \/ EvictBegin(t) \/ StopStep(t)
    \/ Sweep
    \/ MonitorStep

Spec == Init /\ [][Next]_vars

\* The event loop runs every ready task, a sleep ends and a podman call comes
\* back: a task that has begun goes on.  The sweep runs at every interval.
\* Nothing is assumed of the requests and of the deaths.
Fairness ==
    /\ \A t \in Starters : WF_vars(StartStep(t))
    /\ \A c \in Containers : WF_vars(CreateStep(c))
    /\ \A t \in Restarts : WF_vars(RestartStep(t))
    /\ \A t \in Stoppers : WF_vars(StopStep(t))
    /\ WF_vars(Sweep)
    /\ WF_vars(MonitorStep)

FairSpec == Spec /\ Fairness

-----------------------------------------------------------------------------
(* Properties *)

AtRest == at \in [Tasks -> {"idle", "done"}]

Creating ==
    {c \in Containers : cre[c] \in {"create", "record", "track", "boot",
                               "ready"}}

\* Nothing has bypassed the re-bind guards: no /stop and no /restart has
\* reached its reset, which pops the state of whatever container is tracked by
\* then, and no create has gone on outside the lock after its restart was
\* cancelled.
Guarded ==
    /\ ~stray
    /\ \A t \in Requests : kind[t] \in {"stop", "restart"} =>
                               at[t] \notin StartPlaces \cup {"done"}

\* When every task has come to rest, a container that runs is the one the
\* registry tracks, so that the crash, idle and health monitors see it: the
\* re-bind guards of remove_state and _teardown_registry_state never pop the
\* state of a container that a racing start has bound.
RunningIsTracked ==
    AtRest /\ Creating = {} /\ Guarded =>
        \A c \in Containers : pod[c] = "running" => state = c

\* Expected deaths never restart: no restart is pending for a container that
\* a marked stop has begun for, whichever way the stop and the monitor's
\* detection, teardown and scheduling interleave, as long as no two other stops
\* overlap and no create has outlived its restart, to track its container after
\* the stop.  (While a restart is pending the monitor's cid is the container
\* that died.)
ExpectedStaysDown ==
    ~overlap /\ ~stray /\ pending # Nobody => cid[Monitor] \notin expected

\* The crash monitor never takes a running container away that nobody is
\* stopping: a start that replaces the dead container while the death is
\* handled keeps its own container and the sidecar it depends on.
CrashSparesLive ==
    [][at'[Monitor] # at[Monitor] /\ Guarded =>
           \A c \in Containers :
               /\ pod[c] = "running"
               /\ \A t \in Stoppers \ {Monitor} :
                      at[t] \in {"remove", "removeonly"} => cid[t] # c
               => pod'[c] = "running"]_vars

\* Every request ends: no start, stop, restart or eviction waits for ever for
\* the workspace lock or for another task.
RequestsEnd == \A t \in Tasks \ {Monitor} :
                   at[t] \notin {"idle", "done"} ~> at[t] \in {"idle", "done"}

\* A container that died does not stay tracked: the workspace list stops
\* showing it (docs/features/crash-recovery.md), by the sweep or by a start.
DeadIsDropped == \A c \in Containers :
                     state = c /\ pod[c] \in {"dead", "absent"} ~> state # c

\* When the last user action was a stop, and no start was under way when it
\* came, nothing runs once every task has come to rest ("a user stop, the idle
\* timeout [...] all cancel any pending restart for the workspace",
\* docs/features/crash-recovery.md).
StopHolds ==
    AtRest /\ Creating = {} /\ ~wanted =>
        \A c \in Containers : pod[c] # "running"

\* A stopped workspace keeps no network sidecar: once every task has come to
\* rest, a sidecar belongs to a workspace that is tracked ("its stop tears the
\* network sidecar down", _attach_network_sidecar).
SidecarGoesToo == AtRest /\ Creating = {} /\ state = None => sidecar = None
=============================================================================
