# Verification of Kael's core

TLA+ models of the concurrent, re-entrant and crash-prone core of Kael, the Rust
desktop application framework in this repository, with TLC runs on small
instances and TLAPS proofs. Paths below are relative to `src/`; `kael/` stands
for `crates/kael/src/`.

## The system

Kael is an application framework derived from gpui. An `App` runs on one main
thread: it owns every *entity* (a value of the application's state), applies
every change inside `App::update`, and tells observers about it afterwards.
Around this core the `kael` crate has windows, key dispatch, tasks, background
jobs, child processes and extensions; other crates add caching, storage,
network, documents and releases.

| Component | State | Operations | What is hard | Correct when |
|---|---|---|---|---|
| Subscriptions (`kael/subscription.rs`) | map emitter → (id → subscriber), ids dropped during a dispatch | insert, activate, drop, detach, remove, retain | callbacks of `retain` call every other operation, `retain` included, while it holds the map | no subscriber is lost, none survives its drop, no mark or taken entry stays behind |
| Entity ownership (`kael/app/entity_map.rs`) | slots with atomic counts, queue of dropped ids, values, leases | reserve, insert, lease, end_lease, clone, upgrade, drop, take_dropped | handles are `Send`: clone, upgrade and drop race; the drop to zero and its push are two steps; released values drop handles in turn | counts are exact, the queue is exact, nothing is used after release or resurrected, garbage is released |
| Update and effect cycle (`kael/app.rs`) | pending updates, flushing flag, queue of effects, set of pending notifications | update, notify, observe, defer, flush_effects, release_dropped_entities, handlers of the platform, theme files, shutdown | everything nests: updates in updates, in observers, in release listeners, and the flush of a theme file in any of these; handlers contain panics | one flush of an update at a time, nothing left undone, no notification lost or invented |
| Process supervisor (`kael/supervisor.rs`) | map of supervised processes, shutdown flag | spawn, stop, heartbeat, drop, one monitor thread per process | the monitor releases the lock around backoff, spawner and callbacks | one child per process, none after stop or drop, every child watched, restarts bounded and eventual |
| Background jobs (`kael/background_jobs.rs`) | entries, payloads, results, slot counter: four pieces under separate synchronisation | schedule, cancel, pause, resume, retry, remove_terminal, drain_ready | no lock spans two of the pieces; every caller drains on its own thread | slots counted, no ready job left, no job shown as running for ever, payloads given back, dependencies respected and without cycles |
| Documents (`crates/kael_document/src/`) | content, baseline, undo and redo stacks; file, recovery snapshot, version list and blobs on disk | new, open, modify, undo, redo, save, save as, revert, restore a version | edits fall between the steps of a save; four files that no step writes together; crashes | dirty is exact, no content shown is lost by a crash, versions can be restored, history is one timeline |
| Worker API, transport and runtime (`kael/worker_api.rs`, `ipc_transport.rs`, `runtime/`) | one socket under a lock, next request id | request, health check, fire and forget, stream progress; the worker's loop | answers nobody reads stay in the socket; bounded buffers, no timeouts; the worker exits | an answer reaches its own request, every call returns |
| Auto updater and releases (`kael/auto_updater.rs`, `crates/kael_release/src/apply.rs`) | the latest update, the package; the installation, its staged copy and backup on disk | check, download, verify, install: stage, back up, swap, restore, clean up, restart | several instances install at once; every rename may fail; the machine may stop | the installed version is never lost, what is installed is what was offered last |
| Contexts (`kael/app/context.rs`, `async_context.rs`) | none of their own | typed facades over `App` | – | – |
| Computed values (`kael/computed.rs`) | cached value, generations of what it read | get, invalidate | staleness | a cached value equals a recomputation |
| Windows (`kael/window.rs`) | dirty views, draw phase, focus, hit tests | draw, invalidate, dispatch | notifications during the draw | an invalidated view is drawn again |
| Key dispatch (`kael/key_dispatch.rs`, `keymap.rs`) | pending keystrokes | dispatch, flush on timeout | multi-stroke bindings against a timeout | keystrokes are bound or replayed, in order |
| Tab stops, virtual data, commands, plugins, extension host | small registries | – | late pages, re-entrant registration | reference definitions |
| File watcher, sessions | debounced events, saved JSON | – | timers, partial writes | – |
| Cache, storage, network | budgets, migrations, offline queue | – | eviction, retry | bounds, no lost write |
| Sum tree and utilities; platforms, rendering, text, widgets | – | – | vendored, or effects outside of the program's own state | not modelled |

How they interact: `App` holds one `EntityMap` and several `SubscriberSet`s
(observers, event listeners, release listeners, global observers).
`App::notify` queues an effect; `flush_effects` pops it and calls
`SubscriberSet::retain`, whose callbacks call `App` again. Dropping an
`AnyEntity` queues its id; `release_dropped_entities`, called by the same
flush, takes the queue, removes the observers and runs the release listeners.
The supervisor and the scheduler are independent of `App`: they are shared by
threads, behind mutexes, an atomic counter and a condition variable. So are the
handles of workers, whose children the supervisor restarts, and those of
documents, whose file operations run on a pool of threads. The auto updater hands
a package to a platform's installer, which swaps the installation through
`kael_release`.

## The modules

### SubscriberSet

`subscribers[key]` in the code is absent, `None` while a `retain` holds the map,
or `Some(map)`; here `taken` is the set of keys with `None`, `registered[key]`
the ids of the map. `frames` is the stack of calls of `retain` in progress with
their local variables: the subscribers still to visit, the one whose callback
runs, those to keep. `RetainBegin`, `RetainVisit`, `CallbackReturns`, `RetainEnd`
are the pieces of `retain` between which user code runs, and `Insert`,
`DropSubscription`, `Detach`, `Remove` and a nested `RetainBegin` are possible at
every callback. A callback is an opaque piece of user code. Two subscriptions
joined by `Subscription::join` are the two dropped one after the other.

### Ownership and EntityMap

`Ownership` is the abstract specification of what follows: an entity is reserved, built,
held by handles that are made only of handles, lost when nobody holds it, collected with
all that is lost at once, and released if it was built. `EntityMap` implements it under
the mapping `life` and `holders` (`Owned`): an entity is alive while it has a slot and was
built, wherever its value is, and its holders are the handles that point to it. Leases,
moves and the push to the queue are stutters; the sets `Lost` and `Queued` coincide when
`TakeDropped` runs.

`slots` and `ref_count` are `EntityRefCounts`; `dropped_entity_ids` is its queue;
`dropping` holds the drop that has taken a count to zero (`fetch_sub`) under the
upgradable read lock and not pushed the id yet under the write lock. Because the
upgradable lock admits readers, `Clone` and `Upgrade` are possible between the
two, and because it excludes writers and other upgradable readers, `Reserve`,
`TakeDropped` and other drops are not (`CanWrite`). A handle has a target and a
place: a thread, or the value of an entity, which is how cascades of releases
arise (`ReleaseValue` needs the handles the value kept to be dropped first). Ids
are never reused because `SlotMap` keys are versioned.

### EffectCycle

The cycle of `App`, composed with an instance of `SubscriberSet` for the
observers. `call_stack` is the stack of the main thread as far as it matters:
user code (`update`, `observer`, `deferred`, `release_listener`, `handler`,
`shutdown`) and the loops of the framework (`flush`, `theme_flush`,
`shutdown_flush`, `notify`). Each handler of `app.rs` is an action: `FinishUpdate`
decides whether to flush, `TakeDropped` and `ReleaseEntity` are
`release_dropped_entities`, `ApplyNotify`, `ApplyActivate`, `ApplyDefer` the arms of
`flush_effects`, and `VisitObserver` the closure of `observe_internal` with its
upgrade of the weak handle. Entities are abstracted to referenced, dropped and
released, which `EntityMap` details.

A `handler` is code the platform, or the watcher of a theme file, runs outside of
any update (`StartHandler`); `ObserveThemeFile` is the same call of
`apply_theme_file_change` made by code of the user, inside an update or a callback.
`ThemeFlush` is its flush (`app.rs:39305`), which looks at neither counter, as that
of the shutdown does not: it may begin inside another flush, and updates may
flush inside of it. `releasing` therefore has an element for each flush in progress,
the local variable of its `release_dropped_entities`. `UpdatePanics` is a callback of
a handler that panics inside updates it made; the handler contains the panic
(`app.rs:39300`, `theme.rs:627`) and the counts of those updates stay.

Four history variables: `owed`, the observers to be called; `pass_since`, when the
notifications being applied were queued; `nested`, whether a flush has begun inside
another; `panicked`, whether a panic has cut an update short.

### ProcessSupervisor

One record per process and one monitor thread, whose position between two
acquisitions of the lock is `monitor[p]`: `wait`, `check` (gone? unresponsive?
exited?), `decide` (the restart decision), `backoff`, `recheck`, `spawn` (the
spawner, without the lock), `attach`. `spawned[p]` is the child the spawner
returned and nobody else knows of yet. The drop of the supervisor is two steps,
the flag and the map. Time is abstract: a heartbeat may be stale and a wait over
at any moment, which covers every value of the durations, and also the wake-ups
through the condition variable.

### JobScheduler

One job entry per id, `pending` payloads, `results` and `running_count`, and the
position of each calling thread in `schedule_with_descriptor`, `cancel`, `retry`,
`remove_terminal`, `drain_ready` and `try_execute`: one value of `pc` for each
stretch of code between two synchronisations. `try_execute` has seven: it looks for the
payload (`Fetch`), fails a job without one (`FailUnavailable`), takes a slot, marks
the job running, waits for the worker and records the outcome (`Finish`), the result,
and the end of the payload. `snapshot` and `given` are locals of these calls; `token` is the
cancellation token of an entry, which several jobs may share and whose owner may cancel
it in no call (`CancelToken`). The worker pool is external: it answers with a result or an
error, or its request panics. `completed`, `removed`, `reused` (the id of a removed job was
scheduled again, which the code allows) and `panicked` are history.

### EditHistory, VersionStore and Document

`EditHistory` is the abstract specification of undo and redo: one timeline of
contents and a cursor. `VersionStore` is `versions.rs`: the list of versions, in
one file, and a blob per digest. `Document` extends it with `document.rs` and
`autosave.rs`, and implements `EditHistory` under the mapping `History`: the
timeline is the undo stack, the content and the redo stack reversed.

`modify`, `undo` and `redo` hold the lock of the state and `recovery_lock` from the
change to the end of the snapshot's update, and are one step each. `save`, `save_as`,
`revert` and `restore_version` hold `file_operation_lock` and await the blocking
pool between their parts; `op` is the one under way, with what it captured, and
its parts are `BeginSave`, `WritePrimary`, `RecordBlob`, `RecordVersion`, `PruneBlobs`,
`Finalize` and so on. `Crash` may follow any step: memory goes, `files`, `snapshots`,
`versions` and `blobs` stay. Any operation on a file may fail, and one whose last
action, the sync of the directory, fails has replaced the file. `ExternalWrite` is
another program. Contents stand for their bytes and digests. Left out: file types,
the list of recent documents, snapshots of the legacy format, listeners. Merged: the
read of `revert` and of `restore_version` is at the moment they begin; the comparison
of addresses by which they notice a concurrent edit is one of values, which allows
more; `metadata_lock` adds nothing to `file_operation_lock` when there is one handle.

### WorkerApi

Threads of the host (`call`), the lock on the transport, the two directions of the
socket as bounded queues of frames, and the loop of the worker. A step is what
happens between two waits: for the lock (`Lock`), for room in the socket (`Send`,
`SendCancel`, `SendResponse`, `ReportProgress`), for a frame (`Receive`,
`WorkerReceive`). A frame beyond the limit of the transport is refused and the call
ends (`RefuseToSend`). Ids are taken before the lock (`Call`). `fire_and_forget` leaves its
answer in the socket, and so does a stream whose receiver is gone, which sends a
cancel that the worker answers once more; later calls skip those frames. When the
worker exits, what it sent stays readable.

### UpdateInstall

Instances of the application and the files they move: `content` is the version at each
path, the path `Installation` and the backup path of each token; `exe` is the path
an instance is told is its executable. An attempt has its `step`, the `live` path it
replaces, the copy it `staged` and its `backup` path. `Preflight`, `Backup`, `SwapIn`,
`Restore` and `DiscardBackup` are the operations of `FsInstaller`, each of which may
fail, in the order of `atomic_swap_with_rollback`; `Stage` and `Restart` are what the
macOS and AppImage installers do before and after. `Crash(i)` may come at any step.

Each attempt finds out anew what to replace. With `APPIMAGE` set, and on macOS, that is
the path the process was started from (the instances in `FixedPath`). Without it the Linux
installer asks `current_exe()` (`auto_updater.rs:2911`), and Linux answers with the path at
which the file is by now: `Rename` and `Removed` then change `exe`. The history variable
`strayed` says that an attempt took something else than `Installation` for the installation.

A version stands for a release with its package and digest, so an update whose feed
has no digest (`require_signature` off) is not covered. Renames are atomic and durable;
a copy that is not complete never becomes live; a package removed from the temporary
directory is a verification or a copy that fails. A backup that was removed in part
counts as present, which the properties never rely on: what they look for among the
backups is the version last installed, and the removal of a backup starts only when
a newer one is live, or is that of a version nobody looks for.

## The runs

Deadlock is not checked in any run: all models stop when their bounded supply of
calls, subscribers or spawns is used up, as the program does when nobody calls
it, and documents, workers and instances may all be closed. Every "violation" run
shows a disagreement between the code and its own documentation, recorded in
`PROJECT.json` as a finding. Others are excepted from the properties by a history variable
and described under "Conditions the properties carry".

| Run | Bounds | What it shows |
|---|---|---|
| subscribers | 2 emitters, 3 subscribers, dispatches nested two deep, any callback | no subscriber is lost, no emitter stays taken, marks are consumed, and a drop is final by the end of the dispatch unless its emitter was touched meanwhile |
| subscribers_drop_survives | 1 emitter, 2 subscribers | finding: after an insert in the same dispatch, a drop is never honoured |
| entities | 2 threads, 4 handles, 2 entities | all of ownership, that garbage is released with what its value kept, and that counts, locks and queue implement `Ownership` |
| effects | 2 entities, 2 observers, 2 nested updates, 4 calls, handlers, theme files, contained panics, shutdown | settled when updates, theme files and the shutdown return, notifications neither lost nor early until a flush begins inside another, flushes of updates never nest, and every call returns |
| supervisor | 2 processes (on_failure with 3 spawns, always with 2), 1 restart, 1 late heartbeat each | all safety and liveness of the supervisor when no heartbeat follows a stop |
| supervisor_late_heartbeat | 1 process, heartbeats after stop | finding: the stop is forgotten and the process restarted |
| jobs | 2 jobs with any dependencies, 2 threads, 1 slot, 1 retry, 1 shared token, 4 calls, panics | no ready job is left, slots are counted, the status running does not outlive the work, no cycle of dependencies, every call returns; until an id is scheduled again payloads are given back, completed jobs have results, and jobs start after their dependencies |
| job_status_not_final | 1 job, 2 threads, 2 calls | finding: a cancelled job becomes running or failed |
| documents | 2 paths, 3 contents, history of 1, 2 versions kept, 3 saves of which a fault or a foreign write takes the place of one | dirty is exact, the file is what was saved, crashes keep content, versions stay readable, and the stacks implement the timeline |
| documents_crash | 1 path, 3 contents, no faults | finding: an edit made during a save is lost when the process stops before the end of the save |
| worker | 2 threads, 3 requests, 2 frames in each direction, 1 request forgotten, 1 stream given up, 2 progress frames, the worker may exit | answers reach their own request, nobody waits in vain, every call returns |
| updates | 3 instances, of which two are told the path they were started from and one follows renames; 3 releases, 3 backups that stay | only the latest update is installed; until an attempt takes a backup for the installation, the installed version is never lost, and there is one gap at a time |

Why the bounds are enough: each hazard listed in `PROJECT.json` needs at most two
actors on one piece of state and one more piece that must not be disturbed.
Three subscribers are one that runs, one visited before it and one after it;
nesting 2 is a dispatch inside a dispatch. Two entities and four handles are a
value that keeps another alive, with a handle on each thread besides; the safety
part of that run is proved for any number. Four calls are a notify and an observe
from within an observer, and the two that led there. Two monitors are one more than
interacts with itself; three spawns are one restart and one beyond the limit. Two
jobs are enough for a circle of dependencies and for one that waits for another; two
threads with four calls and one slot are a job that one thread selects, while the other
cancels it, removes it, runs it or takes the slot; what the run checks of safety is proved
for any number. Two paths are what `save_as` moves a
document between, each with a snapshot of its own; three contents and three saves
are the fewest with which a version is dropped whose blob goes, and one whose blob
stays because its content came back. A history of one entry has every step of the
longer ones - the cut, the move from stack to stack, the cleared redo stack - and the
proofs hold for any. Three requests of two threads, one of them forgotten or given
up, are an answer read by the other thread and by the same one later. Three
instances are one in the gap, one that arrives then, and one that keeps running an
old version; three tokens are as many attempts whose backups are in use or stay; the
proofs hold for any number. All bounds are constants named in the
modules (`MaxSubscribers`, `MaxDepth`, `MaxEntities`, `Handles`, `MaxUpdates`, `MaxCalls`,
`MaxSpawns`, `MaxLate`, `MaxSaves`, `MaxMishaps`, `Capacity`, `MaxRequests`, `MaxForgotten`,
`MaxDrops`, `MaxProgress`, `Tokens`). Symmetry is declared over paths and non-blank contents,
and over instances and tokens, in runs without liveness.

### Conditions the properties carry

*Drops after inserts.* `DroppedForgotten` fails once a callback inserts for, or
removes, the emitter being dispatched, as `subscribers_drop_survives` shows; the
history variable `reentered` records that, and `DroppedForgottenInTurn` is what holds
until then. The other properties of the run hold without the restriction.

*Flushes inside flushes.* `App::shutdown` and `apply_theme_file_change` flush without
a look at `flushing_effects` and `pending_updates`, and without raising them. The flush of a
theme file may so begin inside that of an update, when an observer calls
`observe_theme_file`; and an update made by an observer during the flush of a
shutdown, or of a theme file the watcher reloaded, flushes inside it. Then a
notification of the entity whose observers are being called is popped and reaches
nobody, against `app.rs:34714` ("Arrange a callback to be invoked when the given entity
calls `notify`"); a nested dispatch finds marks of the outer one, which the assertion of
`subscription.rs:146` rejects in debug builds; an observer may be called for a notification
older than itself; and the observers of an entity released by the inner flush are put back
by the outer one. `nested` records that it has happened: `ActiveObserversServed`,
`NotCalledForThePast` and the last conjunct of `Settled` are about the time before. TLC violates
each of the three once its `~nested` is taken away (with `CanPanic = FALSE`, and
`MaxCalls = 5` for the first two). The rest of `Settled`, and `OneFlushAtATime`, which counts
the flushes of updates, hold without that restriction.

*Handlers.* A handler of the platform that notifies outside of any update leaves its
effects in the queue until the next update, which is why `SettledOnReturn` leaves the
return of a handler out and `ActiveObserversServed` allows a notification that is queued. A
theme callback that panics inside an update it made is contained (`app.rs:39300`,
`theme.rs:627`; `theme.rs:935` tests that it is), but `App::update` has no guard (`app.rs:34696`):
the counter stays up and no later update flushes. `SettledOnReturn` says nothing after such a
panic (`panicked`), and is violated without that exception.

*Overlapping calls.* No operation of the scheduler holds its three locks together, and
a drain looks a job up again, by id, after it selected it. Several things the code says of
itself fail for two threads. A terminal status is not final, since a job that was cancelled or
run between its selection and its start is marked running or failed: the run
`job_status_not_final`. Three more are not among the properties, or are excepted:

* A result may stay behind its job, when `remove_terminal` comes between the record of the
  status and that of the result (`background_jobs.rs:756`; line 1009 says "Removes a terminal
  job and any stored result"). `CompletedHasResult` is therefore an implication; with an
  equivalence in its place the run `jobs` violates it.
* Two drains may select one job, and run it twice, with a slot each (line 697). And since pause
  and cancel change the status of a job whose worker is busy, `running_count()` is not "the
  number of jobs currently in the `Running` state" (line 999).
* A job may be started in the place of another that had its id (line 696), with dependencies
  that were not looked at (line 303: "must complete before this job can start"); a removal
  under way when an id is scheduled again takes the new result or leaves the new payload.
  `StartsAfterDependencies`, `CompletedHasResult` and `PayloadsGivenBack` hold until then
  (`reused`), and each is violated without that exception (the first with two tokens and five calls).

What holds for any interleaving is that slots are counted, no ready job is left, a job is shown
as running only while a thread works on it, and dependencies have no cycle. A request that
panics leaves its job as it was (`panicked`).

*Full sockets.* `CallsReturn` of the worker holds while the frames of calls that do not
read fit the socket, which the bounds of `worker` say (`MaxForgotten` and `MaxDrops`
against `Capacity`). With more of them, the worker waits to write answers that
nobody reads while the host waits, with the lock, to write the next request
(`ipc_transport.rs:438`); neither end has a timeout, although `worker_api.rs:101` says "Send a
request and block until a response is received". TLC violates `CallsReturn` with
`Capacity = 1`, `MaxForgotten = 3` and `MaxRequests = 4`.

*Fixed paths.* Where the path an instance is told follows the renames, an attempt may take what
is a backup already for the installation (`strayed`). After a swap and its restore both
failed, a retry moves the backup to another, puts the new version at the path of the first
backup, and discards the version that was installed (`apply.rs:159` calls what is replaced
"the currently-installed location"); or a second instance moves aside the backup of one that
is in its gap. `NothingLost` and `GapIsExclusive` hold until then, and each is violated without that
exception. No attempt strays when every instance is told the path it was started from: AppImages
that set `APPIMAGE`, and macOS. `InstallsLatestUpdate` does not depend on it.

*The gap of an update.* Between the backup and the swap nothing is at the path of the
installation. A crash there leaves it so: `NothingLost` says that the version is in the
backup, and nothing in the code puts it back.

Other behaviours met while modelling, which a reader of the code may not expect:
a subscription dropped by an earlier callback of the same dispatch is still
called once; the second of two notifications of an entity in one update is merged
into the first, so an observer added between them is called for neither
(`ActiveObserversServed` speaks of observers that were active); stopping one
supervised process ends the backoff of every other, since they share one condition
variable; an old instance of the application may install an update that is older
than what is installed, because an updater knows only the version it runs.

### Fairness

* `EntityMap`: a drop that reached zero pushes its id (the thread is running, and
  waits only for readers); a flush that is possible again and again happens, and drops
  the values it took. The flush is driven by the next update of the main
  thread: a last drop on a background thread wakes nobody, so the assumption is
  that the application goes on updating, and the liveness is relative to that.
* `EffectCycle`: the main thread goes on. Code of the user makes at most `MaxCalls`
  calls, the one assumption without which `flush_effects` need not end.
* `ProcessSupervisor`: each monitor thread is scheduled and its waits time out,
  and a drop that began completes. The operating system need not let a child exit.
* `JobScheduler`: each thread goes on and the workers answer, or panic.
* `WorkerApi`: each thread of the host that can take its next step takes it, and so
  does the worker, whose handler returns. The worker need not exit. Weak fairness
  is enough: a thread waits for the lock only while another holds it, of the
  finitely many that ask for it. A frame need not be refused.
* `Document` and `UpdateInstall` state no fairness: what they promise is safety.

## The proofs

`SubscriberSetProofs` proves, for any set of emitters, any number of subscribers and
dispatches nested to any depth (`SubscriberSetAssumption`), the four invariants of the run
`subscribers`: `TakenIsPutBack`, `SubscribersKept`, `MarksDoNotOutlive` and
`ForgottenInTurn`, with `SubscriberTypes`. That the merge at the end of `retain` loses nobody
needs that only dropped subscriptions are marked (`MarksAreOfDropped`) and that an id which
is given out is fresh (`GivenOut`). That it forgets what was dropped needs that a subscriber
is where its unsubscribe closure looks for it (`Placed`), and `InTurn`: without reentrancy one
dispatch is in progress, its emitter is taken, and a dropped subscription among those it
took is marked. `DispatchStep`, `DispatchBegin` and `DispatchEnd` say what the steps of
`retain` do to the stack, from lemmas on sequences.

`EntityMapProofs` proves, for any set of threads, any finite set of handles and
any number of entities, the invariants `RefCountExact`, `QueueIsTheUnreferenced` and
`HandleKeepsEntity`, the action property `NoResurrection` and the refinement
`OwnershipSpec`, which the run `entities` checks, with the types and `ValuesHaveSlots`
that they rest on:

* `TypeCorrect`: in particular no count goes below zero (`over-released` in the code);
* `CountsAreExact`: a count is the number of handles, wherever they are;
* `QueueIsExact`: the queue holds exactly the unreferenced ids, each once, but for
  the drop that is about to push (so the `unwrap` and the assertion of
  `take_dropped` cannot fail);
* `HandlesKeepEntities`, `ValuesKeepSlots`: no use after release, no value without
  its slot;
* `NothingResurrected`: zero is final;
* `CountingImplementsOwnership`: every step is a step of `Ownership` or a stutter.

The assumptions are those of the module, `EntityMapAssumption`: the handles are
finite in number, the main thread is a thread, threads are not ids.

None of these invariants is inductive alone. That `take_dropped` may remove the
queued slots without harming a handle depends on the queue holding nothing but ids
with count zero; that such an id has no handle depends on the counts being
exact; that counting is preserved by a drop depends on its target still having a
slot; and that the queue has each id once depends on there being at most one drop
in progress, the exclusion by the upgradable lock. `IInv` is the conjunction
that closes this circle: `TypeOK`, `HandlesPointToSlots`, `RefCountExact`,
`QueueSound` and `ValuesSound`, which adds that ids not yet given out have neither
a slot nor a value. It is preserved conjunct by conjunct (`TypeStep`,
`HandlesStep`, `CountStep`, `QueueStep`, `ValuesStep`), each by cases on the
actions; the counting rests on `CreateCounts` and `DropCounts`, which say what one
handle more or less does to `Cardinality(HandlesTo(e))`, and the length of the
queue on `IntervalCount`.

The refinement (`OwnershipStep`, one step per action) needs two facts more. By
`QueuedIsLost`, when no drop is in progress the queue is the set of entities that nobody
holds: `IInv` gives it through the counts. By `LifeSound`, which is an invariant of its
own (`LifeSoundStep`), a slot was built exactly if its value is in the map or leased and
what is being released has no slot: this is why `take_dropped`, which looks only at the
map, releases all that was built of what is lost, and releases it once.

`EffectCycleProofs` proves, for any entities, any number of observers and updates nested to
any depth (`EffectCycleAssumption`), with handlers, theme files and contained panics, the types
and the four safety properties of the run `effects`, and that the cycle composed with its observers is sound:

* `TypesHold`: among the types, that `pending_updates`, an unsigned counter decremented
  without a check, stays a natural number;
* `FlushesNeverNest` and `UpdatesSettle`: one flush of an update at a time, and nothing left
  when the outermost update, a theme file or the shutdown returns;
* `NotificationsServed` and `PastNotHeard`: until flushes are nested, every active observer that
  was notified is called, and none for what came before it;
* `RegistryImplemented`: every step of the cycle is one that `SubscriberSet` allows, or leaves
  the observers alone, so that what that module promises holds here; `EmittersGivenBack`
  says one of these promises of the composition.

The counters are read off the stack of calls. `Counters`: `pending_updates` is the number of
updates and their flushes in progress - at least that, after a contained panic -,
`flushing_effects` says whether one of these is a flush, there is one dispatch, and one
stamp, for each `notify`, one element of `releasing` for each flush, and more than one flush
only if `nested`. `StackShape`: an update, a handler or the shutdown is at the bottom, and a
dispatch is called by a flush. From these follow `EmptiedByFlush`, that without a panic only
the end of a flush, or a handler, brings the main thread back to the event loop,
and `FlushRunsAlone`, that unless flushes were nested no dispatch is in progress when a
flush takes its next step. The second is what the rest turns on. `ReleasedUnobserved` (an
entity without a handle waits to be released or has no observers) holds because no
dispatch can put observers back after `ReleaseEntity`; `InTime` (the active observers are older
than every notification being applied) because none becomes active during a dispatch;
`OwedServed` (an observer owed a call has the notification queued or is in a dispatch, yet to
be called) because the observers of an entity are in the map, not in a dispatch, when its
notification is applied. `Dated` says that the queue has activations and notifications in
the order in which they were asked for, and `Merged` that a merged notification is
queued; these two hold when flushes are nested too, the other three are claimed until then, for
the reasons given above. `UpdatesSettle` is a statement about the step that returns to the event
loop. The lemmas of
`SubscriberSetProofs` cannot be cited through the instance (the prover does not open
theorems of an instance with substituted constants), so the few facts about the registry that are
needed are proved again for it (`RegistryKept`).

`ProcessSupervisorProofs` proves, for any set of processes, any policies and any
`max_restarts`:

* `TypeCorrect` and `NeverTwoChildren`: no process ever has two children;
* `ChildrenWatched`: no monitor thread ends while its process has a child, as long
  as the supervisor lives;
* `StopIsFinal`: a stopped process stays down, under the assumption
  `~HeartbeatsAfterStop`; the run `supervisor_late_heartbeat` shows that without it
  the property is false;
* `RestartsBounded`: a silent process is spawned at most `max_restarts` times more.

`OneChild` is not inductive: a spawn is harmless only because the monitor reaches it
with the old child reaped. `WatchInv` adds what links the monitor's position to the
shared state: `NoChildInRestart` (from the reap to the attach the monitor's process
has no child), `ChildIsKnown` and `ChildIsWatched`. `RestartsCounted` ties the spawns to
the recorded restarts and the monitor's position, since a restart is recorded
before the spawn; `StopRemembered`: without late heartbeats, the health of a stopped
process stays `Stopped`, which is what its monitor looks at before it spawns.

`JobSchedulerProofs` proves, for any finite set of threads, any jobs and any limits
(`JobSchedulerAssumption`):

* `TypeCorrect` and `SlotsCounted`, together, since neither is inductive alone: that
  the decrement keeps the counter in the naturals needs a thread holding a slot to
  be counted, and that counting needs each thread at one position. A panic in
  the pool is one of the steps;
* `Acyclic`: a circle is a set of tracked jobs each of which depends on a member of it.
  Scheduling adds one job whose dependencies are tracked already while no tracked
  job's dependencies change, so a circle with the new job in it would need one
  without it; removing a job only takes edges away;
* `NoReadyJobIsLeft`: when every call has returned no job that could run is left. `LooksFor`
  says for each position of a thread whether it is going to look at the queue again, and
  `LookedFor` that, as long as no request panicked, every ready job has such a thread; one that
  gives up for want of a slot leaves the job to the threads that hold the slots, which look
  again when they give them back. The theorem assumes
  `MaxConcurrent > 0`, since `with_max_concurrent` accepts 0 and such a scheduler keeps its jobs
  queued, as its tests expect (`background_jobs.rs:2019`);
* `RunningJobsEnd`: a job is shown as running only while a thread works on it. Only `Start` writes that
  status, and the thread that wrote it records the outcome in the next step but one, whoever
  worked on the job besides;
* `PayloadsComeBack`, `DependenciesComeFirst` and `CompletedKeepResults`: what holds until an id
  is scheduled again (`IdsUsedOnce`). `ScheduledOnce`: an id that no call has scheduled is
  unknown everywhere, and one that is being inserted is a new entry (`Inserting`).
  `MissingStays`: a payload found missing does not come back. `PayloadsSound`: the payload of a
  job that will not run again has a thread that is about to drop it. `DependenciesSound`:
  what a thread has selected and not started yet depends only on jobs that have completed.
  `ResultsSound`: a completed job has its result or a thread that is about to store it, and
  a result is dropped only for a removed job.

`DocumentProofs` proves, for any paths, contents and bounds (`DocumentAssumption`,
`VersionStoreAssumption`), `DocumentTypes`, `DirtyIsExact`, `SavedIsOnDisk`, `SnapshotIsCurrent`,
`VersionsStayReadable`, `HistoryIsBounded` and `CrashesKeepContent`. The inductive invariant
`IInv` ties the operation under way to the state. `OpShape`: it is one of the open
document. `DigestIsSaved`: the digest is that of the last baseline. `OpFile`: after its
write a save finds its content in the file, and what a revert read is still there,
unless something else wrote. `VersionSteps`: the blob is there before the list that
names it is written, and the contents marked stale are named by no version.
`DirtyExact` and `RecoveryCurrent` (the snapshot is that of the content shown, on the last
baseline) are part of it. `CrashKeepsContent` is not: it follows from `FileIsSaved` and
`RecoveryCurrent` (lemma `CrashKeeps`), outside the window of a save because snapshot
and file agree on the baseline, in the window because a snapshot on the old baseline is
discarded for what was being saved.

The last part of the module proves `DocumentImplementsHistory`: every step of `Document` maps to
a step of `EditHistory` or a stutter. The lemmas on sequences say what the three parts
of the timeline are after an element moves from one stack to the other, and that the
cut at the limit is `Newest` of the part before the cursor.

`WorkerApiProofs` proves, for any threads and any bounds, `WorkerTypes`, `AnswersBelong` and
`NobodyWaitsInVain`. Neither of the last two is inductive: that the first response with the id of
a waiting call is the handler's answer, and that it is there at all, needs to be known of
every place a request passes through. `IInv` adds: the thread past `Lock` holds the lock
(`Exclusive`); calls in progress have requests of their own (`Pending`); what a frame in
the socket tells of its request, for instance that the response of a handler repeats what
`handled` records (`FramesTell`); what the worker has in hand (`InHand`); a request not
yet sent is unknown to the worker (`Unheard`); and a request is in the socket once (`Single`).

`UpdateInstallProofs` proves, for any set of instances, whatever paths they are told, any releases
and any number of tokens, `UpdateTypes`, `LatestIsInstalled`, `NoVersionIsLost` and `OneGap`.
`Attempt` says what an attempt has at each step, `Offered` that what an instance was offered is
newer than what it runs, and `IdleWhenGone` that an instance that is gone has no attempt.
`SwapInv` is what holds until an attempt strays. `OnePlace`: every attempt replaces `Installation`,
and its backup path is nobody else's. `NothingLost` and `GapIsExclusive` then need each other: a
restore loses nothing because nobody else could swap in meanwhile, and nobody could because
nothing is at the path to back up. `Kept` joins them: what was last installed is at its path, or
in a backup that no attempt is about to discard.

Only model-checked: all liveness, since fairness and ENABLED are out of the prover's reach
(`UnreferencedReleased`, `UpdatesReturn`, `NothingOutlivesDrop`, `AlwaysRestarted` and the two
properties `CallsReturn`). Every safety property of a passing run is a theorem.
The type invariants are proved, as part of each inductive invariant, and take no run.

## Not modelled

Within the modelled files: the leak detector, generation counters and accessed
sets of `entity_map.rs`; events, globals, windows, focus and entity creation in
`app.rs` (they use the same queue), and panics inside a flush, a dispatch or code that leases an
entity; health callbacks, events and traces of
`supervisor.rs`; progress, queries and the descriptive types of
`background_jobs.rs`; file types, recent documents, listeners and the browser's
storage of `kael_document`, and the cancellation of its futures at an await; the pool
and the bootstrap of workers, and their restart by the supervisor; feeds, signatures and
the installers of Windows, Flatpak and Snap. The components with status `not_modelled`
in `PROJECT.json` carry their reasons: some could follow, the greater part is I/O,
rendering, bindings or vendored code, where a state machine would say little.

## Plan

What would come next:

1. *Events and globals* in `EffectCycle`: listeners removed before the event of a
   released entity is applied; and, as a module of its own, window invalidation
   during the draw.
2. *Workers and their supervisor* composed: the bootstrap, and what a handle sees of a
   worker that is restarted.
3. *Network*: the offline queue and its retries; refresh of a token by several
   requests.
4. *Pure algorithms* against reference definitions: tab stop order, keymap
   precedence and pending keystrokes, cache eviction.
