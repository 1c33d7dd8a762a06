# Boomux verification project

Boomux keeps terminal Shells alive in a daemon. Clients attach to them, close
and restart them, group them in Workspaces, follow what happens through an event
stream, and expect all of it to survive a failed disk write, a daemon crash and
the replacement of the daemon by a newer one. This directory models the daemon's
core in TLA+, checks it with TLC on small instances, and proves what matters
most with TLAPS.

Paths below are relative to the repository root (`src/daemon.rs` is
`src/src/daemon.rs` in `PROJECT.json`).

## 1. The system

### Components

| Component | State | Operations | Correct when |
| --- | --- | --- | --- |
| Transition coordinator (`src/daemon.rs`: `DaemonService`, `TransitionState`, `EventTransaction`) | registry, queues of durable and runtime events, lifecycle reservation, `mutation_lock`, `persist_lock` | durable mutations, run starts and exits, close, shutdown, cold recovery, flush | an event is published only when what it announces is on disk, once, in order, and the published events describe the registry |
| State store (`src/state_store.rs`) | the state file | `save` (write, sync, rename), `load`, migrations | a save replaces the file whole or not at all |
| Local Shell journal (`src/local_shell_journal.rs`) | checksummed records of creations and first starts | `append`, `clear`, load and replay | every acknowledged record survives a crash until a checkpoint covers it |
| Dirty revision (`mark_persistence_dirty`, `write_persisted_state`) | two atomics | mark, capture, clear | a change made during a write stays marked for the next one |
| Event stream (`EventStream`) | bounded log, cursors, waiters | `read_after`, `wait_for`, publication | a reader with a valid cursor misses nothing and is woken |
| PTY reader (`start_pty_reader`, `ReaderTask`) | per-run thread and command channel | pause, cancel, resume, stop | no output is lost, and nobody else reads the PTY meanwhile |
| Live handoff (`launch_replacement`, `prepare_handoff`, `import_handoff`, `src/handoff.rs`) | both daemons, transferred descriptors | quiesce, transfer, finalize, roll back | exactly one daemon owns the sockets and PTYs at every moment |
| Attachments (`handle_attach`, `src/attach.rs`) | primary, collaborators, their queues and threads | attach, take over, detach, resize, input, quiesce for a restart | output reaches every participant whole and in order; a displaced client is not heard; no two threads wait for each other |
| Cold recovery (`src/daemon/cold_recovery.rs`) | interrupted runs | `recover_shells` | recovered together or rolled back together |
| Agent registry, OpenCode, Kiro, Claude and Codex integrations | agents bound to exact runs | observe, claim, acknowledge | an observation never lands on another run |
| Coordinator workspaces (`src/global_workspace_store.rs`) | global Workspaces with their placements, pending and completed operations | create, adopt, link, rename, create a resource, change a directory, close | nothing created on a Node is lost track of; a Workspace has one owner per Node; a close drops nothing that is open |
| Node registration (`src/node_registration.rs`) | registered Nodes, admission counts, maintenance leases, tombstones | add, rename, retarget, forget, admit, drain, upgrade maintenance | a Node changes only when no request is routed to it, and for one client at a time |
| Node projection (`src/node_projection.rs`, its workers in `src/daemon.rs`) | cached snapshots with generations, dismissals, notification claims | synchronise, mark health, dismiss, notify, remove | a stale answer never overwrites a newer state; a notification is given once |
| Node identity (`src/node_identity.rs`) | identity file, leases | rekey | an identity changes only when nobody uses it |
| Protocol, client, federation bridge, SSH bootstrap | connections | requests, handshake | versions are negotiated before use |
| CLI, dashboard, web gateway, desktop | presentation | – | clients of the above |
| Update, uninstall, integration assets, configuration | files owned by the user | replace, remove, edit | a failure leaves the previous file |

### How they interact

Every client request runs in its own handler thread. Whatever changes durable
state takes `mutation_lock` for its whole duration; within it `persist_lock` is
taken around the capture of a generation and its write, and the event lock only
around memory. While a generation is being written no event lock is held, so PTY
readers keep running; they find publication *blocked* and queue. A background
loop (`run_daemon`) flushes when `persistence_dirty` is set, taking `persist_lock`
but not `mutation_lock`. Coordinated local Shells take a shortcut: their creation
and first start are appended to the journal instead of rewriting the state file,
and the next operation that needs the file checkpoints the journal first.

A daemon also coordinates others. It routes requests to registered Nodes over SSH:
each routed request is admitted against the registration it was made for, and a
retarget, a removal or an upgrade closes admission and drains what is in flight.
One worker per Node fetches that Node's snapshot and events into the projection
cache. Global Workspaces group Workspaces of several Nodes; their store only
records placements and operations, and the Workspaces themselves live on their
owners, behind requests that may be lost, late or repeated.

### What is hard

* a write that fails after memory changed: roll back, compensate or queue;
* killing processes (irreversible) before knowing whether the close commits;
* queues that several threads fill and drain while a third writes;
* two stores (state file, journal) that together must hold every published fact;
* event IDs running out in the middle of a multi-Shell operation;
* the background retry, which is the only way a queued batch gets out if no
  client calls again;
* replacement of the daemon while readers, attachments and starts are running;
* requests to other Nodes whose outcome is unknown, and Nodes that are forgotten,
  registered again or changed by others while a request is under way;
* answers read over the network that describe a registration which is no longer
  there.

`PROJECT.json` lists the hazards at their lines under `hazards`.

## 2. Modules

| Module | Models | Role |
| --- | --- | --- |
| `TransitionCoordinator` | `DaemonService`'s durable operations, `TransitionState`, `PersistenceWriter`, run lifecycle, restore | the core |
| `EventLedger` | nothing: what a client of the stream is promised | abstract specification |
| `MCTransitionCoordinator` | – | the module the TLC runs instantiate |
| `TransitionCoordinatorProofs` | – | types, capacity and queue release: inductive invariant and theorems |
| `PublicationProofs` | – | what is published is on disk, once, in the order of its run, and describes the registry; the refinement of `EventLedger` |
| `DirtyRevision` | `persistence_dirty` and `persistence_revision` | one atomic load or store per step |
| `LocalShellJournal` | `src/local_shell_journal.rs` and its callers | one system call per step, each may fail |
| `HandoffProtocol` | `launch_replacement_process`, `receive_bootstrap`, the end of `run_daemon` | the conversation of two daemons, extended by the next two |
| `HandoffReaders` | `prepare_handoff`, `import_handoff`, the PTY readers of both daemons | who reads which PTY, and where the output is |
| `HandoffStores` | restore, replay, checkpoint on both sides of a handoff | who writes the state file and the journal |
| `PtyReader` | `start_pty_reader`, `ReaderTask`, `ReaderCommands` | the loop of a reader thread and its command channel |
| `Attachment` | `handle_attach`, the participants of `ShellRuntimeManager`, `quiesce_controllers`, `prepare_handoff`, `stop_runtime` | extends `PtyReader`: the threads around one running Shell |
| `NodeRegistration` | `src/node_registration.rs` and the requests that use it | admission, drains, leases |
| `NodeProjection` | `src/node_projection.rs` and the workers of `src/daemon.rs` | extends `NodeRegistration`: the cache and its workers |
| `GlobalWorkspace` | `src/global_workspace_store.rs`, the handlers that create and close, and the owners | placements and pending operations |
| `WorkspaceCwd` | `set_global_workspace_default_cwd` and its recovery | extends `GlobalWorkspace` by guarded changes of a directory |
| `MCDirtyRevision`, `MCLocalShellJournal`, `MCHandoffReaders`, `MCHandoffStores`, `MCAttachment`, `MCNodeRegistration`, `MCNodeProjection`, `MCGlobalWorkspace`, `MCWorkspaceCwd` | – | the modules of their TLC runs |
| `DirtyRevisionProofs`, `LocalShellJournalProofs`, `HandoffProofs`, `NodeRegistrationProofs`, `AttachmentProofs`, `GlobalWorkspaceProofs` | – | theorems; `HandoffProofs` covers `HandoffReaders` and `HandoffStores`, `NodeRegistrationProofs` covers `NodeProjection`, `GlobalWorkspaceProofs` covers `WorkspaceCwd` |

### TransitionCoordinator

State. `mem` is the durable registry in memory, `disk` the state file, `journal`
the local-Shell journal; `life`, `reader` and `exits` are the runtimes; `log`,
`pendingDurable`, `pendingRuntime` and `reservation` are the event stream and
`TransitionState`; `op` is the holder of `mutation_lock` and how far it got; `io`
is the holder of `persist_lock` and its write. An entity is a Shell or the
Workspace, with a status, a revision (renames) and the generation and state of
its last run. Events carry their kind, entity and revision or generation.

Actions, in the order the code goes through them:

| Code | Actions |
| --- | --- |
| `durable_mutation_outcome` | `BeginMutation`, the checkpoint, `AdmitMutation`, `OpFlush`, `ApplyMutation`, the write, `FinishMutation` or `MutationFailed` (`DurableUndoLog::rollback`) |
| `create_local_global_workspace_shell` | `BeginLocalCreate`, `OpFlush`, `ApplyMutation` with a journal write |
| `handle_attach` that starts a run | `BeginStart`, `OpFlush`, `ApplyStart` or `StartRefused`, a journal write with fallback to the state file, `FinishStart` or `StartFailed` |
| `recover_shells` | `BeginRecover`, `ApplyRecover`, `FinishStart` or `StartFailed` (`rollback_recovery`) |
| `start_pty_reader` | `PublishOutput`, `OutputRefused`, `CheckpointHistory`, `ProcessExits` |
| `try_record_run_exit` | `BeginExit`, `ApplyExit`, `FinishExit` or `ExitFailed` |
| `lifecycle_transaction` (close Shell, close Workspace, shutdown) | `BeginClose`, `BeginCloseWorkspace`, `BeginShutdown`, `AdmitLifecycle`, `StopRuntime` / `StopFails` per Shell, `AllStopped`, `OpFlush`, `ApplyLifecycle`, `FinishLifecycle` or `LifecycleFailed`, and `AbortLifecycle` |
| `flush_pending` | `BackgroundFlush` / `OpFlush`, the write, `FinishFlush` or `FlushFailed` |
| `checkpoint_local_shell_transactions` | `BeginCheckpoint`, `WriteCheckpoint`, `SkipCheckpoint`, `FinishCheckpoint` or `CheckpointFailed` |
| `StateStore::save`, `LocalShellJournal::append` | `SaveSucceeds`, `SaveFails`, `FallbackResetFails`, `AppendSucceeds`, `AppendFails` |
| crash, `restore`, `replay_local_shell_transactions` | `CrashAndRestore` |

`Settle` is the common end of a write under the event lock: publish a batch,
then the runtime queue if nothing blocks it.

Abstractions. Names, paths and profiles are left out: a rename is a new
revision. Launcher, session and agent mutations use `durable_mutation_outcome`
unchanged and are represented by creation and rename. Queued batches are
flattened, since they are only appended and published whole. The journal is a
set, as its replay depends on the latest start per Shell only. Boot (replay,
checkpoint, new stream) is one step: it is idempotent, and a crash within it
repeats it. Poisoned locks and a start's cleanup kill failing on top of a failed
write are left out. The deferral of an exit while a lifecycle operation is active
is the wait for `mutation_lock`, which that operation holds throughout. Restart
and shutdown publish no event, as in the code.

### DirtyRevision

The coordinator treats a write and the flag it clears as one step. Here they are
taken apart. `history` and `saved` are each Shell's terminal history in memory and
in the state file, `dirty` and `revision` the atomics, `writer` the holder of
`persist_lock` with the generation it captured; `overlap` remembers whether a
Shell's last mark fell into a window of a write. PTY readers call `checkpoint_terminal_history` (`ChangeHistory`,
`BumpRevision`, `SetDirty`) without `persist_lock`, so each of their steps may
fall between any two steps of the writer: `BeginCapture`, one `CaptureShell` per
Shell, `LoadRevision`, the save, then `MarkFailed`, or `Compare` and `Clear`. The
same capture serves an ordinary operation (`BeginOperation`) and the background
retry (`Retry`), which runs only while `dirty` is set.

### LocalShellJournal

`file` is what the kernel has of the journal, `stable` the set of contents a power
loss may leave: a write or a truncation adds its result, a successful
synchronisation makes it the only one. `records` and `failed` are
`JournalState`. `applied` is the registry, `covered` what the state file and the
coordinator store hold; `acked` and `refused` are what clients were told. `call`
is the operation that holds `mutation_lock` and the system call it is at.
`BeginCreate`, `BeginStart` and `BeginCheckpoint` are the three callers; the
fallback of a start whose append failed is the checkpoint with
`reset_after_full_checkpoint`. A torn tail is `torn`; a record appended to one
becomes a line that does not parse (`Garbage`). `Crash` picks any member of
`stable`, `Boot` is `load_at` followed by the replay, and `BootCutShort` a boot
that stops after the replayed records are saved. Reads and metadata calls are
taken not to fail; checksums are left out, as no failure modelled alters a
complete record.

### HandoffProtocol, HandoffReaders, HandoffStores

`step` and `repl` say how far each process is, `toNew` and `toOld` are the bytes
in the socket pair. Each read has a deadline, so the old daemon may abort
(`HandshakeFails`, `KillReplacement`) and the replacement may quit
(`ReplacementFails`, `ReplacementTimesOut`) while the other's byte is under way;
`WriteFinalize` is the boundary after which the old daemon leaves whatever it
hears. `Locked` is the time during which `launch_replacement` holds
`mutation_lock`. The manifest and its descriptors are sent in one step (`Spawn`):
nobody acts on a part of them.

`HandoffReaders` adds, per Shell, the process (`life`), the reader thread in either
daemon, and counts of output: written, still in the PTY, in either daemon's
terminal state, and sent with the manifest. `Prepare` is one iteration of
`prepare_handoff`; `sent` is its `paused` list, which a rollback resumes one by
one. `CreateStarted` and `CreatorResumes` are the two halves of
`CreateStartedShell`, the second outside `mutation_lock`. A resume command is taken
to be handled when it is sent: a reader handles its commands in order, so a later
pause finds it reading. Whether a reader's late pause is undone after a timeout is
part of the command channel, modelled in `PtyReader`; here a pause that fails is
`PrepareFails`.

`HandoffStores` adds the registries, the state file and the journal as sets.
`RestartCheckpointed` is the restart request with its checkpoint; `Checkpoint` is
the delayed checkpoint or that of a request which waited for `mutation_lock`.
`RestoreStores` is one step: a replacement killed between its save and the clearing
of the journal leaves both, which holds more, not less. The old daemon serves requests
until the main loop has seen the restart request, so also between that request's
checkpoint and the handoff.

Two constants bound what the world does. `StartedCreates` are the Shells that
clients create started, and `FinalTimeout` says whether the replacement's two-second wait for `FINALIZE` may end before the old daemon, which
writes it as soon as it has read `PREPARED`, is scheduled to do so. The run `handoff`
leaves the last one out: if it happens just before the byte is written, the write still
succeeds and both processes exit, so `NeverOrphaned` needs its absence
(`SomeOwner`); `AtMostOneOwner` does not (`OneOwner`).

### PtyReader, Attachment

`PtyReader` is the thread: `rd` is its place in the loop, `commands` and `wake` the
channel and its eventfd, `by` the pause it obeys and `cancelled` those that timed out.
`Clear`, `Receive`, `PausedWaits`, `Read`, `NothingToRead` and `Awake` are the loop;
`AskPause`, `AskResume` and `CancelPause` what others do to it.

`Attachment` puts around it the threads that meet in one running Shell:

| Thread | Code | Actions |
| --- | --- | --- |
| handler of a client | `handle_attach` until the participant is installed | `Attach`, `TakeControl`, `Respond`, `Install` |
| | its frame loop and its end | `Input`, `Written`, `Resize`, `Resized`, `Acknowledge`, `Leave`, `Join` |
| output worker | the thread `handle_attach` spawns | `Recv`, `Wrote`, `Drain`, `Ends`, `Bye` |
| reader | `fanout_output` and the end of `start_pty_reader` | `TakeOutput`, `Process`, `FanOut`, `Block`, `RecordExit`, `RecordDeferred`, `DetachAll` |
| restart (`boss`) | `launch_replacement` until the PTYs are sent, and its rollback | `Restart`, `Notify`, `Quiesce`, `Agreed`, `Abort`, `Pause`, `Paused`, `PauseFails`, `Rollback` |
| close (`boss`) | `stop_runtime` | `Close`, `DropMembers`, `Pause`, `Paused`, `PauseFails`, `Kill`, `Rollback`, `Finalize` |

A lock held while its holder waits for something else is in `held`; one that is taken
and released within a step is a guard (`Free`). `controller` and `guests` are the
participants, `queue` their bounded channels; the receiver of a channel exists while
`Open` holds. `told`, `wrote` and `agreed` are the three things a restart waits for.
`displaced` and `stale` remember what two properties are about.

Abstractions. Sockets are left out: a client may leave and a write may fail at any
time, and a deadline may expire whenever somebody waits with one. Terminal dimensions
are left out: a resize is the locks it takes and the frames it sends. The run has been
started (the start is in `TransitionCoordinator`), and as the lifecycle changes only
under `mutation_lock`, which `handle_attach` holds, its second look at the lifecycle
finds what the first one found. Publication by the reader is taken not to fail, the
mutex around a reader's handle is left out (nobody waits while holding it), and so are
a handoff without a live run, `restart_exited` and a close that cannot wait for the
session's descendants.

### NodeRegistration

`reg` is the table of registrations; the part of it that is saved (target, revision,
tombstone epoch) is written before memory changes, so `reg` stands for the file too.
Every method of `NodeRegistrationManager` holds one mutex for its whole duration and is
one action; only `prepare_drain_commit` and `begin_upgrade_maintenance_if` give it up
while they wait for admitted requests, so a drain is several steps (`BeginEdit` /
`BeginUpgrade`, then `Wake…` or `Timeout…`). `op` is a routed request from `inspect`
to `with_current`: between `Admit` and `Release` it may reach its target. `edit` are
the handlers of retarget and forget, `upgrade` the upgrade and uninstall clients with
their lease. `Expired` is `expire_maintenance`, with which most methods begin; it is
part of every action that calls it. A client may find its lease gone; a new process
(`Restart`) starts with open admission and no counts.

### NodeProjection

Extends `NodeRegistration` by the cache (`cache`, saved before memory changes), the
worker of each Node (`worker`: one action per lock it takes and gives back), the add
request that has still to start it (`starting`), and the owner, which is another
daemon: it applies an observation in memory before it publishes it as an event, and
may restart with a new stream. The worker inspects, reads cursor and generation,
observes the registration, fetches without any lock, commits under the comparison of
revision, tombstone, target and admission epoch, classifies the transitions it
received, claims them durably and delivers them. `Registrations` lets every step of
`NodeRegistration` fall between any two of these. `told` and `crossed` remember
what the properties are about: claims notified, and Nodes whose admission closed since
they were observed; `told` also counts how often a Node's claims were discarded with
its entry, since the same revision may then be notified again. Owner steps are
taken while a worker is fetching: nothing else reads the owner, so all other orders
give the same behaviours.

### GlobalWorkspace

`ws`, `pend` and `done` are the coordinator store's file: every store method validates
a copy, saves it and then replaces memory, all under one mutex, and is one action.
`call` is the handler of an operation, which holds the lock of its operation ID and no
other: `Look` (read placement and owner), `Prepare`, `Check` (is a retried resource
already there), `Send` (`mark_owner_attempted` and the request), `Answered`,
`Unknown`, `Refused` or `Unroutable`, `Verify`, `Complete`. `own` are the owners'
Workspaces; `flight` the requests owners may still apply, at most two of one operation
(one is sent again after a lost channel), so a request may be applied long after the
coordinator gave it up, forgot about it or crashed. `FirstCall` fixes what a client
asks for; each later `Look` is its retry. `PrepareProject` is `prepare_workspace_shell`
with its three outcomes (equal completed, equal pending, new); `CreateLocally` is the
shortcut for the coordinating Node with the adoption of a placement made meanwhile;
`Cancel` is `remove_pending_at`. `closer` goes through the placements it read when it
began. Clients of the owners (`OwnerSetsCwd`, `OwnerDeletes`, `OwnerCloses`), a
forgotten registration and a crash happen at any time. `blind` and `shut` remember the
two circumstances the properties except.

### WorkspaceCwd

Extends `GlobalWorkspace`: a default directory is changed at the owner under its
mirrored revision. `PrepareMove`, `LookMove`, `SendMove`, `MoveAnswered`, `MoveProven`
(the answer is lost, and one read proves the change), `MoveUnknown`, `MoveRefused`,
`MoveUnsent` and `CompleteMove` are one request; `ReconcileMove` is
`reconcile_pending_default_cwds`. Such a request is never sent twice by the client
library, but a retry of the operation sends it again while the first is still under way.

## 3. Properties and runs

* `PersistBeforePublish`: every event a client can read is covered by the state
  file or the journal.
* `PublishedOnce`: no durable event is announced or queued twice.
* `RunOrder`: per run, start before output before exit, although output is
  published by threads that hold no `mutation_lock`.
* `CapacityReserved`: what is queued, in flight and reserved always fits in the
  remaining event IDs, so nothing accepted fails for lack of one.
* `QueueReleased`: runtime events wait only while something blocks publication.
* `PublishedCut`: when publication is not blocked, and at the moment a baseline is
  taken, the published events describe the registry exactly.
* `ImplementsLedger`: refinement of `EventLedger` with the facts that the state
  file and the journal together hold.
* `QueuedIsPublished`, `OperationEnds`: liveness.
* `EligibleOutsideWindows`: when nobody is inside a checkpoint or a write, a history
  the state file lacks has `dirty` set, unless its mark fell into one of two windows:
  while its generation was still being captured, or between the comparison and the
  clearing store, where the code loses it (observations). `HistorySaved`: outside
  the windows every history reaches the state file.
* `AckedSurvives`, `RefusedStaysOut`, `BuildsOnKept`: whatever a crash leaves of the
  journal, together with the stores it holds what was reported as done, holds
  nothing that was reported as failed, and what a start builds on is before it in
  the file or in the stores, also when `clear_state` fails half way.
* `AtMostOneOwner`, `NeverOrphaned`: never two daemons that serve, never none.
* `OneReader`, `NothingLost`: one daemon reads a PTY, and the daemon in charge has
  every byte but what is still in the PTY, for Shells that were not created started
  (observations).
* `RestartEnds`, `OutputIsRead`: a restart ends and output is read again, whatever
  fails.
* `AckedDurable`: across a handoff no reported creation is lost and the journal stays
  one that a boot accepts. The documents promise it and the code violates it: the run
  `handoff_stores` expects the violation (a finding, see the observations). What does
  hold is proved: `OldCreationsKept`, that no Shell of the old daemon leaves the state
  file and the journal, and `OnlyLateCheckpointLoses`, that only a checkpoint by a daemon
  which has handed off takes any Shell from them.
* `Contiguous`: what a participant has been shown, what its worker is writing and what
  is queued for it are all the output since its reconstruction, once and in order.
* `NoCircularWait`: handlers, workers, the reader, a restart and a close never wait for
  one another in a circle.
* `DisplacedIsSilent`: once a takeover is installed, no input of a participant it
  displaced reaches the process.
* `QuietAtHandoff`: when the PTYs are transferred every participant has left.
* `PauseHolds`: while a restart or a close counts on its pause, the reader reads
  nothing; `PauseEnds`: an operation that is over leaves no reader paused or asleep over
  a command.
* `RouteDrained`: while a routed request may reach its target, its registration has
  neither been retargeted nor forgotten.
* `UpgradeExclusive`: while a granted maintenance lease lasts, no routed request is in
  flight to the Node. `LeaseKept`: it is not taken away by expiries, failed edits or
  other clients' answers; the late timeout of another client's drain is the one
  exception, which the code has (observations).
* `NotifiedOnce`: an Agent revision of a stream is notified at most once while its
  claims are kept, over repeated events and restarts of either daemon.
* `NothingCrosses`: nothing read before admission closed is committed after it,
  even if admission is open again.
* `DismissedStaysHidden`: synchronisation does not bring back a dismissed Shell.
* `NothingOrphaned`: every resource that exists at its owner belongs to an operation
  that is pending or completed, except when a refusal cancelled an operation whose
  earlier request had not been answered (observations).
* `OwnerShared`: operations pending for one Workspace and Node agree on the owner
  Workspace, and with the placement. `LinkedOnce`: no owner Workspace belongs to two
  global Workspaces, although `link` does not look at what is pending; an owner Workspace
  may be adopted by one while its creation for another awaits its completion.
  `NamedOnce`: at most one global Workspace has the name that the projects reserve.
* `ClosedIsGone`: a close drops a placement only after its owner Workspace was closed
  or its Node forgotten. `ClosingIsQuiet`: nothing is pending for a closing Workspace.
* `MoveAccounted`: a directory that the coordinator set and that is still the latest
  change belongs to an operation that is pending or completed. `MirrorHonest`: a
  placement is never ahead of its owner, and equal to it at equal revisions.

| Run | Instance | Result |
| --- | --- | --- |
| `coordinator_one_shell` | one Shell, two runs, one rename, five event IDs, one crash, journalled creations | pass, 1.7 M states |
| `coordinator_two_shells` | two Shells, one run each, six event IDs, no crash | pass, 1.0 M states |
| `coordinator_liveness` | one Shell, state-file creations: liveness under fairness | pass |
| `dirty_revision` | two Shells, two checkpoints, several writes | pass, 9 198 states |
| `journal` | two Shells, two runs each, four records, two crashes | pass, 185 212 states |
| `handoff` | one running Shell, one created started, two bytes each, two attempts, fairness | pass, 201 779 states |
| `handoff_stores` | three Shells, two attempts, requests up to the main loop | violation of `AckedDurable` (a finding) |
| `attachment` | two clients, one collaborator, queues of one item, three requests, two outputs | pass, 2.3 M views |
| `node_registration` | one Node, two targets, two requests, two editors, two upgraders, a restart | pass, 1.2 M states |
| `node_projection` | one Node, one editor, one upgrader, two owner events, a restart of either daemon | pass, 3.3 M states |
| `global_workspace` | two Nodes, a creation, a project, a close, two failures or changes by others | pass, 1.7 M states |
| `workspace_cwd` | one Node, a creation, two projects, a change of directory, a close, two failures | pass, 1.9 M states |

Bounds. One Shell and two generations are the least in which a stale exit, a
restart and a second run exist; two Shells the least in which a lifecycle
operation stops one and fails on the other, and a compensation batch has several
events. Five and six IDs let the log reach its limit from every kind of operation, with
output limited by `OutputBound` so that durable events use the rest. Two restart
attempts are the least in which a failed handoff is followed by another, and two
bytes of output the least that can be split between two readers. For attachments, three
requests are an attachment, its takeover and a restart or a close, or one attachment and
two operations on the reader; two outputs are the least that fill a queue of one item
and block the reader, so that it holds the controller lock while it waits.
Its view forgets which output a client has that is no longer a participant, as no guard
and no property looks at it. For registrations, two
of each kind of client are the least in which one drain times out while another
client holds what it closed, and three revisions let an edit follow a rename; for
projections one editor and one upgrader suffice, as the worker only sees that the
registration changed, and one tombstone is the least that gives a cache entry of a
forgotten registration. For Workspaces, two failures are the least in which an answer is
lost and the retry that follows is refused; two Nodes the least in which a close
resolves one placement and not the other, and two projects the least that may join one
another, which needs one Node only. All runs
but `dirty_revision` disable the deadlock check because a closed Workspace, a shut down
daemon or an exhausted bound legitimately stops the model.

Fairness. Whoever holds `persist_lock` finishes its write (weak fairness: it is a
running thread). A thread waiting for `persist_lock` gets it, since the other
contender sleeps `PERSIST_RETRY_INTERVAL` between attempts (strong fairness of the
operation's step), and the retry itself is repeated while `persistence_dirty` is
set (strong fairness). A write retried forever succeeds eventually: the
assumption under which "background recovery publishes" is meant (and, in
`DirtyRevision`, the retry of a history). In a handoff both processes run on, every
read has a deadline, and a PTY that is readable is read (weak fairness). Requests,
exits and output are not fair.

### Observations

Behaviour met while modelling that a reader of the code should know; the properties
above are stated so that they hold of the code as it is, and name the exception.

* Coordinator. A failed exit queues its batch and sets `persistence_dirty`; the journal
  checkpoint of a next request saves a fresh generation and clears the flag but
  publishes nothing. If that request stops there, the batch stays queued with no retry
  scheduled, although `docs/event-stream.md` says that background recovery publishes
  queued batches. `coordinator_liveness` therefore creates through the state file; with
  `LocalCreates = TRUE` under `FairSpec`, TLC finds `QueuedIsPublished` violated.
* Dirty revision. `write_persisted_state` compares the revision and then stores
  `false`; a mark in between is overwritten, although `docs/architecture.md` says that a
  checkpoint made after an older generation was captured remains eligible.
* Journal. When the `sync_data` of `clear_state` fails the file is empty while
  `records` is not. An attach of a Shell created before then appends its start without
  its creation, and `validate_sequence` refuses the file at the next boot: added to
  `journal.cfg`, TLC finds `Loadable` violated. `OnlyClearSpoils` proves that of all the
  calls that may fail only this one ends the agreement of file and memory (`Mirrored`)
  from which `Loadable` follows, and that the next `clear_state` that succeeds, and every
  boot, restore it.
* Handoff readers. `docs/live-pty-handoff.md` says that exactly one daemon reads each
  PTY at a time. `CreateStartedShell` resumes its reader after `durable_mutation` has
  released `mutation_lock`; a restart that has paused and transferred that reader in
  between gets it resumed under its hands. With `Shells` for `Shells \ StartedCreates`
  in `OneReader`, TLC finds the two readers.
* Handoff stores. Checkpoints do not ask whether the daemon still owns the files. One
  that waited for `mutation_lock` during a handoff, with a record journaled after the
  restart's own checkpoint, saves the old registry over what the new owner has saved
  since: a creation that the new owner reported is then in no file. In the same window the
  replacement empties the journal before it owns it; if the handoff then fails the old
  daemon still has the record in memory and appends a start without its creation, which
  the next boot refuses. `docs/remote-nodes.md` says that a graceful handoff checkpoints
  earlier records. Run `handoff_stores` shows the second case; with the first conjunct of
  `AckedDurable` alone TLC finds the first. Nothing else is lost
  (`OldCreationsSurvive`, `LateCheckpointAlone`); a checkpoint under the lock of
  `launch_replacement` would close both.
* PTY reader. A reader paused under a cancelled pause may take a new pause from its
  queue before it notices: it acknowledges the new one, keeps the older one in force and
  then resumes, while the second operation counts on it (`stale`; `PauseHolds` excepts
  it). A reader whose last publication fails ends without detaching its participants.
* Attachments. A client's `FocusGained` takes `mutation_lock`, which
  `launch_replacement` holds while it waits for that client's acknowledgement, so that
  the restart times out; it is left out of the model, and `NoCircularWait` excludes
  waits that end by their own deadline. So does the restart of a daemon with a client
  that neither acknowledges its `Reconnect` nor closes. `write_controller_input` holds
  the control lock until the process reads, and a takeover waits for it with
  `mutation_lock` held; `fanout_output` waits for the primary's queue, although
  `docs/architecture.md` says that output fans out without blocking. An attachment made
  between the end of the reader and its deferred exit record is never detached. A
  takeover whose client vanishes before the response leaves the PTY resized, and a plain
  attachment resizes without telling the collaborators. When a worker's write fails its
  participant is removed, and its handler may still be writing input when the handoff is
  prepared.
* Registration. `release` gives a reservation back only at an unchanged revision, and
  `rename` raises the revision while requests are admitted: such a reservation is never
  returned, and every later drain of that Node times out until the daemon restarts.
  `begin_upgrade_maintenance_if` compares nothing when it times out and so drops the
  lease of another client that was granted one meanwhile. `docs/remote-nodes.md` says
  that a retarget keeps admission closed until a fresh baseline; the code reopens it at
  once.
* Projection. `mark_health` keeps the entry of an older tombstone epoch and stamps it
  with the current one, so that a Node which was forgotten and added again may show
  what it had before, as not online; `docs/remote-nodes.md` says that such an entry is
  ignored. `start_node_projection_worker` takes a worker that is about to end for a
  running one, and the Node then has none.
* Workspaces. A pending operation whose owner Workspace has changed its directory can
  neither complete nor be cancelled, and blocks `close` and `rename`. A project that is
  definitively refused stays pending, as it has been marked attempted; one that joined
  an equal pending project cannot be retried with its own IDs, only reconciled. A
  refusal of a *retry* (unknown identity, forgotten Node) cancels the operation though
  its first request may have been applied (`blind`, `unseen`). `docs/remote-nodes.md:161`
  says of an operation marked attempted: "Once set, later capability, registration,
  identity, owner-error, or exact-absence results retain the pending operation and
  Workspace name because they cannot disprove an earlier transport-ambiguous mutation";
  the code cancels it, so `NothingOrphaned` has to except it. `close` counts the
  `NotFound` of a forgotten registration as closed. `link` does not look at operations
  of other Workspaces, so an owner Workspace under creation can be linked elsewhere and
  its creation stays pending. Concurrent completions can move the mirrored owner
  revision backwards. A pending change of directory does not block `prepare_resource`
  and may then never complete; a retry of one cancels it when the owner has moved on by
  two revisions, although it was applied.

## 4. Proofs

`TransitionCoordinatorProofs` proves, for every finite set of Shells and every
bound, that `TypeOK`, `CapacityReserved` and `QueueReleased` hold in every
reachable state (`TypeCorrect`, `CapacityIsReserved`, `QueueIsReleased`).

Capacity is not inductive alone. `IInv` adds
`WriteShape` (which operation and phase a write belongs to, and that its `count`
is at least what it will publish), and `OpShape` (reservations exist only in
lifecycle phases and are large enough for the commit batch and for one exit per
Shell stopped so far; after an operation's own flush nothing is queued, which is
why `handle_attach` may call the bare `reserve(1)`). Each action has one lemma,
`NextStep` collects them, and `Invariance` concludes with PTL.

Assumption: `ConstantsAssumption` (finite Shells, the Workspace is not a Shell,
natural bounds), evaluated by TLC in every run.

`PublicationProofs` builds on that invariant and proves, for the same constants,
`PersistBeforePublish`, `PublishedOnce`, `RunOrder`, `PublishedCut` and the refinement of
`EventLedger` (`PersistedBeforePublished`, `AnnouncedOnce`, `RunsInOrder`,
`PublishesTheCut`, `RefinesLedger`):

* An event is *covered* by a registry that contains its effect. That a published event
  is on disk is not inductive: a write replaces the file by a generation captured
  earlier, and a rollback puts an older registry back into memory. `KInv` says that
  every registry that may still be saved or rolled back to covers what is published,
  queued and journalled (`GenKnows`, `UndoKnows`, `MemKnows`), where in its two phases a
  write is (`Saved`), and which operations may write to the journal (`Writers`).
* An event is new when it is made, because the registry in memory does not cover it yet.
  For exits and compensations this needs `LInv`: a run that goes on has not ended in the
  registry (`Running`), also in the one a rollback restores (`UndoRunning`), and what was
  admitted to be removed is still there (`TargetsLive`, `ExitsNew`). `Once` then says
  that no durable event is twice in the log, the queue and the batch under way.
* For the refinement, `Bounds` keeps events in the finite universe the ledger is
  instantiated with, and `Replayed` says that what is in the journal is what a restart
  replays. Each of the coordinator's steps is then a step of the ledger or a stutter:
  only the end of a write and the reader's publication append to the log, and what
  they append is on disk.
* The order of a run is about readers first. `Going` says that a reader reads only a
  run that goes on and was announced (`ReadersRun`, `RunsAnnounced`; the write of a start
  that is under way is the exception, and its readers are paused), that a rollback brings
  back announced runs and none that somebody still reads is lost (`UndoAnnounced`,
  `RunsBorn`), and that a removal is applied when the readers of all its Shells are
  stopped (`AllTargetsStopped`). `Ordered` then places what is not published yet:
  everything queued or written belongs to an announced run (`Opened`), no output comes
  after the exit of its run within a sequence (`Ends`) or from one to the next
  (`Before`), and the batch of a flush precedes the durable queue while the batch of an
  operation follows it. That an exit is not announced twice is `Once`.
* What is published describes the registry only between operations. `Cut` extends that
  to the rest: everything announced, queued or being written (`Told`) describes the
  registry in memory, and while a write is under way the rest without its batch (`Kept`)
  describes what a failure would put back, up to the exits which the compensation is
  going to tell (`CutMem`, `CutUndo`, over `Describes`). A step may then move events
  between the queue, the write and the log as it likes (`GoesOn`), and each operation
  answers only for its own events. It needs that an observed baseline finds nothing
  queued (`Observing`), that a removal takes all it claims to (`Selecting`), and that a
  start is of a live Shell that does not run (`Starting`). A registry under shutdown is
  described until the shutdown commits, because an abort goes back to it (`ShutsDown`).

`DirtyRevisionProofs` proves `TypeOK` and `EligibleOutsideWindows`. A history that
is newer than the state file must be traced through the write under way: the
inductive invariant says where each checkpoint is between its history, its
revision and its mark, relative to the revision the writer loaded.

`LocalShellJournalProofs` proves `AckedSurvives` and `RefusedStaysOut`, whichever calls
fail. `IInv` ties the call under way to the file (`CallShape`: at `sync` the record is in the file, at `rollback` the
prefix of the length remembered is a possible outcome, from `store` on everything
is covered) and to what clients were told (`Acknowledged`, `Excluded`). That memory
mirrors the file (`Mirrored`) is not among its parts, as a failed `sync_data` of
`clear_state` ends it. `OnlyClearSpoils` says what is true of it: it holds at first, it
implies `Loadable`, every other step keeps it, and a successful `clear_state` and every
boot bring it back.
`StartsBuildOnKept` proves `BuildsOnKept`. File and memory may differ: `Kept` says that a record in memory is in the file or in the stores,
whichever calls failed, so that a record which follows those in memory finds what it
builds on, in every content that a crash may leave (`Grounded`).

`HandoffProofs` proves, for any Shells, output and number of attempts,
`TypeOK`, `AtMostOneOwner`, `OneReader` and `NothingLost`, and `NeverOrphaned` without
`FinalTimeout`. Ownership needs `Dialogue`, which lists the bytes that can be under
way at each pair of steps; from it follows that `FINALIZE` is read only after it was
written. Output needs, on top, that the old readers are quiet from the spawn until a
rollback (`OldReaders`), that the new ones are gated until ownership (`NewReaders`),
and where the output is meanwhile (`Accounted`).

`HandoffReaders` and `HandoffStores` extend one conversation by variables of their own, so
`Dialogue` is proved once and serves both. `OldCreationsSurvive` proves `OldCreationsKept`
and `LateCheckpointAlone` proves `OnlyLateCheckpointLoses`, with requests served up to the
main loop, any number of failed handoffs and checkpoints at any time (`AckedDurable`
itself is violated, see the observations). `StoresInv` says what the memory of the old
daemon still answers for: it has in memory every record of the file, and those of its own
Shells only (`Believed`); all its Shells are in the state file or the journal (`Covered`);
and a replacement that has loaded the files holds all that they hold, with nothing left in
the journal (`Replayed`). The last is why an import, or a creation by the new owner, which both
overwrite the file, lose nothing, and why the late checkpoint, which writes a registry that
is not the latest, is the one step that may.

`NodeRegistrationProofs` proves, for any Nodes, targets, clients and bounds,
`RegistrationTypeOK`, `RouteDrained`, `UpgradeExclusive` and `LeaseKept`
(`RegistrationTyped`, `RoutesAreDrained`, `MaintenanceExcludes`, `LeasesAreKept`). The
invariant counts: the requests admitted under a registration's revision are at most
its `admitted`, so a count of zero under an unchanged revision means that none is in
flight; requests admitted before a rename are covered because the leaked reservation
keeps the count above zero. A held or waiting lease closes admission, and its
revision is the registration's.

The module also covers `NodeProjection`. `ProjectionIsRegistration` shows that every step
of the composition is a step of the registrations or leaves them alone, so all that was
proved of these holds with the workers beside them. On top it proves `TypeOK`,
`NotifiedOnce`, `NothingCrosses` and `DismissedStaysHidden` (`ProjectionTyped`,
`NotifiesOnce`, `MaintenanceDiscards`, `DismissalLasts`) from `ProjectionInv`:

* `Overlap`: if the admission of a Node closed since its worker observed the
  registration, either the revision or tombstone it observed is overtaken or the
  admission epoch it read is. It rests on `AdmissionStep`, proved of every action of
  `NodeRegistration`: a registration goes on under its revision and tombstone with an
  epoch that only grows, and grows when admission closes, or it is overtaken.
* `ClaimsKept`: what was notified since the claims were last discarded is among the
  claims kept (`Recorded`), so that a transition received again is not new. A commit
  under another stream or tombstone, and the removal of an entry, discard (`LivesMove`).
* `EmptyEntries`: an entry that was never committed has no claims and no dismissal.

Each step is classified once by what it does to the entry, the worker and `told`
(`EntryMoves`, `WorkerMoves`, `ToldMoves`), and the parts of the invariant follow from
these.

`AttachmentProofs` proves, for any clients and bounds, `DisplacedIsSilent`,
`QuietAtHandoff`, `PauseHolds`, `PauseEnds`, `NoCircularWait` and `Contiguous`
(`DisplacedSilent`, `QuietTransfer`, `PauseIsKept`, `PauseIsOver`, `NoneWaitInACircle`,
`NothingFallsBetween`). `AttachInv` serves the first two: `Locking` says which
places of a handler and of a restart or close hold which lock, and `Participants`
who may still be a participant at each of them, so that an installation finds no input
under way and a restart past its acknowledgements no attachment. `PauseInv` serves the
other two: it counts pauses, places the latest one (queued, in force under its own
number, or cancelled), and says why a sleeping reader will be woken.

For the circles, `Holders` says who can hold which lock at which place. The rest is an
order: whatever the reader waits for (a worker that takes from its queue, or a handler
that installs) waits for nobody; workers, a restart and a close wait for the reader only;
a handler waits for these or, at first, for another handler that is past that place. So
in every set of waiting threads one waits for none of the others. `FlowInv` serves `Contiguous`: a handler
between its response and the installation holds the terminal lock, so nothing is
processed meanwhile (`Screened`); what is appended to a queue is the next output or no
output at all; and a worker moves the head of its queue into its hand.

`GlobalWorkspaceProofs` proves, for any Workspaces, operations, Nodes and owners, that
`TypeOK`, `NothingOrphaned`, `OwnerShared`, `LinkedOnce`, `NamedOnce`, `ClosingIsQuiet`,
`MirrorHonest` and `ClosedIsGone` hold of `GlobalWorkspace`, and `MoveAccounted` of
`WorkspaceCwd`, which keeps all the former (`ChangedKeepsStore`). `GInv` consists of

* `Shapes`, which ties the store, a handler's place and the requests in flight;
* `OneLink`, the links by the placements alone;
* what was seen of owners that change by themselves: they only go ahead (`Ahead`), so
  whatever placements, handlers and closes remember of one is at or behind it, and the
  same at equal revisions (`PlacementsSeen`, `CallsSeen`, `ClosersSeen`);
* `Accounted`: a resource or a request in flight has an operation that answers for it
  (`Answers`), and an operation that never sent a request, or whose only request is in
  flight, has created nothing (`Unsent`, `Alone`). The latter is needed because the
  refusal of a first request cancels its operation.

What a step does to the Workspaces and the pending operations is stated once (`Effect`,
`WsEffect`, `PendEffect`, `Answering`), with one lemma per action, and each part of the
invariant follows from these. `MoveInv` says the same of changes of a directory: a guarded
request that an owner has passed by (`Superseded`) will be refused, and the first request
of an operation that is in flight has not been applied. `WorkspaceAssumption` names what
the code's optional fields give: `None` and `Gone` are not records of the store.

Only model-checked: liveness under fairness, which this prover cannot reason about
(`QueuedIsPublished`, `OperationEnds`, `HistorySaved`, `RestartEnds`, `OutputIsRead`).
Every safety property that a passing run checks is stated by a theorem, one of them under
the hypothesis that its run makes: `NeverOrphaned`, without `FinalTimeout`.

## 5. Plan

1. `TransitionCoordinator`, `EventLedger`, proofs of type, capacity and queue
   release: done.
2. `DirtyRevision` with proofs: done.
3. `LocalShellJournal` with proofs: done.
4. `HandoffProtocol`, `HandoffReaders`, `HandoffStores`, proofs of ownership and
   output: done.
5. `NodeRegistration`, `NodeProjection` with proofs: done.
6. `GlobalWorkspace`, `WorkspaceCwd` with proofs: done.
7. `EventStream`: cursors, retention, waiters, projection transitions.
8. `PtyReader`: done.
9. `Attachment` with proofs: done; the admission of connections is left.
10. `NodeIdentity`: leases and rekey.
11. Agent registry, claims and holders.
12. Proofs of `PublishedOnce`, `PersistBeforePublish`, `RunOrder`, `PublishedCut` and the
    refinement over the coordinator, of the properties of `NodeProjection` and of
    what handoffs keep in the stores: done. Left: nothing a run checks but liveness.

## 6. Not modelled

Presentation (CLI, dashboard, desktop rendering, web pages), the VT parser, host
session catalogs, git inspection and operating-system wrappers keep no shared
state the properties are about. Schema migrations are data transformations.
`vendor/`, `poc/`, `website/` and `examples/` are not part of the program.

Of the components that are modelled: the trimming of notification claims and their
digests, a Shell that an owner's projection lacks for a while and shows again (a close is for
good here); a project requested again under a Workspace ID that was closed
(the code compares with the live ones only); a projection worker that ends on an unreadable cache or is stopped around a
failed handoff (a restart of the daemon has the same effects and more); the limits and
the compaction of the coordinator store (`MAX_PENDING_RESOURCES`,
`MAX_COMPLETED_OPERATIONS`), its legacy migrations, `initialize_local_once` and opening a
global Workspace; the focus of a client, attachments to a run that has exited (they only
return its last screen) and the attach client (`src/attach.rs`), whose part in the
model is to acknowledge or to leave.
