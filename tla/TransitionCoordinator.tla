------------------------ MODULE TransitionCoordinator ------------------------
(***************************************************************************)
(* The daemon's transition coordinator (src/daemon.rs): the in-memory      *)
(* registry, the state file and the local-Shell journal it is persisted    *)
(* to, and the event stream that announces what was persisted.             *)
(*                                                                         *)
(* `mutation_lock' serialises every durable operation, so one variable,    *)
(* op, holds the operation that owns it.  `persist_lock' is held from the  *)
(* capture of a generation to the end of its write; io is that write.  The *)
(* background retry takes only the second lock.  The transition and event  *)
(* locks are released while a generation is being written, and PTY readers *)
(* then queue their runtime events behind it.                              *)
(***************************************************************************)
EXTENDS Integers, Sequences, FiniteSets, Functions

CONSTANTS
  Shells,         \* Shell identities (UUIDs, never reused)
  Workspace,      \* the Workspace the Shells belong to
  MaxEventId,     \* largest event ID: u64::MAX in the code
  MaxRevision,    \* bound on renames of one entity
  MaxGeneration,  \* bound on runs of one Shell
  OutputBound,    \* bound on the log for output publication
  MaxCrashes,     \* bound on daemon crashes
  LocalCreates    \* whether Shells are also created through the journal

ASSUME ConstantsAssumption ==
  /\ IsFiniteSet(Shells)
  /\ Workspace \notin Shells
  /\ MaxEventId \in Nat /\ MaxRevision \in Nat /\ MaxGeneration \in Nat
  /\ OutputBound \in Nat /\ MaxCrashes \in Nat /\ LocalCreates \in BOOLEAN

VARIABLES
  mem,            \* durable registry in memory: Entities -> Record
  life,           \* ShellLifecycle of every Shell
  reader,         \* PTY reader thread of every Shell
  exits,          \* runs whose reader ended and whose exit is to be recorded
  disk,           \* the state file: the last generation saved
  journal,        \* records of the local-Shell journal
  dirty,          \* persistence_dirty
  stopping,       \* ShellRuntimeManager.stopping
  log,            \* events published on this stream, in ID order
  base,           \* the registry when this stream began
  pendingDurable, \* TransitionState.pending_durable_events, flattened
  pendingRuntime, \* TransitionState.pending_runtime_events
  reservation,    \* TransitionState.lifecycle_event_reservation
  op,             \* the holder of mutation_lock
  io,             \* the write that holds persist_lock
  crashes         \* daemon crashes so far

shells == <<life, reader, exits>>
stream == <<log, base, pendingDurable, pendingRuntime, reservation>>
vars == <<mem, life, reader, exits, disk, journal, dirty, stopping, log, base,
          pendingDurable, pendingRuntime, reservation, op, io, crashes>>

-----------------------------------------------------------------------------
(* Values.                                                                 *)

Entities == Shells \cup {Workspace}

\* What the state file keeps of an entity.  An entity absent from the file is
\* "unborn" before its creation and "gone" after its removal.
Record == [status : {"unborn", "live", "gone"}, rev : Nat, gen : Nat,
           run : {"none", "active", "ended", "interrupted"}]

\* Pending, Running, Exited and Closed are the code's; "none": no such Shell.
Lifecycles == {"none", "pending", "running", "exited", "closed"}

Readers == {"none", "paused", "reading"}

DurableKinds == {"Created", "Renamed", "Closed", "RunStarted", "RunExited"}
Event == [kind : DurableKinds \cup {"OutputChanged"}, of : Entities, n : Nat]
Evt(kind, e, n) == [kind |-> kind, of |-> e, n |-> n]

OpKinds == {"none", "mutate", "local", "close", "closeWorkspace", "shutdown",
            "exit", "start", "recover", "baseline", "checkpoint"}
Lifecycle == {"close", "closeWorkspace", "shutdown"}
Phases == {"checkpoint", "admit", "stop", "flush",
           "apply", "commit", "observe", "abort"}
Op == [kind : OpKinds, phase : Phases, targets : SUBSET Entities,
       stopped : SUBSET Shells, undo : [Entities -> Record],
       undoLife : [Shells -> Lifecycles]]

IOKinds == {"none", "flush", "commit", "journal", "fallback", "checkpoint"}
IO == [kind : IOKinds, phase : {"saving", "saved", "failed"},
       gen : [Entities -> Record], clean : BOOLEAN, batch : Seq(Event),
       count : Nat, background : BOOLEAN]

Blank == [e \in Entities |->
            [status |-> "unborn", rev |-> 0, gen |-> 0, run |-> "none"]]
NoOp == [kind |-> "none", phase |-> "admit", targets |-> {}, stopped |-> {},
         undo |-> Blank, undoLife |-> [s \in Shells |-> "none"]]
NoIO == [kind |-> "none", phase |-> "saving", gen |-> Blank, clean |-> TRUE,
         batch |-> <<>>, count |-> 0, background |-> FALSE]

-----------------------------------------------------------------------------
(* EventStream and TransitionState.                                        *)

\* persistence_in_flight: between begin_persistence and finish_persistence.  A
\* journal checkpoint writes the state file without it.
InFlight == io.kind \in {"flush", "commit", "journal", "fallback"}

\* TransitionState::publication_blocked
Blocked == InFlight \/ pendingDurable # <<>> \/ reservation # 0

\* TransitionState::reserved_event_count
Reserved == io.count + Len(pendingDurable) + Len(pendingRuntime) + reservation

\* EventStream::ensure_capacity and EventTransaction::reserve_with_pending
EnsureCapacity(n) == Len(log) + n <= MaxEventId
ReserveWithPending(n) == EnsureCapacity(Reserved + n)

\* TransitionState::queue_runtime_event: a newer OutputChanged of the same run
\* replaces the queued one and goes to the back.
QueueRuntime(q, e) ==
  IF \E i \in DOMAIN q : q[i] = e
  THEN LET i == CHOOSE i \in DOMAIN q : q[i] = e
       IN  Append(SubSeq(q, 1, i - 1) \o SubSeq(q, i + 1, Len(q)), e)
  ELSE Append(q, e)

\* Variant: the reservation is tested before it is released.
SettleStaleReservation(batch, durable, runtime, held, busy) ==
  /\ pendingDurable' = durable
  /\ reservation' = held
  /\ IF busy \/ durable # <<>> \/ reservation # 0
     THEN log' = log \o batch /\ pendingRuntime' = runtime
     ELSE log' = log \o batch \o runtime /\ pendingRuntime' = <<>>
  /\ UNCHANGED base

\* append_batch followed by release_lifecycle_reservation or finish_persistence:
\* the batch is published, then the runtime queue if nothing blocks it any more.
Settle(batch, durable, runtime, held, busy) ==
  /\ pendingDurable' = durable
  /\ reservation' = held
  /\ IF busy \/ durable # <<>> \/ held # 0
     THEN log' = log \o batch /\ pendingRuntime' = runtime
     ELSE log' = log \o batch \o runtime /\ pendingRuntime' = <<>>
  /\ UNCHANGED base

-----------------------------------------------------------------------------
(* Persistence: PersistenceWriter, capture_persisted_state and             *)
(* write_persisted_state.                                                  *)

\* mark_persistence_dirty: the revision moves, so a generation captured before
\* does not clear the flag.
Touched == IF io.kind = "none" THEN io ELSE [io EXCEPT !.clean = FALSE]

\* begin_persistence over the generation g.
BeginWrite(kind, g, batch, count, background) ==
  io' = [kind |-> kind, phase |-> "saving", gen |-> g, clean |-> TRUE,
         batch |-> batch, count |-> count, background |-> background]

\* StateStore::save succeeds: the rename is the commit point.  A start that fell
\* back to the state file then checkpoints the coordinator store and resets the
\* journal.
SaveSucceeds ==
  /\ io.kind \in {"flush", "commit", "checkpoint", "fallback"}
  /\ io.phase = "saving"
  /\ disk' = io.gen
  /\ dirty' = (dirty /\ ~io.clean)
  /\ journal' = IF io.kind = "fallback" THEN {} ELSE journal
  /\ io' = [io EXCEPT !.phase = "saved"]
  /\ UNCHANGED <<mem, shells, stopping, stream, op, crashes>>

\* Variant: the failed write does not set persistence_dirty.
SaveFailsStaysClean ==
  /\ io.kind \in {"flush", "commit", "checkpoint", "fallback"}
  /\ io.phase = "saving"
  /\ io' = [io EXCEPT !.phase = "failed"]
  /\ UNCHANGED <<mem, shells, disk, journal, dirty, stopping, stream, op, crashes>>

\* StateStore::save fails and leaves the previous file.
SaveFails ==
  /\ io.kind \in {"flush", "commit", "checkpoint", "fallback"}
  /\ io.phase = "saving"
  /\ dirty' = TRUE
  /\ io' = [io EXCEPT !.phase = "failed"]
  /\ UNCHANGED <<mem, shells, disk, journal, stopping, stream, op, crashes>>

\* The fallback's state file is written but the coordinator checkpoint or the
\* journal reset after it fails.
FallbackResetFails ==
  /\ io.kind = "fallback" /\ io.phase = "saving"
  /\ disk' = io.gen
  /\ dirty' = (dirty /\ ~io.clean)
  /\ io' = [io EXCEPT !.phase = "failed"]
  /\ UNCHANGED <<mem, shells, journal, stopping, stream, op, crashes>>

\* LocalShellJournal::append: the batch of a local creation or start becomes
\* durable in the journal instead of the state file.
AppendSucceeds ==
  /\ io.kind = "journal" /\ io.phase = "saving"
  /\ journal' = journal \cup Range(io.batch)
  /\ io' = [io EXCEPT !.phase = "saved"]
  /\ UNCHANGED <<mem, shells, disk, dirty, stopping, stream, op, crashes>>

\* A failed append is rolled back.  A start falls back to the state file, a
\* creation fails.
AppendFails ==
  /\ io.kind = "journal" /\ io.phase = "saving"
  /\ io' = IF op.kind = "start" THEN [io EXCEPT !.kind = "fallback"]
           ELSE [io EXCEPT !.phase = "failed"]
  /\ UNCHANGED <<mem, shells, disk, journal, dirty, stopping, stream, op,
                 crashes>>

-----------------------------------------------------------------------------
(* flush_pending, by the background retry or inside an operation.          *)

\* Variant: the queued batches are copied instead of taken.
BeginFlushCopies(background) ==
  /\ io.kind = "none"
  /\ BeginWrite("flush", mem, pendingDurable, Len(pendingDurable), background)
  /\ UNCHANGED <<mem, shells, disk, journal, dirty, stopping, stream, op, crashes>>

BeginFlush(background) ==
  /\ io.kind = "none"
  /\ BeginWrite("flush", mem, pendingDurable, Len(pendingDurable), background)
  /\ pendingDurable' = <<>>
  /\ UNCHANGED <<mem, shells, disk, journal, dirty, stopping, log, base,
                 pendingRuntime, reservation, op, crashes>>

\* run_daemon's loop retries while persistence_dirty is set.
BackgroundFlush == dirty /\ BeginFlush(TRUE)

\* What follows an operation's own flush.
AfterFlush == IF op.kind = "baseline" THEN "observe" ELSE "apply"

OpFlush ==
  /\ op.phase = "flush"
  /\ IF pendingDurable # <<>> \/ dirty
     THEN BeginFlush(FALSE)
     ELSE /\ io.kind = "none"
          /\ op' = [op EXCEPT !.phase = AfterFlush]
          /\ UNCHANGED <<mem, shells, disk, journal, dirty, stopping, stream,
                         io, crashes>>

FinishFlush ==
  /\ io.kind = "flush" /\ io.phase = "saved"
  /\ Settle(io.batch, pendingDurable, pendingRuntime, reservation, FALSE)
  /\ io' = NoIO
  /\ op' = IF io.background THEN op ELSE [op EXCEPT !.phase = AfterFlush]
  /\ UNCHANGED <<mem, shells, disk, journal, dirty, stopping, crashes>>

\* The batches taken go back to the front of the queue.
FlushFailed ==
  /\ io.kind = "flush" /\ io.phase = "failed"
  /\ Settle(<<>>, io.batch \o pendingDurable, pendingRuntime, reservation, FALSE)
  /\ io' = NoIO
  /\ op' = IF io.background THEN op
           ELSE IF op.kind \in Lifecycle THEN [op EXCEPT !.phase = "abort"]
           ELSE NoOp
  /\ UNCHANGED <<mem, shells, disk, journal, dirty, stopping, crashes>>

-----------------------------------------------------------------------------
(* checkpoint_local_shell_transactions_with_mutation: the state file, the  *)
(* coordinator store, then the journal is cleared.  It is an operation of  *)
(* its own and the first step of most others.                              *)

WriteCheckpoint ==
  /\ op.phase = "checkpoint" /\ journal # {} /\ io.kind = "none"
  /\ BeginWrite("checkpoint", mem, <<>>, 0, FALSE)
  /\ UNCHANGED <<mem, shells, disk, journal, dirty, stopping, stream, op, crashes>>

SkipCheckpoint ==
  /\ op.phase = "checkpoint" /\ journal = {}
  /\ op' = IF op.kind = "checkpoint" THEN NoOp ELSE [op EXCEPT !.phase = "admit"]
  /\ UNCHANGED <<mem, shells, disk, journal, dirty, stopping, stream, io, crashes>>

FinishCheckpoint ==
  /\ io.kind = "checkpoint" /\ io.phase = "saved"
  /\ io' = NoIO
  /\ journal' = {}
  /\ op' = IF op.kind = "checkpoint" THEN NoOp ELSE [op EXCEPT !.phase = "admit"]
  /\ UNCHANGED <<mem, shells, disk, dirty, stopping, stream, crashes>>

\* Variant: the journal is cleared whether or not the state file was written.
CheckpointFailedClears ==
  /\ io.kind = "checkpoint" /\ io.phase \in {"saved", "failed"}
  /\ io' = NoIO
  /\ journal' = {}
  /\ op' = NoOp
  /\ UNCHANGED <<mem, shells, disk, dirty, stopping, stream, crashes>>

\* The state write, the coordinator store's or the clearing fails: the journal
\* keeps its records and the operation is refused.
CheckpointFailed ==
  /\ io.kind = "checkpoint" /\ io.phase \in {"saved", "failed"}
  /\ io' = NoIO
  /\ op' = NoOp
  /\ UNCHANGED <<mem, shells, disk, journal, dirty, stopping, stream, crashes>>

-----------------------------------------------------------------------------
(* Operations that own mutation_lock.                                      *)

Begin(kind, phase, targets) ==
  /\ op.kind = "none"
  /\ op' = [NoOp EXCEPT !.kind = kind, !.phase = phase, !.targets = targets]

\* Operations that begin and change nothing else.
Quiet == UNCHANGED <<mem, shells, disk, journal, dirty, stopping, stream, io, crashes>>

BeginMutation(e) == Begin("mutate", "checkpoint", {e}) /\ Quiet
BeginLocalCreate(s) ==
  LocalCreates /\ ~stopping /\ Begin("local", "flush", {s}) /\ Quiet
BeginClose(s) == Begin("close", "checkpoint", {s}) /\ Quiet
BeginCloseWorkspace ==
  Begin("closeWorkspace", "checkpoint", {Workspace}) /\ Quiet
BeginShutdown == Begin("shutdown", "checkpoint", {}) /\ Quiet
BeginRecover(S) == Begin("recover", "checkpoint", S) /\ Quiet
BeginBaseline == Begin("baseline", "flush", {}) /\ Quiet
BeginCheckpoint == journal # {} /\ Begin("checkpoint", "checkpoint", {}) /\ Quiet

\* read_events without a cursor: the snapshot and the cursor are taken together.
ObserveBaseline == op.phase = "observe" /\ op' = NoOp /\ Quiet

\* ensure_running
AdmitMutation ==
  /\ op.kind \in {"mutate", "recover"} /\ op.phase = "admit"
  /\ op' = IF stopping THEN NoOp ELSE [op EXCEPT !.phase = "flush"]
  /\ Quiet

Live(e) == mem[e].status = "live"

\* The creation of a Shell or the rename of an entity.
Creates(e) == e \in Shells /\ mem[e].status = "unborn" /\ Live(Workspace)
Renames(e) == Live(e) /\ mem[e].rev < MaxRevision
Mutated(e) == IF Creates(e) THEN [mem EXCEPT ![e].status = "live"]
              ELSE [mem EXCEPT ![e].rev = @ + 1]
MutationEvents(e) == IF Creates(e) THEN <<Evt("Created", e, 0)>>
                     ELSE <<Evt("Renamed", e, mem[e].rev + 1)>>

\* durable_mutation_outcome and create_local_global_workspace_shell after their
\* flush: the operation is applied, the generation captured, the write begins.
ApplyMutation(e) ==
  /\ op.kind \in {"mutate", "local"} /\ op.phase = "apply" /\ e \in op.targets
  /\ io.kind = "none"
  /\ IF /\ IF op.kind = "local" THEN Creates(e) ELSE Creates(e) \/ Renames(e)
        /\ ReserveWithPending(1)
     THEN /\ mem' = Mutated(e)
          /\ life' = IF Creates(e) THEN [life EXCEPT ![e] = "pending"] ELSE life
          /\ BeginWrite(IF op.kind = "local" THEN "journal" ELSE "commit",
                        Mutated(e), MutationEvents(e), 1, FALSE)
          /\ op' = [op EXCEPT !.phase = "commit", !.undo = mem, !.undoLife = life]
     ELSE op' = NoOp /\ UNCHANGED <<mem, life, io>>
  /\ UNCHANGED <<reader, exits, disk, journal, dirty, stopping, stream, crashes>>

FinishMutation ==
  /\ op.kind \in {"mutate", "local"} /\ op.phase = "commit" /\ io.phase = "saved"
  /\ Settle(io.batch, pendingDurable, pendingRuntime, reservation, FALSE)
  /\ op' = NoOp /\ io' = NoIO
  /\ UNCHANGED <<mem, shells, disk, journal, dirty, stopping, crashes>>

\* Variant: the change stays in memory when its write failed.
MutationFailedKeeps ==
  /\ op.kind \in {"mutate", "local"} /\ op.phase = "commit" /\ io.phase = "failed"
  /\ Settle(<<>>, pendingDurable, pendingRuntime, reservation, FALSE)
  /\ op' = NoOp /\ io' = NoIO
  /\ UNCHANGED <<mem, shells, disk, journal, dirty, stopping, crashes>>

\* DurableUndoLog::rollback
MutationFailed ==
  /\ op.kind \in {"mutate", "local"} /\ op.phase = "commit" /\ io.phase = "failed"
  /\ mem' = op.undo /\ life' = op.undoLife
  /\ Settle(<<>>, pendingDurable, pendingRuntime, reservation, FALSE)
  /\ op' = NoOp /\ io' = NoIO
  /\ UNCHANGED <<reader, exits, disk, journal, dirty, stopping, crashes>>

-----------------------------------------------------------------------------
(* Runs: handle_attach and recover_shells start them, try_record_run_exit  *)
(* records their exit.                                                     *)

Started(S) == [e \in Entities |-> IF e \in S
                 THEN [mem[e] EXCEPT !.gen = @ + 1, !.run = "active"] ELSE mem[e]]
Ended(m, S) == [e \in Entities |-> IF e \in S
                  THEN [m[e] EXCEPT !.run = "ended"] ELSE m[e]]
SetAll(f, S, v) == [s \in Shells |-> IF s \in S THEN v ELSE f[s]]

\* The elements of a finite set in some order.
Listed(S) == CHOOSE f \in [1..Cardinality(S) -> S] : IsInjective(f)
RunEvents(kind, S, m) ==
  [i \in 1..Cardinality(S) |-> Evt(kind, Listed(S)[i], m[Listed(S)[i]].gen)]

\* handle_attach of a Shell that needs a start, and the reset of an exited
\* Shell by restart_exited before the flush.
BeginStart(s) ==
  /\ ~stopping /\ Live(s) /\ life[s] \in {"pending", "exited"}
  /\ mem[s].gen < MaxGeneration
  /\ Begin("start", "flush", {s})
  /\ life' = [life EXCEPT ![s] = "pending"]
  /\ UNCHANGED <<mem, reader, exits, disk, journal, dirty, stopping, stream, io, crashes>>

\* restart_shell
RestartShell(s) ==
  /\ op.kind = "none" /\ ~stopping /\ Live(s) /\ life[s] = "exited"
  /\ life' = [life EXCEPT ![s] = "pending"]
  /\ UNCHANGED <<mem, reader, exits, disk, journal, dirty, stopping, stream, op,
                 io, crashes>>

\* The run is spawned with a paused reader.  Capacity is checked with
\* reserve(1): nothing is pending after the flush.
ApplyStart(s) ==
  /\ op.kind = "start" /\ op.phase = "apply" /\ s \in op.targets
  /\ io.kind = "none" /\ EnsureCapacity(1)
  /\ mem' = Started({s})
  /\ life' = [life EXCEPT ![s] = "running"]
  /\ reader' = [reader EXCEPT ![s] = "paused"]
  /\ BeginWrite(IF Evt("Created", s, 0) \in journal THEN "journal" ELSE "commit",
                Started({s}), RunEvents("RunStarted", {s}, Started({s})), 1, FALSE)
  /\ op' = [op EXCEPT !.phase = "commit"]
  /\ UNCHANGED <<exits, disk, journal, dirty, stopping, stream, crashes>>

\* The event IDs are exhausted or the process cannot be spawned.
StartRefused ==
  /\ op.kind = "start" /\ op.phase = "apply" /\ io.kind = "none"
  /\ op' = NoOp
  /\ Quiet

\* Up to four interrupted Shells are started together; those that are not
\* eligible or cannot be spawned are reported as unavailable.
Recoverable(s) == Live(s) /\ life[s] = "pending" /\ mem[s].run = "interrupted"
ApplyRecover(S) ==
  /\ op.kind = "recover" /\ op.phase = "apply" /\ io.kind = "none"
  /\ S \in SUBSET {s \in op.targets :
                     Recoverable(s) /\ mem[s].gen < MaxGeneration}
  /\ IF S # {} /\ ReserveWithPending(Cardinality(op.targets))
     THEN /\ mem' = Started(S)
          /\ life' = SetAll(life, S, "running")
          /\ reader' = SetAll(reader, S, "paused")
          /\ BeginWrite("commit", Started(S), RunEvents("RunStarted", S, Started(S)),
                        Cardinality(S), FALSE)
          /\ op' = [op EXCEPT !.phase = "commit", !.targets = S, !.undo = mem]
     ELSE op' = NoOp /\ UNCHANGED <<mem, life, reader, io>>
  /\ UNCHANGED <<exits, disk, journal, dirty, stopping, stream, crashes>>

\* RunStarted is published, then the readers are resumed.
FinishStart ==
  /\ op.kind \in {"start", "recover"} /\ op.phase = "commit" /\ io.phase = "saved"
  /\ Settle(io.batch, pendingDurable, pendingRuntime, reservation, FALSE)
  /\ reader' = SetAll(reader, op.targets, "reading")
  /\ op' = NoOp /\ io' = NoIO
  /\ UNCHANGED <<mem, life, exits, disk, journal, dirty, stopping, crashes>>

\* The process is killed.  An attach keeps the terminated run as the last run,
\* rollback_recovery restores the interrupted one.
StartFailed ==
  /\ op.kind \in {"start", "recover"} /\ op.phase = "commit" /\ io.phase = "failed"
  /\ mem' = IF op.kind = "start" THEN Ended(mem, op.targets) ELSE op.undo
  /\ life' = SetAll(life, op.targets, "pending")
  /\ reader' = SetAll(reader, op.targets, "none")
  /\ Settle(<<>>, pendingDurable, pendingRuntime, reservation, FALSE)
  /\ op' = NoOp /\ io' = NoIO
  /\ UNCHANGED <<exits, disk, journal, dirty, stopping, crashes>>

\* publish_pending_output of a reading thread, through publish_runtime_batch.
PublishOutput(s) ==
  LET e == Evt("OutputChanged", s, mem[s].gen) IN
  /\ reader[s] = "reading"
  /\ ReserveWithPending(1)
  /\ Len(log) + Len(pendingRuntime) < OutputBound
  /\ IF Blocked
     THEN pendingRuntime' = QueueRuntime(pendingRuntime, e) /\ UNCHANGED log
     ELSE log' = Append(log, e) /\ UNCHANGED pendingRuntime
  /\ UNCHANGED <<mem, shells, disk, journal, dirty, stopping, base, pendingDurable,
                 reservation, op, io, crashes>>

\* The event IDs are exhausted: the reader thread ends with the error.
OutputRefused(s) ==
  /\ reader[s] = "reading" /\ ~ReserveWithPending(1)
  /\ reader' = [reader EXCEPT ![s] = "none"]
  /\ UNCHANGED <<mem, life, exits, disk, journal, dirty, stopping, stream, op, io,
                 crashes>>

\* checkpoint_terminal_history
CheckpointHistory(s) ==
  /\ reader[s] = "reading"
  /\ dirty' = TRUE /\ io' = Touched
  /\ UNCHANGED <<mem, shells, disk, journal, stopping, stream, op, crashes>>

\* The process exited: the reader leaves its loop, its output published, and
\* keeps trying to record the exit until mutation_lock is free.
ProcessExits(s) ==
  /\ reader[s] = "reading"
  /\ reader' = [reader EXCEPT ![s] = "none"]
  /\ exits' = exits \cup {<<s, mem[s].gen>>}
  /\ UNCHANGED <<mem, life, disk, journal, dirty, stopping, stream, op, io, crashes>>

\* run_exit_is_current
Current(s, g) == life[s] = "running" /\ mem[s].gen = g

\* try_record_run_exit up to persist_lock; a run that is not current any more is
\* left unchanged.
BeginExit(s, g) ==
  /\ <<s, g>> \in exits /\ op.kind = "none"
  /\ IF Current(s, g)
     THEN /\ Begin("exit", "apply", {s}) /\ UNCHANGED exits
     ELSE /\ exits' = exits \ {<<s, g>>} /\ UNCHANGED op
  /\ UNCHANGED <<mem, life, reader, disk, journal, dirty, stopping, stream, io, crashes>>

ApplyExit(s) ==
  LET batch == pendingRuntime \o <<Evt("RunExited", s, mem[s].gen)>> IN
  /\ op.kind = "exit" /\ op.phase = "apply" /\ s \in op.targets /\ io.kind = "none"
  /\ exits' = exits \ {<<s, mem[s].gen>>}
  /\ IF ReserveWithPending(1)
     THEN /\ mem' = Ended(mem, {s})
          /\ life' = [life EXCEPT ![s] = "exited"]
          /\ pendingRuntime' = <<>>
          /\ BeginWrite("commit", Ended(mem, {s}), batch,
                        Len(pendingDurable) + Len(batch), FALSE)
          /\ op' = [op EXCEPT !.phase = "commit"]
     ELSE op' = NoOp /\ UNCHANGED <<mem, life, pendingRuntime, io>>
  /\ UNCHANGED <<reader, disk, journal, dirty, stopping, log, base, pendingDurable,
                 reservation, crashes>>

FinishExit ==
  /\ op.kind = "exit" /\ op.phase = "commit" /\ io.phase = "saved"
  /\ Settle(pendingDurable \o io.batch, <<>>, pendingRuntime, reservation, FALSE)
  /\ op' = NoOp /\ io' = NoIO
  /\ UNCHANGED <<mem, shells, disk, journal, dirty, stopping, crashes>>

\* The exit stays recorded in memory and its batch is queued.
ExitFailed ==
  /\ op.kind = "exit" /\ op.phase = "commit" /\ io.phase = "failed"
  /\ Settle(<<>>, pendingDurable \o io.batch, pendingRuntime, reservation, FALSE)
  /\ op' = NoOp /\ io' = NoIO
  /\ UNCHANGED <<mem, shells, disk, journal, dirty, stopping, crashes>>

-----------------------------------------------------------------------------
(* lifecycle_transaction: Shell close, Workspace close and shutdown.       *)

Max2(a, b) == IF a >= b THEN a ELSE b

\* What select_shells returns, and whether the operation's entity exists.
Selected ==
  CASE op.kind = "close" -> op.targets
    [] OTHER -> {s \in Shells : Live(s)}
Selectable == \A e \in op.targets : Live(e)

CommittedEvents ==
  CASE op.kind = "shutdown" -> <<>>
    [] op.kind = "closeWorkspace" -> <<Evt("Closed", Workspace, 0)>>
    [] OTHER -> <<Evt("Closed", CHOOSE s \in op.targets : TRUE, 0)>>

\* Variant: room for the commit batch only.
CapacityOfCommit(S) == Len(CommittedEvents)

\* Room for the commit batch or for one RunExited per Shell.
LifecycleCapacity(S) == Max2(Len(CommittedEvents), Cardinality(S))

AdmitLifecycle ==
  /\ op.kind \in Lifecycle /\ op.phase = "admit"
  /\ IF ~stopping /\ Selectable /\ ReserveWithPending(LifecycleCapacity(Selected))
     THEN /\ stopping' = (op.kind = "shutdown")
          /\ reservation' = LifecycleCapacity(Selected)
          /\ op' = [op EXCEPT !.phase = "stop", !.targets = Selected]
     ELSE op' = NoOp /\ UNCHANGED <<stopping, reservation>>
  /\ UNCHANGED <<mem, shells, disk, journal, dirty, log, base, pendingDurable,
                 pendingRuntime, io, crashes>>

\* stop_runtime: the participants are cut off, the reader paused, the session
\* killed and the reader stopped.
StopRuntime(s) ==
  /\ op.phase = "stop" /\ s \in op.targets \ op.stopped
  /\ reader' = [reader EXCEPT ![s] = "none"]
  /\ op' = [op EXCEPT !.stopped = @ \cup {s}]
  /\ UNCHANGED <<mem, life, exits, disk, journal, dirty, stopping, stream, io, crashes>>

\* The runtime does not stop and its reader is resumed, or it is stopped but its
\* descendants or its reader are not.
StopFails(s) ==
  /\ op.phase = "stop" /\ s \in op.targets \ op.stopped
  /\ life[s] \in {"running", "exited"}
  /\ \E stopped \in BOOLEAN :
       /\ reader' = IF stopped THEN [reader EXCEPT ![s] = "none"] ELSE reader
       /\ op' = [op EXCEPT !.phase = "abort",
                           !.stopped = IF stopped THEN @ \cup {s} ELSE @]
  /\ UNCHANGED <<mem, life, exits, disk, journal, dirty, stopping, stream, io, crashes>>

\* Variant: the operation waits until the exits of the stopped runs are recorded.
AllStoppedAndRecorded ==
  /\ op.phase = "stop" /\ op.targets = op.stopped /\ exits = {}
  /\ op' = [op EXCEPT !.phase = "flush"]
  /\ Quiet

AllStopped ==
  /\ op.phase = "stop" /\ op.targets = op.stopped
  /\ op' = [op EXCEPT !.phase = "flush"]
  /\ Quiet

\* Variant: the exits overtake the output that was queued before them.
CompensationFirst(S, m) == RunEvents("RunExited", S, m) \o pendingRuntime

\* compensate_stopped and restore_finalized: a RunExited for every running Shell
\* that was stopped joins the queued runtime events in one durable batch.
Compensation(S, m) == pendingRuntime \o RunEvents("RunExited", S, m)
CancelStopping == stopping' = (stopping /\ op.kind # "shutdown")

AbortLifecycle ==
  LET killed == {s \in op.stopped : life[s] = "running"}
      batch == Compensation(killed, mem)
  IN
  /\ op.phase = "abort"
  /\ mem' = Ended(mem, killed)
  /\ life' = SetAll(life, killed, "pending")
  /\ Settle(<<>>, pendingDurable \o batch, <<>>, 0, InFlight)
  /\ dirty' = (dirty \/ batch # <<>>)
  /\ io' = IF batch # <<>> THEN Touched ELSE io
  /\ CancelStopping
  /\ op' = NoOp
  /\ UNCHANGED <<reader, exits, disk, journal, crashes>>

\* finalize_stop of every Shell, the removal, and the generation captured.  The
\* reservation beyond the commit batch is kept for a compensation.
Removed(m) == [e \in Entities |->
  IF op.kind # "shutdown" /\ (e \in op.targets \/ (op.kind = "closeWorkspace"
                                                     /\ e = Workspace))
  THEN [m[e] EXCEPT !.status = "gone"] ELSE m[e]]

ApplyLifecycle ==
  LET killed == {s \in op.targets : life[s] = "running"}
      events == CommittedEvents
      ended == Ended(mem, killed)
  IN
  /\ op.kind \in Lifecycle /\ op.phase = "apply" /\ io.kind = "none"
  /\ mem' = Removed(ended)
  /\ life' = SetAll(life, op.targets, "closed")
  /\ BeginWrite("commit", Removed(ended), events, Len(events), FALSE)
  /\ reservation' = reservation - Len(events)
  /\ op' = [op EXCEPT !.phase = "commit", !.stopped = killed, !.undo = ended,
                      !.undoLife = SetAll(life, killed, "pending")]
  /\ UNCHANGED <<reader, exits, disk, journal, dirty, stopping, log, base,
                 pendingDurable, pendingRuntime, crashes>>

FinishLifecycle ==
  /\ op.kind \in Lifecycle /\ op.phase = "commit" /\ io.phase = "saved"
  /\ Settle(io.batch, pendingDurable, pendingRuntime, 0, FALSE)
  /\ op' = NoOp /\ io' = NoIO
  /\ UNCHANGED <<mem, shells, disk, journal, dirty, stopping, crashes>>

LifecycleFailed ==
  /\ op.kind \in Lifecycle /\ op.phase = "commit" /\ io.phase = "failed"
  /\ mem' = op.undo /\ life' = op.undoLife
  /\ Settle(<<>>, pendingDurable \o Compensation(op.stopped, op.undo), <<>>, 0, FALSE)
  /\ CancelStopping
  /\ op' = NoOp /\ io' = NoIO
  /\ UNCHANGED <<reader, exits, disk, journal, dirty, crashes>>

-----------------------------------------------------------------------------
(* Crash and cold start: restore and replay_local_shell_transactions.      *)

\* The last start the journal records of a Shell, if any.
LastStarts(e) == {x \in journal : x.kind = "RunStarted" /\ x.of = e /\
                    \A y \in journal : y.kind = x.kind /\ y.of = e => y.n <= x.n}
LastStart(e) == CHOOSE x \in LastStarts(e) : TRUE

\* Variant: the state file alone is restored.
RecoveredFromFile == [e \in Entities |->
  IF disk[e].run = "active" THEN [disk[e] EXCEPT !.run = "interrupted"] ELSE disk[e]]

\* Creations are replayed first, then the latest start of every Shell; a run
\* that has not ended is interrupted.
Recovered == [e \in Entities |->
  LET saved == disk[e]
      born == IF Evt("Created", e, 0) \in journal /\ saved.status = "unborn"
              THEN [saved EXCEPT !.status = "live"] ELSE saved
      newer == LastStarts(e) # {} /\ LastStart(e).n > saved.gen
  IN  IF newer THEN [born EXCEPT !.gen = LastStart(e).n, !.run = "interrupted"]
      ELSE IF born.run = "active" THEN [born EXCEPT !.run = "interrupted"]
      ELSE born]

CrashAndRestore ==
  /\ crashes < MaxCrashes
  /\ crashes' = crashes + 1
  /\ mem' = Recovered /\ disk' = Recovered /\ base' = Recovered
  /\ life' = [s \in Shells |-> IF Recovered[s].status = "live" THEN "pending" ELSE "none"]
  /\ reader' = [s \in Shells |-> "none"]
  /\ exits' = {} /\ journal' = {} /\ dirty' = FALSE /\ stopping' = FALSE
  /\ log' = <<>> /\ pendingDurable' = <<>> /\ pendingRuntime' = <<>>
  /\ reservation' = 0
  /\ op' = NoOp /\ io' = NoIO

-----------------------------------------------------------------------------
Init ==
  /\ mem = [Blank EXCEPT ![Workspace].status = "live"]
  /\ disk = mem /\ base = mem
  /\ life = [s \in Shells |-> "none"]
  /\ reader = [s \in Shells |-> "none"]
  /\ exits = {} /\ journal = {} /\ dirty = FALSE /\ stopping = FALSE
  /\ log = <<>> /\ pendingDurable = <<>> /\ pendingRuntime = <<>>
  /\ reservation = 0 /\ op = NoOp /\ io = NoIO /\ crashes = 0

Writes ==
  \/ SaveSucceeds \/ SaveFails \/ FallbackResetFails
  \/ AppendSucceeds \/ AppendFails
  \/ BackgroundFlush \/ OpFlush \/ FinishFlush \/ FlushFailed
  \/ WriteCheckpoint \/ SkipCheckpoint \/ FinishCheckpoint \/ CheckpointFailed

Requests ==
  \/ \E e \in Entities : BeginMutation(e)
  \/ \E s \in Shells : BeginLocalCreate(s) \/ BeginClose(s) \/ BeginStart(s)
                       \/ RestartShell(s)
  \/ \E S \in SUBSET Shells : S # {} /\ BeginRecover(S)
  \/ BeginCloseWorkspace \/ BeginShutdown \/ BeginBaseline \/ BeginCheckpoint

Operations ==
  \/ ObserveBaseline \/ AdmitMutation
  \/ \E e \in Entities : ApplyMutation(e)
  \/ FinishMutation \/ MutationFailed
  \/ \E s \in Shells : ApplyStart(s) \/ ApplyExit(s)
  \/ StartRefused
  \/ \E S \in SUBSET Shells : ApplyRecover(S)
  \/ FinishStart \/ StartFailed \/ FinishExit \/ ExitFailed
  \/ AdmitLifecycle \/ AllStopped \/ AbortLifecycle
  \/ \E s \in Shells : StopRuntime(s) \/ StopFails(s)
  \/ ApplyLifecycle \/ FinishLifecycle \/ LifecycleFailed

Runs ==
  \/ \E s \in Shells : PublishOutput(s) \/ OutputRefused(s)
                       \/ CheckpointHistory(s) \/ ProcessExits(s)
  \/ \E x \in exits : BeginExit(x[1], x[2])

Next == Writes \/ Requests \/ Operations \/ Runs \/ CrashAndRestore

Spec == Init /\ [][Next]_vars

-----------------------------------------------------------------------------
TypeOK ==
  /\ mem \in [Entities -> Record] /\ disk \in [Entities -> Record]
  /\ base \in [Entities -> Record]
  /\ life \in [Shells -> Lifecycles] /\ reader \in [Shells -> Readers]
  /\ exits \in SUBSET (Shells \X Nat)
  /\ journal \in SUBSET Event
  /\ dirty \in BOOLEAN /\ stopping \in BOOLEAN
  /\ log \in Seq(Event) /\ pendingDurable \in Seq(Event)
  /\ pendingRuntime \in Seq(Event)
  /\ reservation \in Nat
  /\ op \in Op /\ io \in IO /\ crashes \in Nat

-----------------------------------------------------------------------------
(* What stable storage knows: the journal's records and the state file.    *)

Covers(d, x) ==
  CASE x.kind = "Created" -> d[x.of].status # "unborn"
    [] x.kind = "Renamed" -> d[x.of].rev >= x.n
    [] x.kind = "Closed" -> d[x.of].status = "gone"
    [] x.kind = "RunStarted" -> d[x.of].gen >= x.n
    [] x.kind = "RunExited" -> /\ d[x.of].gen >= x.n
                               /\ d[x.of].gen = x.n => d[x.of].run # "active"
    [] OTHER -> TRUE
Durable(x) == x \in journal \/ Covers(disk, x)

\* Published events are persisted (append_batch runs after write_persisted_state
\* or the journal append): no event a client can read announces a transition
\* that a crash would undo, whatever rollbacks, retries, compensations and
\* journal checkpoints came before.
PersistBeforePublish == \A i \in DOMAIN log : Durable(log[i])

IsDurable(x) == x.kind \in DurableKinds
Unpublished == pendingDurable \o io.batch

\* A durable event is never announced twice, nor queued again once announced or
\* being written: the failure paths of flush_pending, try_record_run_exit and
\* lifecycle_transaction put back exactly what they took.
PublishedOnce ==
  LET all == log \o Unpublished IN
  \A i, j \in DOMAIN all : i # j /\ IsDurable(all[i]) => all[i] # all[j]

\* The events of a run are announced in its order: output and exit follow
\* RunStarted and no output follows RunExited, although readers publish without
\* mutation_lock and their queued events move into durable batches.
RunOrder ==
  \A i \in DOMAIN log :
    log[i].kind \in {"OutputChanged", "RunExited"} =>
      /\ \E j \in 1..(i - 1) : log[j] = Evt("RunStarted", log[i].of, log[i].n)
      /\ \A j \in 1..(i - 1) : log[j] # Evt("RunExited", log[i].of, log[i].n)

Demand == Len(io.batch) + Len(pendingDurable) + Len(pendingRuntime) + reservation

\* An accepted transition always has the event IDs it needs: append_batch_locked
\* never runs out of IDs (its debug_assert), the re-check after the write in
\* flush_pending never fails, and the bare reserve(1) of handle_attach suffices.
CapacityReserved == Len(log) + Demand <= MaxEventId

\* Runtime events wait only while something blocks publication: they are not
\* left in the queue by an abort, a rollback or a completed write.
QueueReleased == pendingRuntime = <<>> \/ Blocked

\* The registry a client rebuilds from the stream's base and its events.
Announced(x) == \E i \in DOMAIN log : log[i] = x
SeenLive(e) ==
  /\ base[e].status = "live" \/ Announced(Evt("Created", e, 0))
  /\ ~Announced(Evt("Closed", e, 0)) /\ ~Announced(Evt("Closed", Workspace, 0))
SeenRev(e, r) == r = base[e].rev \/ Announced(Evt("Renamed", e, r))
SeenActive(s, g) ==
  /\ Announced(Evt("RunStarted", s, g)) /\ ~Announced(Evt("RunExited", s, g))
  /\ SeenLive(s)

\* Whenever publication is not blocked, the published events describe the
\* registry exactly: what wait_for inspects, and the baseline snapshot that
\* read_events pairs with its cursor, show neither an unannounced transition nor
\* lack an announced one.
PublishedCut ==
  (~Blocked \/ op.phase = "observe") /\ ~stopping =>
    /\ \A e \in Entities : Live(e) <=> SeenLive(e)
    /\ \A e \in Entities : Live(e) =>
         /\ SeenRev(e, mem[e].rev)
         /\ \A r \in 0..MaxRevision : Announced(Evt("Renamed", e, r)) => r <= mem[e].rev
    /\ \A s \in Shells : \A g \in 1..MaxGeneration :
         Current(s, g) <=> SeenActive(s, g)

\* The durable events the bounds allow, and those stable storage holds.
Universe == [kind : DurableKinds, of : Entities, n : 0..(MaxRevision + MaxGeneration)]
Stored == {x \in Universe : Durable(x)}

Ledger == INSTANCE EventLedger WITH Fact <- IsDurable, facts <- Stored

\* The coordinator implements the event ledger: every step persists facts,
\* publishes stored ones not yet published, or restarts, and none is ever lost
\* from stable storage.
ImplementsLedger == Ledger!Spec

-----------------------------------------------------------------------------
(* Liveness.  A thread that holds persist_lock completes its write.  The   *)
(* background retry runs every PERSIST_RETRY_INTERVAL and does not compete *)
(* for the lock in between, so a waiting operation gets it; and a write    *)
(* that is retried is assumed to succeed eventually.                       *)

Completion ==
  \/ SaveSucceeds \/ SaveFails \/ FallbackResetFails \/ AppendSucceeds
  \/ AppendFails \/ FinishFlush \/ FlushFailed \/ FinishCheckpoint
  \/ CheckpointFailed \/ FinishMutation \/ MutationFailed \/ FinishStart
  \/ StartFailed \/ FinishExit \/ ExitFailed \/ FinishLifecycle
  \/ LifecycleFailed

OperationStep == OpFlush \/ WriteCheckpoint \/ SkipCheckpoint \/ Operations

Fairness ==
  /\ WF_vars(Completion)
  /\ SF_vars(OperationStep)
  /\ SF_vars(BackgroundFlush)
  /\ SF_vars(io.kind = "flush" /\ SaveSucceeds)

FairSpec == Spec /\ Fairness

\* Background recovery publishes every queued batch: an event whose write failed
\* is announced eventually.
QueuedIsPublished ==
  \A x \in Universe :
    (\E i \in DOMAIN pendingDurable : pendingDurable[i] = x)
      ~> (Announced(x) \/ crashes > 0)

\* No operation keeps mutation_lock: each one ends, whatever fails on its way.
OperationEnds == op.kind # "none" ~> op.kind = "none"
=============================================================================
