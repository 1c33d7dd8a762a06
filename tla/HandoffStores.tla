---------------------------- MODULE HandoffStores ----------------------------
(***************************************************************************)
(* Who writes the state file and the local-Shell journal during a handoff.  *)
(* A restart request checkpoints the journal before it reaches the main     *)
(* loop; the replacement loads both files, replays the journal and empties  *)
(* it before it is ready; a checkpoint that waited for mutation_lock runs   *)
(* in the old daemon once the handoff has released it.                      *)
(***************************************************************************)
EXTENDS HandoffProtocol

VARIABLES
  known,      \* the Shells in either daemon's registry
  running,    \* Shells whose run is active in the old daemon
  disk,       \* Shells in the state file
  diskRuns,   \* Shells whose run is active in the state file
  file,       \* the journal on disk
  records,    \* the old daemon's JournalState.records
  acked       \* Shells whose creation was reported as done

stores == <<known, running, disk, diskRuns, file, records, acked>>
storesVars == <<protocol, stores>>

Record == {"create", "start"} \X Shells
Created(q) == {s \in Shells : <<"create", s>> \in q}

-----------------------------------------------------------------------------
(* The old daemon.  It serves requests, under mutation_lock, until the main *)
(* loop has seen a restart request, so also after the request's checkpoint. *)

\* create_local_global_workspace_shell
LocalCreate(s) ==
  /\ OldServes /\ s \notin known["old"]
  /\ known' = [known EXCEPT !["old"] = @ \cup {s}]
  /\ file' = file \cup {<<"create", s>>} /\ records' = records \cup {<<"create", s>>}
  /\ acked' = acked \cup {s}
  /\ UNCHANGED <<protocol, running, disk, diskRuns>>

\* handle_attach, by contains_create in the journal or in the state file.
Start(s) ==
  /\ OldServes /\ s \in known["old"] \ running
  /\ running' = running \cup {s}
  /\ IF <<"create", s>> \in records
       THEN /\ file' = file \cup {<<"start", s>>} /\ records' = records \cup {<<"start", s>>}
            /\ UNCHANGED <<disk, diskRuns>>
       ELSE /\ disk' = known["old"] /\ diskRuns' = running'
            /\ UNCHANGED <<file, records>>
  /\ UNCHANGED <<protocol, known, acked>>

\* try_record_run_exit saves the registry and leaves the journal alone.
SaveExit(s) ==
  /\ OldServes /\ s \in running
  /\ running' = running \ {s}
  /\ disk' = known["old"] /\ diskRuns' = running'
  /\ UNCHANGED <<protocol, known, file, records, acked>>

\* checkpoint_local_shell_transactions_with_mutation
SaveAndClear ==
  IF records = {} THEN UNCHANGED <<disk, diskRuns, file, records>>
  ELSE /\ disk' = known["old"] /\ diskRuns' = running
       /\ file' = {} /\ records' = {}

\* The delayed checkpoint, or a request that waited for mutation_lock: neither
\* asks whether the daemon still owns the files.
Checkpoint ==
  /\ records # {} /\ ~Locked /\ step # "gone" /\ SaveAndClear
  /\ UNCHANGED <<protocol, known, running, acked>>

\* The handler of a restart request.
RestartCheckpointed ==
  /\ Restart /\ SaveAndClear
  /\ UNCHANGED <<known, running, acked>>

-----------------------------------------------------------------------------
(* The replacement.                                                        *)

\* restore and replay_local_shell_transactions.  A replayed start is an
\* interrupted run, unless the state file has it.
RestoreStores ==
  /\ Restore /\ known' = [known EXCEPT !["new"] = disk \cup Created(file)]
  /\ disk' = disk \cup Created(file) /\ file' = {}
  /\ UNCHANGED <<running, diskRuns, records, acked>>

\* import_handoff refuses a runtime that is no active run in the state file; the
\* result is saved before PREPARED.
ImportStores ==
  /\ Import /\ running \subseteq diskRuns
  /\ disk' = known["new"] /\ diskRuns' = running
  /\ UNCHANGED <<known, running, file, records, acked>>

\* A durable mutation of the new owner.
OwnerCreate(s) ==
  /\ NewServes /\ s \notin known["new"]
  /\ known' = [known EXCEPT !["new"] = @ \cup {s}]
  /\ disk' = known'["new"] /\ acked' = acked \cup {s}
  /\ UNCHANGED <<protocol, running, diskRuns, file, records>>

-----------------------------------------------------------------------------
StoresInit ==
  /\ InitProtocol
  /\ known = [d \in {"old", "new"} |-> {}] /\ running = {}
  /\ disk = {} /\ diskRuns = {} /\ file = {} /\ records = {} /\ acked = {}

\* The steps of the conversation that touch neither the files nor a registry.
FilesAlone ==
  \/ Launch \/ PrepareFails \/ Spawn \/ ReadReady \/ ReadPrepared
  \/ WriteFinalize \/ HandshakeFails \/ KillReplacement \/ FinishRollback
  \/ EndHandoff \/ Leave
  \/ Bootstrap \/ ReadCommit \/ ReadFinalize \/ Commit \/ ReadAbort
  \/ ReplacementFails \/ ReplacementTimesOut \/ Quit

StoresNext ==
  \/ FilesAlone /\ UNCHANGED stores
  \/ Checkpoint \/ RestartCheckpointed \/ RestoreStores \/ ImportStores
  \/ \E s \in Shells : LocalCreate(s) \/ Start(s) \/ SaveExit(s) \/ OwnerCreate(s)

StoresSpec == StoresInit /\ [][StoresNext]_storesVars

-----------------------------------------------------------------------------
InFiles == disk \cup Created(file)

\* What docs/remote-nodes.md promises: a creation that was reported as done, by
\* either daemon, is in the state file or in a journal that the next boot
\* accepts, where a start follows its creation.
AckedDurable ==
  /\ acked \subseteq InFiles
  /\ \A s \in Shells : <<"start", s>> \in file => <<"create", s>> \in file

\* What the old daemon reported survives every handoff, failed or not, and every
\* late checkpoint; and nothing is journaled of a Shell that no file has.
OldCreationsKept ==
  /\ known["old"] \subseteq InFiles
  /\ \A s \in Shells : <<"start", s>> \in file => s \in InFiles

\* Only a checkpoint that waited for mutation_lock and finds the daemon leaving
\* takes a Shell from the files: no request, no exit, no restart request, no
\* replay or import of a replacement that may yet fail, no new owner does.
OnlyLateCheckpointLoses ==
  [][~(step = "leaving" /\ Checkpoint) => InFiles \subseteq InFiles']_storesVars
=============================================================================
