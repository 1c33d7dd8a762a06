-------------------------- MODULE LocalShellJournal --------------------------
(***************************************************************************)
(* The journal of local coordinated Shells (src/local_shell_journal.rs) and *)
(* its callers, one system call per step: a creation or a start is durable  *)
(* once its record is written and synchronised; a checkpoint saves the      *)
(* registry to the two stores and empties the journal; a boot replays it.   *)
(* Every call may fail and the machine may stop after any of them.          *)
(***************************************************************************)
EXTENDS Integers, Sequences, Functions

CONSTANTS
  Shells,           \* Shell identities
  MaxRun,           \* bound on the runs of one Shell
  MaxRecords,       \* MAX_BYTES, in records
  MaxCrashes        \* bound on crashes

ASSUME JournalAssumption ==
  MaxRun \in Nat /\ MaxRecords \in Nat /\ MaxCrashes \in Nat

VARIABLES
  file,       \* the complete records of the file, as the kernel has it
  torn,       \* whether an incomplete record follows them
  stable,     \* what a power loss may leave of the file
  records,    \* JournalState.records
  failed,     \* JournalState.failed
  call,       \* the operation under mutation_lock and its next system call
  applied,    \* creations and starts in the registry
  covered,    \* those the state file and the coordinator store hold
  acked,      \* those reported to the client as done
  refused,    \* those reported as failed by this daemon
  down,       \* the daemon is not running
  crashes

journal == <<file, torn, stable, records, failed>>
registry == <<applied, covered, acked, refused>>
vars == <<file, torn, stable, records, failed, call, applied, covered, acked,
          refused, down, crashes>>

\* run = 0 is a Create record, run > 0 the Start of that generation.
Record == [shell : Shells, run : 0..MaxRun]
Create(s) == [shell |-> s, run |-> 0]
\* What a record appended to an incomplete one becomes: a line that does not
\* parse.
Garbage == [shell |-> "torn", run |-> 0]
Item == Record \cup {Garbage}

Calls == {"none", "create", "start", "checkpoint"}
Steps == {"append", "sync", "rollback", "rollbackSync", "save", "store",
          "truncate", "clearSync"}
Call == [kind : Calls, rec : Item, step : Steps, length : Nat]
Idle == [kind |-> "none", rec |-> Garbage, step |-> "append", length |-> 0]

\* validate_sequence: one creation per Shell, then its runs without a gap.
ValidSequence(q) ==
  \A i \in DOMAIN q :
    /\ q[i] # Garbage
    /\ \A j \in 1..(i - 1) : q[j] # q[i]
    /\ q[i].run > 0 =>
         /\ \E j \in 1..(i - 1) : q[j] = Create(q[i].shell)
         /\ \A n \in 1..(q[i].run - 1) :
              \E j \in 1..(i - 1) : q[j].shell = q[i].shell /\ q[j].run = n

Running(step) == ~down /\ call.kind # "none" /\ call.step = step
Goto(step) == call' = [call EXCEPT !.step = step]

-----------------------------------------------------------------------------
(* Callers.                                                                *)

Begin(kind, rec, step) ==
  /\ ~down /\ call.kind = "none"
  /\ call' = [kind |-> kind, rec |-> rec, step |-> step, length |-> Len(file)]

\* create_local_global_workspace_shell.  A refused creation may be tried again.
BeginCreate(s) ==
  /\ Create(s) \notin applied
  /\ Begin("create", Create(s), "append")
  /\ applied' = applied \cup {Create(s)}
  /\ refused' = refused \ {Create(s)}
  /\ UNCHANGED <<journal, covered, acked, down, crashes>>

\* handle_attach of a Shell whose creation is in the journal (contains_create).
Start(s, n) == [shell |-> s, run |-> n]
NextRun(s, n) == Start(s, n) \notin applied /\ \A k \in 1..(n - 1) : Start(s, k) \in applied
BeginStart(s, n) ==
  /\ ~failed /\ NextRun(s, n) /\ \E i \in DOMAIN records : records[i] = Create(s)
  /\ Begin("start", Start(s, n), "append")
  /\ applied' = applied \cup {Start(s, n)}
  /\ UNCHANGED <<journal, covered, acked, refused, down, crashes>>

\* checkpoint_local_shell_transactions_with_mutation
BeginCheckpoint ==
  /\ ~failed /\ records # <<>> /\ Begin("checkpoint", Garbage, "save")
  /\ UNCHANGED <<journal, registry, down, crashes>>

\* The operation ends with an error.  A creation is undone in the registry; a
\* start's process is killed and its generation stays used.
Refuse ==
  /\ call' = Idle
  /\ applied' = IF call.kind = "create" THEN applied \ {call.rec} ELSE applied
  /\ refused' = IF call.kind = "checkpoint" THEN refused ELSE refused \cup {call.rec}
  /\ UNCHANGED <<covered, acked>>

\* A start whose append fails falls back to the stores.
AppendFails ==
  IF call.kind = "start" THEN Goto("save") /\ UNCHANGED registry ELSE Refuse

-----------------------------------------------------------------------------
(* LocalShellJournal::append.                                              *)

Admissible ==
  /\ ~failed /\ ValidSequence(Append(records, call.rec))
  /\ Len(file) < MaxRecords

AppendRefused ==
  /\ Running("append") /\ ~Admissible
  /\ AppendFails
  /\ UNCHANGED <<journal, down, crashes>>

WriteSucceeds ==
  /\ Running("append") /\ Admissible
  /\ file' = Append(file, IF torn THEN Garbage ELSE call.rec)
  /\ torn' = FALSE
  /\ stable' = stable \cup {file'}
  /\ call' = [call EXCEPT !.step = "sync", !.length = Len(file)]
  /\ UNCHANGED <<records, failed, registry, down, crashes>>

\* Nothing or a part of the record was written.
WriteFails ==
  /\ Running("append") /\ Admissible
  /\ torn' \in {torn, TRUE}
  /\ call' = [call EXCEPT !.step = "rollback", !.length = Len(file)]
  /\ UNCHANGED <<file, stable, records, failed, registry, down, crashes>>

SyncSucceeds ==
  /\ Running("sync")
  /\ stable' = {file}
  /\ records' = Append(records, call.rec)
  /\ acked' = acked \cup {call.rec}
  /\ call' = Idle
  /\ UNCHANGED <<file, torn, failed, applied, covered, refused, down, crashes>>

\* Variant: the append is not rolled back when only its synchronisation failed.
SyncFailsKeeps ==
  /\ Running("sync")
  /\ AppendFails
  /\ UNCHANGED <<journal, down, crashes>>

SyncFails ==
  /\ Running("sync") /\ Goto("rollback")
  /\ UNCHANGED <<journal, registry, down, crashes>>

RollbackTruncates ==
  /\ Running("rollback") /\ Goto("rollbackSync")
  /\ file' = SubSeq(file, 1, call.length)
  /\ torn' = FALSE
  /\ stable' = stable \cup {file'}
  /\ UNCHANGED <<records, failed, registry, down, crashes>>

RollbackSyncs ==
  /\ Running("rollbackSync")
  /\ stable' = {file}
  /\ AppendFails
  /\ UNCHANGED <<file, torn, records, failed, down, crashes>>

RollbackFails ==
  /\ Running("rollback") \/ Running("rollbackSync")
  /\ failed' = TRUE
  /\ AppendFails
  /\ UNCHANGED <<file, torn, stable, records, down, crashes>>

-----------------------------------------------------------------------------
(* The checkpoint, and the fallback of a start.                            *)

SaveSucceeds ==
  /\ Running("save") /\ Goto("store")
  /\ covered' = applied
  /\ UNCHANGED <<journal, applied, acked, refused, down, crashes>>

\* Variant: the journal is emptied although the state file was not written.
SaveFailsGoesOn ==
  /\ Running("save") /\ Goto("truncate")
  /\ UNCHANGED <<journal, registry, down, crashes>>

SaveFails ==
  /\ Running("save") /\ Refuse
  /\ UNCHANGED <<journal, down, crashes>>

\* global_workspaces.checkpoint
StoreSucceeds ==
  /\ Running("store") /\ Goto("truncate")
  /\ UNCHANGED <<journal, registry, down, crashes>>
StoreFails ==
  /\ Running("store") /\ Refuse
  /\ UNCHANGED <<journal, down, crashes>>

\* clear_state
Truncates ==
  /\ Running("truncate") /\ Goto("clearSync")
  /\ file' = <<>> /\ torn' = FALSE
  /\ stable' = stable \cup {<<>>}
  /\ UNCHANGED <<records, failed, registry, down, crashes>>
TruncateFails ==
  /\ Running("truncate") /\ Refuse
  /\ UNCHANGED <<journal, down, crashes>>
ClearSyncs ==
  /\ Running("clearSync")
  /\ stable' = {file} /\ records' = <<>>
  /\ failed' = (failed /\ call.kind # "start")
  /\ acked' = IF call.kind = "start" THEN acked \cup {call.rec} ELSE acked
  /\ call' = Idle
  /\ UNCHANGED <<file, torn, applied, covered, refused, down, crashes>>
ClearSyncFails ==
  /\ Running("clearSync") /\ Refuse
  /\ UNCHANGED <<journal, down, crashes>>

-----------------------------------------------------------------------------
(* Crash, load_at and replay_local_shell_transactions.                     *)

Crash(left) ==
  /\ ~down /\ left \in stable /\ crashes < MaxCrashes
  /\ file' = left /\ stable' = {left} /\ torn' = FALSE
  /\ records' = <<>> /\ failed' = FALSE /\ call' = Idle
  /\ applied' = covered /\ refused' = {}
  /\ down' = TRUE /\ crashes' = crashes + 1
  /\ UNCHANGED <<covered, acked>>

\* An invalid journal keeps the daemon from starting.
Boot ==
  /\ down /\ ValidSequence(file)
  /\ applied' = covered \cup Range(file) /\ covered' = applied'
  /\ file' = <<>> /\ stable' = {<<>>}
  /\ down' = FALSE
  /\ UNCHANGED <<torn, records, failed, call, acked, refused, crashes>>

\* A boot that stops after the replayed records were saved, before or after the
\* journal was emptied: the next boot replays what is left.
BootCutShort(left) ==
  /\ down /\ ValidSequence(file) /\ left \in {file, <<>>} /\ crashes < MaxCrashes
  /\ applied' = covered \cup Range(file) /\ covered' = applied'
  /\ file' = left /\ stable' = {left}
  /\ crashes' = crashes + 1
  /\ UNCHANGED <<torn, records, failed, call, acked, refused, down>>

-----------------------------------------------------------------------------
Init ==
  /\ file = <<>> /\ torn = FALSE /\ stable = {<<>>}
  /\ records = <<>> /\ failed = FALSE /\ call = Idle
  /\ applied = {} /\ covered = {} /\ acked = {} /\ refused = {}
  /\ down = FALSE /\ crashes = 0

Appending ==
  \/ AppendRefused \/ WriteSucceeds \/ WriteFails \/ SyncSucceeds \/ SyncFails
  \/ RollbackTruncates \/ RollbackSyncs \/ RollbackFails
Checkpointing ==
  \/ SaveSucceeds \/ SaveFails \/ StoreSucceeds \/ StoreFails
  \/ Truncates \/ TruncateFails \/ ClearSyncs \/ ClearSyncFails

Next ==
  \/ \E s \in Shells : BeginCreate(s) \/ \E n \in 1..MaxRun : BeginStart(s, n)
  \/ BeginCheckpoint \/ Appending \/ Checkpointing
  \/ \E left \in stable : Crash(left)
  \/ Boot \/ \E left \in {file, <<>>} : BootCutShort(left)

Spec == Init /\ [][Next]_vars

-----------------------------------------------------------------------------
TypeOK ==
  /\ file \in Seq(Item) /\ records \in Seq(Record)
  /\ torn \in BOOLEAN /\ failed \in BOOLEAN /\ down \in BOOLEAN
  /\ \A c \in stable : c \in Seq(Item) /\ Len(c) <= MaxRecords
  /\ call \in Call
  /\ applied \subseteq Item /\ covered \subseteq Item
  /\ acked \subseteq Record /\ refused \subseteq Record /\ crashes \in Nat

\* Whatever a crash leaves of the file, a creation or start that was reported as
\* done is in it or in the checkpointed stores.
AckedSurvives == \A c \in stable : acked \subseteq covered \cup Range(c)

\* A creation or start that was reported as failed is not in what a crash leaves
\* and so does not come back at the next boot, unless the journal knows that its
\* last append is ambiguous and refuses to go on.
RefusedStaysOut ==
  call.kind = "none" /\ ~failed => \A c \in stable : refused \cap Range(c) = {}

\* What a start in the file builds on, its creation and the runs before it, comes
\* before it in the file or is in the checkpointed stores; so a journal that the
\* next boot refuses, after clear_state failed half way, hides nothing that
\* cannot be found.
BuildsOnKept ==
  \A c \in stable : \A i \in DOMAIN c :
    LET known == covered \cup {c[j] : j \in 1..(i - 1)} IN
    /\ c[i] # Garbage
    /\ c[i].run > 0 => /\ Create(c[i].shell) \in known
                       /\ \A n \in 1..(c[i].run - 1) : Start(c[i].shell, n) \in known

\* Whatever a crash leaves of the file, load_at accepts it.  A synchronisation
\* that fails in clear_state can end this: memory then holds records that the
\* emptied file has not, and the next start is appended without its creation.
Loadable == \A c \in stable : ValidSequence(c)
=============================================================================
