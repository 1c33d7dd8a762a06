---------------------------- MODULE DirtyRevision ----------------------------
(***************************************************************************)
(* persistence_dirty and persistence_revision (src/daemon.rs), one atomic  *)
(* operation per step.  PTY readers checkpoint terminal history under      *)
(* their Shell's last_run lock and mark the registry dirty; the holder of  *)
(* persist_lock captures a generation Shell by Shell, writes it, and       *)
(* clears the flag if no mark came in between.                             *)
(***************************************************************************)
EXTENDS Integers

CONSTANTS
  Shells,      \* Shells with a running reader
  MaxHistory   \* bound on the history checkpoints of one Shell

ASSUME HistoryAssumption == MaxHistory \in Nat

VARIABLES
  history,     \* last_run.terminal_history in memory: its version
  saved,       \* its version in the state file
  revision,    \* persistence_revision
  dirty,       \* persistence_dirty
  reader,      \* where a reader is in checkpoint_terminal_history
  writer,      \* the holder of persist_lock
  overlap      \* how a checkpoint met the write it raced, if it did

vars == <<history, saved, revision, dirty, reader, writer, overlap>>

\* idle: last_run is not locked by the reader.
ReaderSteps == {"idle", "changed", "bumped"}
WriterSteps == {"idle", "capture", "save", "failed", "compare", "clear"}
Writer == [step : WriterSteps, todo : SUBSET Shells, gen : [Shells -> Nat],
           revision : Nat]
Overlaps == {"none", "capture", "clear"}

-----------------------------------------------------------------------------
(* checkpoint_terminal_history and mark_persistence_dirty.                 *)

ChangeHistory(s) ==
  /\ reader[s] = "idle" /\ history[s] < MaxHistory
  /\ history' = [history EXCEPT ![s] = @ + 1]
  /\ reader' = [reader EXCEPT ![s] = "changed"]
  /\ UNCHANGED <<saved, revision, dirty, writer, overlap>>

\* fetch_add.  A generation that has already read this Shell and not yet the
\* revision will carry the new revision with the old history.
BumpRevision(s) ==
  /\ reader[s] = "changed"
  /\ revision' = revision + 1
  /\ reader' = [reader EXCEPT ![s] = "bumped"]
  /\ overlap' = IF writer.step = "capture" /\ s \notin writer.todo
                THEN [overlap EXCEPT ![s] = "capture"] ELSE overlap
  /\ UNCHANGED <<history, saved, dirty, writer>>

\* store(true).  A writer past its comparison will overwrite it.
SetDirty(s) ==
  /\ reader[s] = "bumped"
  /\ dirty' = TRUE
  /\ reader' = [reader EXCEPT ![s] = "idle"]
  /\ overlap' = IF writer.step = "clear" /\ overlap[s] = "none"
                THEN [overlap EXCEPT ![s] = "clear"] ELSE overlap
  /\ UNCHANGED <<history, saved, revision, writer>>

-----------------------------------------------------------------------------
(* capture_persisted_state and write_persisted_state.                      *)

BeginCapture ==
  /\ writer.step = "idle"
  /\ writer' = [writer EXCEPT !.step = "capture", !.todo = Shells]
  /\ UNCHANGED <<history, saved, revision, dirty, reader, overlap>>

\* A durable operation writes whatever the flag says; run_daemon's retry only
\* when it is set.
BeginOperation == BeginCapture
Retry == dirty /\ BeginCapture

\* One Shell is read under its last_run lock.
CaptureShell(s) ==
  /\ writer.step = "capture" /\ s \in writer.todo /\ reader[s] = "idle"
  /\ writer' = [writer EXCEPT !.todo = @ \ {s}, !.gen[s] = history[s]]
  /\ overlap' = [overlap EXCEPT ![s] = "none"]
  /\ UNCHANGED <<history, saved, revision, dirty, reader>>

LoadRevision ==
  /\ writer.step = "capture" /\ writer.todo = {}
  /\ writer' = [writer EXCEPT !.step = "save", !.revision = revision]
  /\ UNCHANGED <<history, saved, revision, dirty, reader, overlap>>

SaveSucceeds ==
  /\ writer.step = "save"
  /\ saved' = writer.gen
  /\ writer' = [writer EXCEPT !.step = "compare"]
  /\ UNCHANGED <<history, revision, dirty, reader, overlap>>

SaveFails ==
  /\ writer.step = "save"
  /\ writer' = [writer EXCEPT !.step = "failed"]
  /\ UNCHANGED <<history, saved, revision, dirty, reader, overlap>>

\* Variant: a failed write clears the flag.
MarkFailedClears ==
  /\ writer.step = "failed"
  /\ dirty' = FALSE
  /\ writer' = [writer EXCEPT !.step = "idle"]
  /\ UNCHANGED <<history, saved, revision, reader, overlap>>

MarkFailed ==
  /\ writer.step = "failed"
  /\ dirty' = TRUE
  /\ writer' = [writer EXCEPT !.step = "idle"]
  /\ UNCHANGED <<history, saved, revision, reader, overlap>>

\* Variant: the flag is cleared after every successful write.
CompareAlways ==
  /\ writer.step = "compare"
  /\ writer' = [writer EXCEPT !.step = "clear"]
  /\ UNCHANGED <<history, saved, revision, dirty, reader, overlap>>

Compare ==
  /\ writer.step = "compare"
  /\ writer' = [writer EXCEPT !.step = IF revision = writer.revision
                                       THEN "clear" ELSE "idle"]
  /\ UNCHANGED <<history, saved, revision, dirty, reader, overlap>>

Clear ==
  /\ writer.step = "clear"
  /\ dirty' = FALSE
  /\ writer' = [writer EXCEPT !.step = "idle"]
  /\ UNCHANGED <<history, saved, revision, reader, overlap>>

-----------------------------------------------------------------------------
Init ==
  /\ history = [s \in Shells |-> 0] /\ saved = history
  /\ revision = 0 /\ dirty = FALSE
  /\ reader = [s \in Shells |-> "idle"]
  /\ writer = [step |-> "idle", todo |-> {}, gen |-> history, revision |-> 0]
  /\ overlap = [s \in Shells |-> "none"]

Reading(s) == ChangeHistory(s) \/ BumpRevision(s) \/ SetDirty(s)
Writing ==
  \/ \E s \in Shells : CaptureShell(s)
  \/ LoadRevision \/ SaveSucceeds \/ SaveFails \/ MarkFailed \/ Compare \/ Clear

Next == (\E s \in Shells : Reading(s)) \/ BeginOperation \/ Retry \/ Writing

Spec == Init /\ [][Next]_vars

-----------------------------------------------------------------------------
TypeOK ==
  /\ history \in [Shells -> Nat] /\ saved \in [Shells -> Nat]
  /\ revision \in Nat /\ dirty \in BOOLEAN
  /\ reader \in [Shells -> ReaderSteps] /\ writer \in Writer
  /\ overlap \in [Shells -> Overlaps]

Quiescent(s) == reader[s] = "idle" /\ writer.step = "idle"
Unsaved(s) == history[s] # saved[s]

\* A history checkpoint the state file lacks keeps the retry eligible, however
\* it interleaves with a write, except in the two windows of overlap: the
\* revision moves while a generation that already read this Shell is being
\* captured, or the flag is set between the comparison and the clearing store.
EligibleOutsideWindows ==
  \A s \in Shells : Quiescent(s) /\ Unsaved(s) => dirty \/ overlap[s] # "none"

-----------------------------------------------------------------------------
(* A reader inside checkpoint_terminal_history and the holder of           *)
(* persist_lock run on; the retry loop runs while the flag is set; a write *)
(* tried again and again succeeds.                                         *)
Fairness ==
  /\ \A s \in Shells : WF_vars(BumpRevision(s) \/ SetDirty(s))
  /\ WF_vars(Writing) /\ WF_vars(Retry) /\ SF_vars(SaveSucceeds)

FairSpec == Spec /\ Fairness

\* Every history checkpoint reaches the state file, or met a write in one of the
\* two windows.
HistorySaved ==
  \A s \in Shells : \A v \in 1..MaxHistory :
    history[s] >= v ~> (saved[s] >= v \/ overlap[s] # "none")
=============================================================================
