------------------------ MODULE DirtyRevisionProofs ------------------------
(***************************************************************************)
(* An unsaved history checkpoint keeps persistence_dirty set outside the   *)
(* two windows of overlap, for any number of Shells and any history.       *)
(***************************************************************************)
EXTENDS DirtyRevision, TLAPS

\* The history the write in progress will have saved, once it has read s.
Written == IF writer.step \in {"capture", "save"} THEN writer.gen ELSE saved

\* While the revision is the one the write started from, a Shell whose history
\* the write lacks has a reader that will still move the revision.
Fresh(s, steps) == Written[s] = history[s] \/ reader[s] \in steps \/ overlap[s] # "none"

\* A Shell not yet read, or read and still as it was.
WriteCovers ==
  \A s \in Shells :
    /\ writer.step = "capture" /\ s \notin writer.todo => Fresh(s, {"changed"})
    /\ writer.step \in {"save", "compare"} /\ revision = writer.revision =>
         Fresh(s, {"changed"})
    /\ writer.step = "clear" => Fresh(s, {"changed", "bumped"})

\* The revision only grows, so it cannot return to the captured one.
RevisionGrows == writer.step \in {"save", "compare"} => writer.revision <= revision

\* An unsaved history is marked, or the write in progress holds it and will save
\* it or mark the failure.
Marked ==
  \A s \in Shells :
    Unsaved(s) /\ reader[s] = "idle" =>
      \/ dirty \/ overlap[s] # "none" \/ writer.step = "failed"
      \/ /\ writer.step = "save" \/ (writer.step = "capture" /\ s \notin writer.todo)
         /\ writer.gen[s] = history[s]

\* A write never replaces a history by an older one.
Newer ==
  \A s \in Shells :
    /\ saved[s] <= history[s]
    /\ writer.step = "save" \/ (writer.step = "capture" /\ s \notin writer.todo) =>
         saved[s] <= writer.gen[s] /\ writer.gen[s] <= history[s]

IInv == Newer /\ TypeOK /\ WriteCovers /\ RevisionGrows /\ Marked

\* The invariant holds when the daemon begins.
LEMMA InitInv == Init => IInv
  <1> SUFFICES ASSUME Init PROVE IInv OBVIOUS
  <1>1. TypeOK
    BY DEF Init, TypeOK, Writer, WriterSteps, ReaderSteps, Overlaps
  <1>2. WriteCovers /\ RevisionGrows BY DEF Init, WriteCovers, RevisionGrows
  <1>3. Newer /\ Marked BY <1>1 DEF Init, TypeOK, Newer, Marked, Unsaved
  <1> QED BY <1>1, <1>2, <1>3 DEF IInv

\* A reader in checkpoint_terminal_history disturbs its own Shell only.
LEMMA ReadingStep == ASSUME IInv, NEW s \in Shells, Reading(s) PROVE IInv'
  <1> USE DEF IInv, TypeOK, WriteCovers, RevisionGrows, Newer, Marked, Unsaved, Writer,
              WriterSteps, ReaderSteps, Overlaps, Fresh, Written
  <1>1. CASE ChangeHistory(s) BY <1>1, HistoryAssumption DEF ChangeHistory
  <1>2. CASE BumpRevision(s) BY <1>2 DEF BumpRevision
  <1>3. CASE SetDirty(s) BY <1>3 DEF SetDirty
  <1> QED BY <1>1, <1>2, <1>3 DEF Reading

\* The steps of the write, from the first Shell captured to the clearing store.
LEMMA WritingStep == ASSUME IInv, Writing \/ BeginOperation \/ Retry PROVE IInv'
  <1> USE DEF IInv, TypeOK, WriteCovers, RevisionGrows, Newer, Marked, Unsaved, Writer,
              WriterSteps, ReaderSteps, Overlaps, Fresh, Written
  <1>1. CASE BeginCapture BY <1>1 DEF BeginCapture
  <1>2. ASSUME NEW s \in Shells, CaptureShell(s) PROVE IInv'
    <2>1. TypeOK' BY <1>2 DEF CaptureShell
    <2>2. /\ writer'.step = "capture" /\ writer'.todo = writer.todo \ {s}
          /\ writer'.gen = [writer.gen EXCEPT ![s] = history[s]]
          /\ writer'.revision = writer.revision
          /\ UNCHANGED <<history, saved, revision, dirty, reader>>
          /\ overlap' = [overlap EXCEPT ![s] = "none"]
          /\ writer.step = "capture" /\ s \in writer.todo /\ reader[s] = "idle"
      BY <1>2 DEF CaptureShell
    <2>3. ASSUME NEW t \in Shells, t \notin writer'.todo
          PROVE  /\ Fresh(t, {"changed"})'
                 /\ saved[t] <= writer'.gen[t] /\ writer'.gen[t] <= history[t]
      <3>1. CASE t = s BY <2>2, <2>3, <3>1
      <3>2. CASE t # s BY <2>2, <2>3, <3>2
      <3> QED BY <3>1, <3>2
    <2>4. WriteCovers' BY <2>2, <2>3
    <2>5. Newer' BY <2>2, <2>3
    <2>6. RevisionGrows' BY <2>2
    <2>7. ASSUME NEW t \in Shells, t # s, Unsaved(t), reader[t] = "idle"
          PROVE  \/ dirty \/ overlap[t] # "none"
                 \/ t \notin writer.todo /\ writer.gen[t] = history[t]
      BY <2>2, <2>7
    <2>8. Marked' BY <2>2, <2>7
    <2> QED BY <2>1, <2>4, <2>5, <2>6, <2>8
  <1>3. CASE LoadRevision
    <2>1. TypeOK' BY <1>3 DEF LoadRevision
    <2>2. /\ writer'.step = "save" /\ writer'.todo = {} /\ writer'.gen = writer.gen
          /\ writer'.revision = revision
          /\ UNCHANGED <<history, saved, revision, dirty, reader, overlap>>
          /\ writer.step = "capture" /\ writer.todo = {}
      BY <1>3 DEF LoadRevision
    <2>3. WriteCovers' BY <2>2
    <2>4. Newer' BY <2>2
    <2>5. RevisionGrows' /\ Marked' BY <2>2
    <2> QED BY <2>1, <2>3, <2>4, <2>5
  <1>4. CASE SaveSucceeds BY <1>4 DEF SaveSucceeds
  <1>5. CASE SaveFails BY <1>5 DEF SaveFails
  <1>6. CASE MarkFailed BY <1>6 DEF MarkFailed
  <1>7. CASE Compare BY <1>7 DEF Compare
  <1>8. CASE Clear BY <1>8 DEF Clear
  <1> QED
    BY <1>1, <1>2, <1>3, <1>4, <1>5, <1>6, <1>7, <1>8
    DEF Writing, BeginOperation, Retry

\* The invariant is inductive.
LEMMA NextStep == IInv /\ [Next]_vars => IInv'
  <1>1. ASSUME IInv, UNCHANGED vars PROVE IInv'
    BY <1>1 DEF vars, IInv, TypeOK, WriteCovers, RevisionGrows, Newer, Marked, Unsaved,
                Fresh, Written
  <1> QED BY <1>1, ReadingStep, WritingStep DEF Next

\* Every reachable state is well typed, for any Shells and any history.
THEOREM TypeCorrect == Spec => []TypeOK
  <1>1. IInv => TypeOK BY DEF IInv
  <1> QED BY <1>1, InitInv, NextStep, PTL DEF Spec

\* write_persisted_state never forgets a history checkpoint outside the windows
\* of overlap: an unsaved one keeps run_daemon's retry eligible.
THEOREM Eligible == Spec => []EligibleOutsideWindows
  <1>1. IInv => EligibleOutsideWindows
    BY DEF IInv, Marked, EligibleOutsideWindows, Quiescent, Unsaved
  <1> QED BY <1>1, InitInv, NextStep, PTL DEF Spec
=============================================================================
