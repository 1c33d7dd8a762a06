--------------------------- MODULE HandoffReaders ---------------------------
(***************************************************************************)
(* Who reads the PTYs during a handoff.  The old daemon pauses its readers  *)
(* and sends, with each PTY, the terminal state as its reader left it; the  *)
(* replacement gates its own readers until FINALIZE; a failed handoff       *)
(* resumes the old ones.  Meanwhile processes write output and exit, and    *)
(* the handler of a started creation resumes its new reader outside         *)
(* mutation_lock.                                                           *)
(***************************************************************************)
EXTENDS HandoffProtocol, Integers

CONSTANTS
  MaxOutput,        \* bound on the output of one Shell
  StartedCreates    \* the Shells that clients create already started

ASSUME ReadersAssumption == MaxOutput \in Nat /\ StartedCreates \subseteq Shells

VARIABLES
  life,       \* each Shell's process: absent, running, exited, exit recorded
  reader,     \* the reader thread of each Shell in either daemon
  produced,   \* output written by the process
  unread,     \* output in the PTY
  screen,     \* output in the terminal state of either daemon
  sent,       \* the Shells prepared for transfer ("paused" in the code)
  shipped,    \* the terminal state sent with each of them
  resuming    \* Shells whose creation handler is about to resume the reader

readers == <<life, reader, produced, unread, screen, sent, shipped, resuming>>
vars == <<protocol, readers>>

Daemons == {"old", "new"}
Lives == {"absent", "running", "exited", "recorded"}
\* "ended": the thread is over, its exit may still be waiting for mutation_lock.
ReaderStates == {"none", "paused", "reading", "ended"}

Alive(d) == IF d = "old" THEN step # "gone" ELSE repl # "none"
SetReader(d, s, state) == reader' = [reader EXCEPT ![d][s] = state]
Lifecycle(s) == life[s] \in {"running", "exited"}

-----------------------------------------------------------------------------
(* Processes and readers at any time.                                      *)

Output(s) ==
  /\ life[s] = "running" /\ produced[s] < MaxOutput
  /\ produced' = [produced EXCEPT ![s] = @ + 1]
  /\ unread' = [unread EXCEPT ![s] = @ + 1]
  /\ UNCHANGED <<protocol, life, reader, screen, sent, shipped, resuming>>

Exit(s) ==
  /\ life[s] = "running" /\ life' = [life EXCEPT ![s] = "exited"]
  /\ UNCHANGED <<protocol, reader, produced, unread, screen, sent, shipped, resuming>>

Read(d, s) ==
  /\ Alive(d) /\ reader[d][s] = "reading" /\ unread[s] > 0
  /\ unread' = [unread EXCEPT ![s] = @ - 1]
  /\ screen' = [screen EXCEPT ![d][s] = @ + 1]
  /\ UNCHANGED <<protocol, life, reader, produced, sent, shipped, resuming>>

\* The PTY is drained and the process has exited.
ReaderEnds(d, s) ==
  /\ Alive(d) /\ reader[d][s] = "reading" /\ unread[s] = 0 /\ life[s] = "exited"
  /\ SetReader(d, s, "ended")
  /\ UNCHANGED <<protocol, life, produced, unread, screen, sent, shipped, resuming>>

\* try_record_run_exit, deferred while launch_replacement holds mutation_lock.
RecordExit(d, s) ==
  /\ Alive(d) /\ reader[d][s] = "ended" /\ life[s] = "exited"
  /\ d = "old" => ~Locked
  /\ life' = [life EXCEPT ![s] = "recorded"]
  /\ UNCHANGED <<protocol, reader, produced, unread, screen, sent, shipped, resuming>>

\* CreateStartedShell: the reader starts paused under mutation_lock ...
CreateStarted(s) ==
  /\ s \in StartedCreates /\ OldServes /\ life[s] = "absent"
  /\ life' = [life EXCEPT ![s] = "running"]
  /\ SetReader("old", s, "paused")
  /\ resuming' = resuming \cup {s}
  /\ UNCHANGED <<protocol, produced, unread, screen, sent, shipped>>

\* ... and is resumed after the mutation, whoever holds the lock by then.
CreatorResumes(s) ==
  /\ Alive("old") /\ s \in resuming /\ resuming' = resuming \ {s}
  /\ IF reader["old"][s] = "paused" THEN SetReader("old", s, "reading")
                                    ELSE UNCHANGED reader
  /\ UNCHANGED <<protocol, life, produced, unread, screen, sent, shipped>>

-----------------------------------------------------------------------------
(* The old daemon.                                                         *)

\* Variant: the terminal state is sent while the reader goes on.
PrepareReading(s) ==
  /\ step = "pausing" /\ Lifecycle(s) /\ s \notin sent
  /\ sent' = sent \cup {s}
  /\ shipped' = [shipped EXCEPT ![s] = screen["old"][s]]
  /\ UNCHANGED <<protocol, life, reader, produced, unread, screen, resuming>>

\* One iteration of prepare_handoff.
Prepare(s) ==
  /\ step = "pausing" /\ Lifecycle(s) /\ s \notin sent
  /\ IF reader["old"][s] = "reading" THEN SetReader("old", s, "paused")
                                     ELSE UNCHANGED reader
  /\ sent' = sent \cup {s}
  /\ shipped' = [shipped EXCEPT ![s] = screen["old"][s]]
  /\ UNCHANGED <<protocol, life, produced, unread, screen, resuming>>

SpawnReplacement ==
  /\ Spawn /\ \A s \in Shells : Lifecycle(s) => s \in sent
  /\ UNCHANGED readers

\* Variant: a failed handoff forgets to resume a reader.
ForgetReader(s) ==
  /\ step = "rollback" /\ s \in sent /\ sent' = sent \ {s}
  /\ UNCHANGED <<protocol, life, reader, produced, unread, screen, shipped, resuming>>

\* Variant: resuming waits for an answer, which a thread that ended does not
\* give.
ResumeLiveReader(s) ==
  /\ step = "rollback" /\ s \in sent /\ sent' = sent \ {s}
  /\ reader["old"][s] # "ended" /\ SetReader("old", s, "reading")
  /\ UNCHANGED <<protocol, life, produced, unread, screen, shipped, resuming>>

ResumeReader(s) ==
  /\ step = "rollback" /\ s \in sent /\ sent' = sent \ {s}
  /\ IF reader["old"][s] = "paused" THEN SetReader("old", s, "reading")
                                    ELSE UNCHANGED reader
  /\ UNCHANGED <<protocol, life, produced, unread, screen, shipped, resuming>>

ResumeOld == FinishRollback /\ sent = {} /\ UNCHANGED readers

\* The process ends, and its threads with it.
OldExits ==
  /\ Leave /\ reader' = [reader EXCEPT !["old"] = [s \in Shells |-> "none"]]
  /\ UNCHANGED <<life, produced, unread, screen, sent, shipped, resuming>>

-----------------------------------------------------------------------------
(* The replacement.                                                        *)

\* Variant: the imported readers are not gated.
ImportReading ==
  /\ Import /\ \A s \in sent : life[s] = "running"
  /\ screen' = [screen EXCEPT !["new"] = [s \in Shells |-> IF s \in sent THEN shipped[s] ELSE 0]]
  /\ reader' = [reader EXCEPT !["new"] = [s \in Shells |-> IF s \in sent THEN "reading" ELSE "none"]]
  /\ UNCHANGED <<life, produced, unread, sent, shipped, resuming>>

\* A process that has exited is refused.
ImportRuntimes ==
  /\ Import /\ \A s \in sent : life[s] = "running"
  /\ screen' = [screen EXCEPT !["new"] = [s \in Shells |-> IF s \in sent THEN shipped[s] ELSE 0]]
  /\ reader' = [reader EXCEPT !["new"] = [s \in Shells |-> IF s \in sent THEN "paused" ELSE "none"]]
  /\ UNCHANGED <<life, produced, unread, sent, shipped, resuming>>

\* run_daemon after FINALIZE.
UngateReader(s) ==
  /\ repl = "owner" /\ reader["new"][s] = "paused" /\ SetReader("new", s, "reading")
  /\ UNCHANGED <<protocol, life, produced, unread, screen, sent, shipped, resuming>>

CommitReading ==
  /\ Commit /\ \A s \in Shells : reader["new"][s] # "paused"
  /\ UNCHANGED readers

NewExits ==
  /\ Quit \/ KillReplacement
  /\ reader' = [reader EXCEPT !["new"] = [s \in Shells |-> "none"]]
  /\ UNCHANGED <<life, produced, unread, screen, sent, shipped, resuming>>

-----------------------------------------------------------------------------
Init ==
  /\ InitProtocol
  /\ life = [s \in Shells |-> IF s \in StartedCreates THEN "absent" ELSE "running"]
  /\ reader = [d \in Daemons |-> [s \in Shells |->
                 IF d = "old" /\ life[s] = "running" THEN "reading" ELSE "none"]]
  /\ produced = [s \in Shells |-> 0] /\ unread = [s \in Shells |-> 0]
  /\ screen = [d \in Daemons |-> [s \in Shells |-> 0]]
  /\ sent = {} /\ shipped = [s \in Shells |-> 0] /\ resuming = {}

Conversation ==
  \/ Restart \/ Launch \/ PrepareFails \/ ReadReady \/ ReadPrepared
  \/ WriteFinalize \/ HandshakeFails \/ EndHandoff
  \/ Bootstrap \/ ReadCommit \/ Restore \/ ReadFinalize \/ ReadAbort
  \/ ReplacementFails \/ ReplacementTimesOut

Shell(s) ==
  \/ Output(s) \/ Exit(s) \/ CreateStarted(s) \/ CreatorResumes(s)
  \/ Prepare(s) \/ ResumeReader(s) \/ UngateReader(s)
  \/ \E d \in Daemons : Read(d, s) \/ ReaderEnds(d, s) \/ RecordExit(d, s)

Next ==
  \/ Conversation /\ UNCHANGED readers
  \/ SpawnReplacement \/ ResumeOld \/ OldExits \/ ImportRuntimes \/ CommitReading \/ NewExits
  \/ \E s \in Shells : Shell(s)

Spec == Init /\ [][Next]_vars

-----------------------------------------------------------------------------
TypeOK ==
  /\ TypeOKProtocol
  /\ life \in [Shells -> Lives] /\ reader \in [Daemons -> [Shells -> ReaderStates]]
  /\ produced \in [Shells -> Nat] /\ unread \in [Shells -> Nat]
  /\ screen \in [Daemons -> [Shells -> Nat]] /\ shipped \in [Shells -> Nat]
  /\ sent \subseteq Shells /\ resuming \subseteq Shells

ReadTwice(s) == reader["old"][s] = "reading" /\ reader["new"][s] = "reading"

\* Exactly one daemon reads each PTY at a time (docs/live-pty-handoff.md), for the
\* Shells that no started creation made: the reader of such a Shell is resumed
\* outside mutation_lock, also after a handoff has paused it.
OneReader == \A s \in Shells \ StartedCreates : ~ReadTwice(s)

\* No output of theirs is lost: the daemon in charge has every byte the process
\* wrote in its terminal state, but for what is still in the PTY.
NothingLost ==
  \A s \in Shells \ StartedCreates :
    /\ OldServes => screen["old"][s] + unread[s] = produced[s]
    /\ repl = "owner" /\ Lifecycle(s) => screen["new"][s] + unread[s] = produced[s]

-----------------------------------------------------------------------------
(* Threads run on, deadlines pass, and a PTY that is readable is read.      *)
Steps ==
  \/ (Conversation /\ ~Restart /\ UNCHANGED readers)
  \/ SpawnReplacement \/ ResumeOld \/ OldExits \/ ImportRuntimes \/ CommitReading \/ NewExits

Fairness ==
  /\ WF_vars(Steps)
  /\ \A s \in Shells :
       /\ WF_vars(Prepare(s) \/ ResumeReader(s))
       /\ WF_vars(UngateReader(s)) /\ WF_vars(CreatorResumes(s))
       /\ WF_vars(Read("old", s)) /\ WF_vars(Read("new", s))

FairSpec == Spec /\ Fairness

\* A restart comes to an end, with the old daemon serving again or gone: no two
\* sides wait for each other.
RestartEnds == step = "requested" ~> step \in {"serving", "gone"}

\* Whatever becomes of the restart, output is read again.
OutputIsRead == \A s \in Shells : unread[s] > 0 ~> unread[s] = 0
=============================================================================
