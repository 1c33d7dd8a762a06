--------------------------- MODULE HandoffProofs ---------------------------
(***************************************************************************)
(* Ownership, output and the files across a handoff, for any Shells, any    *)
(* output and any number of attempts.  HandoffReaders and HandoffStores     *)
(* extend one conversation by variables of their own; what is proved of the *)
(* conversation serves both.                                                *)
(***************************************************************************)
EXTENDS HandoffReaders, HandoffStores, TLAPS

\* No replacement yet, and past the irreversible boundary.
Before == {"serving", "requested", "pausing", "rollback"}
Past == {"finalized", "leaving", "gone"}

\* Which bytes are under way at which step of the two sides.
Dialogue ==
  /\ step \in Before =>
       repl = "none" /\ toNew = <<>> /\ toOld = <<>>
  /\ step = "awaitReady" =>
       /\ toNew = <<>>
       /\ \/ repl = "bootstrap" /\ toOld = <<>>
          \/ repl = "decide" /\ toOld = <<"READY">>
          \/ repl \in {"quit", "none"} /\ toOld \in {<<>>, <<"READY">>}
  /\ step = "awaitPrepared" =>
       \/ repl = "decide" /\ toNew = <<"COMMIT">> /\ toOld = <<>>
       \/ repl \in {"restore", "import"} /\ toNew = <<>> /\ toOld = <<>>
       \/ repl = "prepared" /\ toNew = <<>> /\ toOld = <<"PREPARED">>
       \/ repl = "quit" /\ toNew \in {<<>>, <<"COMMIT">>} /\ toOld = <<>>
       \/ repl = "none" /\ toNew = <<>> /\ toOld = <<>>
       \/ FinalTimeout /\ repl \in {"quit", "none"} /\ toNew = <<>> /\ toOld = <<"PREPARED">>
  /\ step = "finalize" =>
       /\ toNew = <<>> /\ toOld = <<>>
       /\ repl = "prepared" \/ (FinalTimeout /\ repl \in {"quit", "none"})
  /\ step \in Past =>
       \/ repl = "prepared" /\ toNew = <<"FINALIZE">>
       \/ repl = "owner"
       \/ FinalTimeout /\ repl \in {"quit", "none"}
  /\ step = "aborting" =>
       repl # "owner" /\ toNew \in Seq({"COMMIT", "ABORT"})

\* The Shells that no started creation made.
Kept == Shells \ StartedCreates

\* The readers of the old daemon at each of its steps.
OldReaders ==
  \A s \in Kept :
    /\ life[s] # "absent" /\ (life[s] = "recorded" => reader["old"][s] = "ended" \/ step \in Past)
    /\ step # "gone" => reader["old"][s] # "none"
    /\ OldServes => s \notin sent
    /\ step \in Before =>
         IF s \in sent THEN reader["old"][s] \in {"paused", "ended"}
                       ELSE reader["old"][s] \in {"reading", "ended"}
    /\ step \notin Before =>
         reader["old"][s] # "reading" /\ (Lifecycle(s) => s \in sent)

\* The readers of the replacement are gated until it is the owner.
NewReaders ==
  \A s \in Kept :
    /\ reader["new"][s] # "none" => repl \in {"prepared", "owner", "quit"}
    /\ reader["new"][s] \in {"reading", "ended"} => repl = "owner"

\* Where the output is.
Accounted ==
  \A s \in Kept :
    /\ repl # "owner" => screen["old"][s] + unread[s] = produced[s]
    /\ s \in sent /\ repl # "owner" /\ step # "rollback" => shipped[s] = screen["old"][s]
    /\ s \in sent /\ repl \in {"prepared", "owner"} =>
         screen["new"][s] + unread[s] = produced[s]

Readers == resuming \subseteq StartedCreates /\ OldReaders /\ NewReaders /\ Accounted

IInv == TypeOK /\ Dialogue /\ Readers

-----------------------------------------------------------------------------
(* The conversation.                                                       *)

\* What the short byte sequences of the conversation are made of.
LEMMA Bytes ==
  ASSUME NEW b \in ToNew \cup ToOld
  PROVE  Append(<<>>, b) = <<b>> /\ Head(<<b>>) = b /\ Tail(<<b>>) = <<>> /\ <<b>> # <<>>
  OBVIOUS

\* Sending and receiving a byte keeps a channel a sequence of bytes.
LEMMA Channel ==
  ASSUME NEW S, NEW q \in Seq(S)
  PROVE  /\ \A b \in S : Append(q, b) \in Seq(S)
         /\ q # <<>> => Tail(q) \in Seq(S)
         /\ q # <<>> => Head(q) \in S
         /\ <<>> \in Seq(S)
  OBVIOUS

\* The protocol's part of every step of HandoffReaders.
Talk ==
  \/ Conversation \/ Spawn \/ FinishRollback \/ Leave \/ Import \/ Commit \/ Quit
  \/ KillReplacement

\* Every step of HandoffReaders is a step of the conversation or leaves it alone.
LEMMA StepTalks == ASSUME [Next]_vars PROVE Talk \/ UNCHANGED protocol
  BY DEF Next, vars, Talk, protocol, SpawnReplacement, ResumeOld, OldExits, ImportRuntimes,
     CommitReading, NewExits, Shell, Output, Exit, CreateStarted, CreatorResumes, Prepare, ResumeReader,
     UngateReader, Read, ReaderEnds, RecordExit

\* A step of the conversation keeps its variables well typed.
LEMMA TalkTyped == ASSUME TypeOKProtocol, Talk PROVE TypeOKProtocol'
<1>0. /\ \A b \in ToNew : Append(toNew, b) \in Seq(ToNew)
      /\ \A b \in ToOld : Append(toOld, b) \in Seq(ToOld)
      /\ toNew # <<>> => Tail(toNew) \in Seq(ToNew)
      /\ toOld # <<>> => Tail(toOld) \in Seq(ToOld)
      /\ <<>> \in Seq(ToNew) /\ <<>> \in Seq(ToOld)
  <2>1. toNew \in Seq(ToNew) /\ toOld \in Seq(ToOld)
    BY DEF TypeOKProtocol
  <2>2. QED
    BY <2>1, Channel
<1>01. {"COMMIT", "FINALIZE", "ABORT"} \subseteq ToNew /\ {"READY", "PREPARED", "COMMITTED"} \subseteq ToOld
  BY DEF ToNew, ToOld
<1> USE DEF TypeOKProtocol, OldSteps, NewSteps
<1>1. CASE Restart \/ Launch \/ PrepareFails \/ Spawn \/ FinishRollback \/ Leave \/ EndHandoff
  BY <1>1 DEF Restart, Launch, PrepareFails, Spawn, FinishRollback, Leave, EndHandoff, OldGoes
<1>2. CASE ReadReady \/ ReadPrepared
  BY <1>0, <1>01, <1>2 DEF ReadReady, ReadPrepared, OldGoes, Hears, Tell
<1>3. CASE WriteFinalize \/ HandshakeFails \/ KillReplacement
  BY <1>0, <1>01, <1>3 DEF WriteFinalize, HandshakeFails, KillReplacement, OldGoes, Tell
<1>4. CASE Bootstrap \/ Import \/ ReadFinalize \/ Commit
  BY <1>0, <1>01, <1>4 DEF Bootstrap, Import, ReadFinalize, Commit, NewGoes, NewHears, Answer
<1>5. CASE ReadCommit \/ Restore \/ ReadAbort \/ ReplacementFails \/ ReplacementTimesOut \/ Quit
  BY <1>0, <1>01, <1>5
     DEF ReadCommit, Restore, ReadAbort, ReplacementFails, ReplacementTimesOut, Quit, NewGoes, NewHears
<1>6. QED
  BY <1>1, <1>2, <1>3, <1>4, <1>5 DEF Talk, Conversation

\* A step of the conversation keeps the bytes under way in line with the steps of
\* the two sides.
LEMMA TalkInLine == ASSUME TypeOKProtocol, Dialogue, Talk PROVE Dialogue'
<1> USE Bytes DEF ToNew, ToOld, Dialogue, Before, Past, TypeOKProtocol, OldSteps, NewSteps
<1>1. CASE Restart \/ Launch \/ PrepareFails \/ FinishRollback
  BY <1>1 DEF Restart, Launch, PrepareFails, FinishRollback, OldGoes
<1>2. CASE Spawn
  BY <1>2 DEF Spawn, OldGoes
<1>3. CASE ReadReady
  BY <1>3 DEF ReadReady, OldGoes, Hears, Tell
<1>4. CASE ReadPrepared
  BY <1>4 DEF ReadPrepared, OldGoes, Hears
<1>5. CASE WriteFinalize
  BY <1>5 DEF WriteFinalize, OldGoes, Tell
<1>6. CASE HandshakeFails
  BY <1>6 DEF HandshakeFails
<1>7. CASE KillReplacement
  BY <1>7 DEF KillReplacement, OldGoes
<1>8. CASE EndHandoff \/ Leave
  BY <1>8 DEF EndHandoff, Leave, OldGoes
<1>9. CASE Bootstrap
  BY <1>9 DEF Bootstrap, NewGoes, Answer
<1>10. CASE ReadCommit
  BY <1>10 DEF ReadCommit, NewGoes, NewHears
<1>11. CASE Restore
  BY <1>11 DEF Restore, NewGoes
<1>12. CASE Import
  BY <1>12 DEF Import, NewGoes, Answer
<1>13. CASE ReadFinalize
  BY <1>13 DEF ReadFinalize, NewGoes, NewHears
<1>131. CASE Commit
  BY <1>131 DEF Commit
<1>14. CASE ReadAbort
  BY <1>14 DEF ReadAbort, NewHears
<1>15. CASE ReplacementFails
  BY <1>15 DEF ReplacementFails
<1>16. CASE ReplacementTimesOut
  BY <1>16 DEF ReplacementTimesOut
<1>17. CASE Quit
  BY <1>17 DEF Quit, NewGoes
<1>18. QED
  BY <1>1, <1>2, <1>3, <1>4, <1>5, <1>6, <1>7, <1>8, <1>9, <1>10, <1>11, <1>12, <1>13,
     <1>131, <1>14, <1>15, <1>16, <1>17 DEF Talk, Conversation

\* The same for every step of the module.
LEMMA StepInLine ==
  ASSUME TypeOKProtocol, Dialogue, [Next]_vars PROVE TypeOKProtocol' /\ Dialogue'
<1>1. CASE Talk
  BY <1>1, TalkTyped, TalkInLine
<1>2. CASE UNCHANGED protocol
  BY <1>2 DEF protocol, TypeOKProtocol, Dialogue
<1>3. QED
  BY <1>1, <1>2, StepTalks

-----------------------------------------------------------------------------
(* Types.                                                                  *)

\* What SetReader does to the readers.
LEMMA ReaderSet ==
  ASSUME reader \in [Daemons -> [Shells -> ReaderStates]],
         NEW d \in Daemons, NEW s \in Shells, NEW state \in ReaderStates,
         SetReader(d, s, state)
  PROVE  /\ reader' \in [Daemons -> [Shells -> ReaderStates]]
         /\ reader'[d][s] = state
         /\ \A e \in Daemons, t \in Shells : e # d \/ t # s => reader'[e][t] = reader[e][t]
  BY DEF SetReader

\* A step of one Shell keeps the variables of the readers well typed.
LEMMA ShellTyped == ASSUME TypeOK, NEW s \in Shells, Shell(s) PROVE TypeOK'
<1>0. "old" \in Daemons /\ "new" \in Daemons
  BY DEF Daemons
<1>1. TypeOKProtocol' /\ TypeOK
  BY DEF TypeOK, TypeOKProtocol, protocol, Shell, Output, Exit, CreateStarted, CreatorResumes,
     Prepare, ResumeReader, UngateReader, Read, ReaderEnds, RecordExit
<1> HIDE DEF TypeOKProtocol
<1> USE ReaderSet DEF TypeOK, ReaderStates
<1>2. CASE Output(s)
  BY <1>1, <1>2 DEF Output
<1>21. CASE Exit(s)
  BY <1>1, <1>21 DEF Exit, Lives
<1>3. CASE CreateStarted(s)
  BY <1>0, <1>1, <1>3 DEF CreateStarted, Lives
<1>4. CASE CreatorResumes(s)
  BY <1>0, <1>1, <1>4 DEF CreatorResumes
<1>5. CASE Prepare(s)
  BY <1>0, <1>1, <1>5 DEF Prepare
<1>6. CASE ResumeReader(s) \/ UngateReader(s)
  BY <1>0, <1>1, <1>6 DEF ResumeReader, UngateReader
<1>7. ASSUME NEW d \in Daemons, Read(d, s) PROVE TypeOK'
  BY <1>1, <1>7 DEF Read
<1>8. ASSUME NEW d \in Daemons, ReaderEnds(d, s) \/ RecordExit(d, s) PROVE TypeOK'
  BY <1>1, <1>8 DEF ReaderEnds, RecordExit, Lives
<1>9. QED
  BY <1>2, <1>21, <1>3, <1>4, <1>5, <1>6, <1>7, <1>8 DEF Shell

\* Every step of the module keeps the state well typed.
LEMMA StepTyped == ASSUME TypeOK, Dialogue, [Next]_vars PROVE TypeOK'
<1>1. TypeOKProtocol'
  BY StepInLine DEF TypeOK
<1> HIDE DEF TypeOKProtocol
<1>2. CASE UNCHANGED readers
  BY <1>1, <1>2 DEF TypeOK, readers
<1>3. CASE OldExits \/ NewExits
  BY <1>1, <1>3 DEF TypeOK, OldExits, NewExits, Daemons, ReaderStates
<1>4. CASE ImportRuntimes
  <2>1. [s \in Shells |-> IF s \in sent THEN shipped[s] ELSE 0] \in [Shells -> Nat]
    BY DEF TypeOK
  <2>2. [s \in Shells |-> IF s \in sent THEN "paused" ELSE "none"] \in [Shells -> ReaderStates]
    BY DEF ReaderStates
  <2>3. QED
    BY <1>1, <1>4, <2>1, <2>2 DEF TypeOK, ImportRuntimes, Daemons
<1>5. ASSUME NEW s \in Shells, Shell(s) PROVE TypeOK'
  BY <1>5, ShellTyped
<1>6. QED
  BY <1>2, <1>3, <1>4, <1>5 DEF Next, vars, readers, SpawnReplacement, ResumeOld, CommitReading

-----------------------------------------------------------------------------
(* Readers and output of the Shells that no started creation made.         *)

\* Nobody but the old daemon is there before the spawn and after a rollback, and
\* an owner is there only past the boundary.
LEMMA WhoIsThere ==
  ASSUME TypeOKProtocol, Dialogue
  PROVE  (step \in Before => repl = "none") /\ (repl = "owner" => step \in Past)
  BY DEF Before, Past, Dialogue, TypeOKProtocol, OldSteps

\* A step of the conversation leaves readers and output as they should be.
LEMMA TalkKeepsReaders ==
  ASSUME TypeOK, Dialogue, Readers, Conversation, UNCHANGED readers PROVE Readers'
<1> USE DEF readers
<1>0. TypeOKProtocol /\ (step \in Before => repl = "none") /\ (repl = "owner" => step \in Past)
  BY WhoIsThere DEF TypeOK
<1>1. CASE Restart \/ Launch \/ PrepareFails
  <2>1. step \in Before /\ step' \in Before /\ repl' = "none" /\ repl = "none" /\ step # "rollback"
        /\ (step' \in {"serving", "requested"} => step \in {"serving", "requested"})
    BY <1>0, <1>1 DEF Restart, Launch, PrepareFails, OldGoes, Before
  <2>2. QED
    BY <2>1 DEF Readers, OldReaders, NewReaders, Accounted, Before, Past, OldServes, Lifecycle
<1>2. CASE ReadReady \/ ReadPrepared \/ WriteFinalize \/ HandshakeFails \/ EndHandoff
  <2>1. /\ step \notin Before /\ step' \notin Before /\ repl' = repl
        /\ step # "gone" /\ step' # "gone"
        /\ step \in Past => step' \in Past
    BY <1>2 DEF ReadReady, ReadPrepared, WriteFinalize, HandshakeFails, EndHandoff, OldGoes,
       Before, Past
  <2>2. QED
    BY <2>1 DEF Readers, OldReaders, NewReaders, Accounted, Before, Past, OldServes, Lifecycle
<1>3. CASE Bootstrap \/ ReadCommit \/ Restore \/ ReadFinalize \/ ReadAbort
           \/ ReplacementFails \/ ReplacementTimesOut
  <2>1. /\ step' = step /\ repl # "owner"
        /\ repl' \in {"prepared", "owner"} => repl = "prepared"
        /\ repl \in {"prepared", "owner", "quit"} => repl' \in {"prepared", "owner", "quit"}
    BY <1>3 DEF Bootstrap, ReadCommit, Restore, ReadFinalize, ReadAbort, ReplacementFails,
       ReplacementTimesOut, NewGoes
  <2>2. QED
    BY <2>1 DEF Readers, OldReaders, NewReaders, Accounted, Before, Past, OldServes, Lifecycle
<1>4. QED
  BY <1>1, <1>2, <1>3 DEF Conversation

\* Starting, importing into, ending and rolling back either daemon does so too.
LEMMA DaemonKeepsReaders ==
  ASSUME TypeOK, Dialogue, Readers,
         SpawnReplacement \/ ResumeOld \/ OldExits \/ ImportRuntimes \/ CommitReading
           \/ NewExits
  PROVE  Readers'
<1>0. TypeOKProtocol /\ (step \in Before => repl = "none") /\ (repl = "owner" => step \in Past)
  BY WhoIsThere DEF TypeOK
<1> USE DEF Readers, OldReaders, NewReaders, Accounted, Before, Past, OldServes, Lifecycle, Kept
<1>1. CASE SpawnReplacement
  BY <1>0, <1>1 DEF SpawnReplacement, Spawn, OldGoes, readers, TypeOK, Lives
<1>2. CASE ResumeOld
  BY <1>0, <1>2 DEF ResumeOld, FinishRollback, OldGoes, readers
<1>3. CASE OldExits
  BY <1>0, <1>3 DEF OldExits, Leave, OldGoes, TypeOK, Daemons
<1>4. CASE ImportRuntimes
  <2>1. /\ step' = step /\ repl = "import" /\ repl' = "prepared"
        /\ UNCHANGED <<life, produced, unread, sent, shipped, resuming>>
    BY <1>4 DEF ImportRuntimes, Import, NewGoes
  <2>2. \A s \in Shells :
          /\ reader'["old"][s] = reader["old"][s] /\ reader'["new"][s] \in {"paused", "none"}
          /\ screen'["old"][s] = screen["old"][s]
          /\ s \in sent => screen'["new"][s] = shipped[s]
    BY <1>4 DEF ImportRuntimes, TypeOK, Daemons
  <2>3. OldReaders'
    BY <2>1, <2>2
  <2>4. NewReaders'
    BY <2>1, <2>2
  <2>5. Accounted'
    BY <1>0, <2>1, <2>2
  <2>6. QED
    BY <2>1, <2>3, <2>4, <2>5
<1>41. CASE CommitReading
  BY <1>0, <1>41 DEF CommitReading, Commit, readers
<1>5. CASE NewExits
  <2>1. /\ repl' = "none" /\ repl # "owner"
        /\ step' = step \/ (step = "aborting" /\ step' = "rollback")
        /\ UNCHANGED <<life, produced, unread, screen, sent, shipped, resuming>>
    BY <1>5 DEF NewExits, Quit, KillReplacement, NewGoes, OldGoes, Dialogue
  <2>2. \A s \in Shells :
          reader'["old"][s] = reader["old"][s] /\ reader'["new"][s] = "none"
    BY <1>5 DEF NewExits, TypeOK, Daemons
  <2>3. NewReaders' /\ Accounted'
    BY <1>0, <2>1, <2>2
  <2>4. CASE step' = step
    BY <2>1, <2>2, <2>3, <2>4
  <2>5. CASE step = "aborting" /\ step' = "rollback"
    <3>1. ASSUME NEW s \in Kept, s \in sent PROVE reader["old"][s] \in {"paused", "ended"}
      <4>1. reader["old"][s] \in ReaderStates
        BY DEF TypeOK, Daemons
      <4>2. reader["old"][s] # "none" /\ reader["old"][s] # "reading"
        BY <2>5
      <4>3. QED
        BY <4>1, <4>2 DEF ReaderStates
    <3>2. ASSUME NEW s \in Kept, s \notin sent PROVE reader["old"][s] = "ended"
      <4>1. life[s] \in Lives /\ life[s] # "absent" /\ ~Lifecycle(s)
        BY <2>5, <3>2 DEF TypeOK
      <4>2. QED
        BY <2>5, <4>1 DEF Lives
    <3>3. OldReaders'
      BY <2>1, <2>2, <2>5, <3>1, <3>2
    <3>4. QED
      BY <2>1, <2>3, <3>3
  <2>6. QED
    BY <2>1, <2>4, <2>5
<1>6. QED
  BY <1>1, <1>2, <1>3, <1>4, <1>41, <1>5

\* So does a step of one Shell.
LEMMA ShellKeepsReaders ==
  ASSUME TypeOK, Dialogue, Readers, NEW s \in Shells, Shell(s)
  PROVE  Readers'
<1>0. TypeOKProtocol /\ (step \in Before => repl = "none") /\ (repl = "owner" => step \in Past)
  BY WhoIsThere DEF TypeOK
<1>2. "old" \in Daemons /\ "new" \in Daemons /\ "old" # "new"
      /\ reader \in [Daemons -> [Shells -> ReaderStates]]
      /\ {"paused", "reading", "ended"} \subseteq ReaderStates
  BY DEF Daemons, TypeOK, ReaderStates
<1> USE DEF Readers, OldReaders, NewReaders, Accounted, Before, Past, OldServes, Lifecycle, Kept
<1>1. CASE CreateStarted(s) \/ CreatorResumes(s)
  <2>1. s \in StartedCreates /\ resuming' \subseteq StartedCreates
        /\ UNCHANGED <<protocol, produced, unread, screen, sent, shipped>>
    BY <1>1 DEF CreateStarted, CreatorResumes
  <2>2. \A t \in Shells : t # s =>
          /\ reader'["old"][t] = reader["old"][t] /\ reader'["new"][t] = reader["new"][t]
          /\ life'[t] = life[t]
    BY <1>1, <1>2, ReaderSet DEF CreateStarted, CreatorResumes, TypeOK
  <2>3. QED
    BY <2>1, <2>2 DEF protocol
<1>3. CASE Output(s)
  <2>1. /\ UNCHANGED <<protocol, life, reader, screen, sent, shipped, resuming>>
        /\ \A t \in Shells : t # s => produced'[t] = produced[t] /\ unread'[t] = unread[t]
        /\ produced'[s] = produced[s] + 1 /\ unread'[s] = unread[s] + 1
    BY <1>3 DEF Output, TypeOK
  <2>2. /\ produced[s] \in Nat /\ unread[s] \in Nat
        /\ screen["old"][s] \in Nat /\ screen["new"][s] \in Nat
    BY <1>2 DEF TypeOK
  <2>3. Accounted'
    BY <2>1, <2>2 DEF protocol
  <2>4. QED
    BY <2>1, <2>3 DEF protocol
<1>4. CASE Exit(s)
  BY <1>4 DEF Exit, protocol, TypeOK
<1>5. CASE Prepare(s)
  <2>1. \A t \in Shells :
          /\ t # s => reader'["old"][t] = reader["old"][t]
          /\ reader'["new"][t] = reader["new"][t]
          /\ t = s => reader'["old"][t] = IF reader["old"][s] = "reading" THEN "paused"
                                                                      ELSE reader["old"][s]
    BY <1>2, <1>5, ReaderSet DEF Prepare
  <2>2. QED
    BY <1>0, <1>5, <2>1 DEF Prepare, protocol, TypeOK, Daemons
<1>6. CASE ResumeReader(s)
  <2>1. \A t \in Shells :
          /\ t # s => reader'["old"][t] = reader["old"][t]
          /\ reader'["new"][t] = reader["new"][t]
          /\ t = s => reader'["old"][t] = IF reader["old"][s] = "paused" THEN "reading"
                                                                     ELSE reader["old"][s]
    BY <1>2, <1>6, ReaderSet DEF ResumeReader
  <2>2. QED
    BY <1>0, <1>6, <2>1 DEF ResumeReader, protocol, TypeOK, Daemons
<1>7. CASE UngateReader(s)
  <2>1. \A t \in Shells :
          /\ reader'["old"][t] = reader["old"][t]
          /\ t # s => reader'["new"][t] = reader["new"][t]
    BY <1>2, <1>7, ReaderSet DEF UngateReader
  <2>2. QED
    BY <1>7, <2>1 DEF UngateReader, protocol
<1>8. CASE Read("old", s)
  <2>1. s \in Kept => step \in Before /\ s \notin sent /\ repl = "none"
    BY <1>0, <1>8 DEF Read
  <2>2. /\ UNCHANGED <<protocol, life, reader, produced, sent, shipped, resuming>>
        /\ \A t \in Shells : t # s => screen'["old"][t] = screen["old"][t] /\ unread'[t] = unread[t]
        /\ screen'["old"][s] = screen["old"][s] + 1 /\ unread'[s] = unread[s] - 1
    BY <1>8 DEF Read, TypeOK, Daemons
  <2>3. screen["old"][s] \in Nat /\ unread[s] \in Nat
        /\ \A t \in Shells : screen'["new"][t] = screen["new"][t]
    BY <1>2, <1>8 DEF TypeOK, Read, Daemons
  <2>4. Accounted'
    BY <2>1, <2>2, <2>3 DEF protocol
  <2>5. QED
    BY <2>2, <2>4 DEF protocol
<1>9. CASE Read("new", s)
  <2>1. s \in Kept => repl = "owner"
    BY <1>9 DEF Read
  <2>2. /\ UNCHANGED <<protocol, life, reader, produced, sent, shipped, resuming>>
        /\ \A t \in Shells : t # s => screen'["new"][t] = screen["new"][t] /\ unread'[t] = unread[t]
        /\ screen'["new"][s] = screen["new"][s] + 1 /\ unread'[s] = unread[s] - 1
    BY <1>9 DEF Read, TypeOK, Daemons
  <2>3. screen["new"][s] \in Nat /\ unread[s] \in Nat
        /\ \A t \in Shells : screen'["old"][t] = screen["old"][t]
    BY <1>2, <1>9 DEF TypeOK, Read, Daemons
  <2>4. Accounted'
    BY <2>1, <2>2, <2>3 DEF protocol
  <2>5. QED
    BY <2>2, <2>4 DEF protocol
<1>10. CASE ReaderEnds("old", s)
  <2>1. \A t \in Shells :
          /\ t # s => reader'["old"][t] = reader["old"][t]
          /\ reader'["new"][t] = reader["new"][t]
          /\ t = s => reader'["old"][t] = "ended"
    BY <1>2, <1>10, ReaderSet DEF ReaderEnds
  <2>2. QED
    BY <1>10, <2>1 DEF ReaderEnds, protocol
<1>11. CASE ReaderEnds("new", s)
  <2>1. \A t \in Shells :
          /\ reader'["old"][t] = reader["old"][t]
          /\ t # s => reader'["new"][t] = reader["new"][t]
    BY <1>2, <1>11, ReaderSet DEF ReaderEnds
  <2>2. QED
    BY <1>11, <2>1 DEF ReaderEnds, protocol
<1>12. CASE RecordExit("old", s)
  BY <1>12 DEF RecordExit, protocol, TypeOK
<1>13. CASE RecordExit("new", s)
  BY <1>0, <1>13 DEF RecordExit, protocol, TypeOK
<1>14. QED
  BY <1>1, <1>3, <1>4, <1>5, <1>6, <1>7, <1>8, <1>9, <1>10, <1>11, <1>12, <1>13
     DEF Shell, Daemons

-----------------------------------------------------------------------------
(* The theorems.                                                           *)

\* The initial states satisfy the inductive invariant.
LEMMA InitIInv == ASSUME Init PROVE IInv
<1>1. TypeOK
  BY DEF Init, InitProtocol, TypeOK, TypeOKProtocol, OldSteps, NewSteps, Lives, Daemons, ReaderStates
<1>2. Dialogue
  BY DEF Init, InitProtocol, Dialogue, Before, Past
<1>3. Readers
  BY DEF Init, InitProtocol, Readers, OldReaders, NewReaders, Accounted, Before, Past, OldServes,
     Lifecycle, Daemons, Kept
<1>4. QED
  BY <1>1, <1>2, <1>3 DEF IInv

\* Every step keeps it.
LEMMA NextIInv == ASSUME IInv, [Next]_vars PROVE IInv'
<1>1. TypeOK /\ Dialogue /\ TypeOK' /\ Dialogue'
  BY StepTyped, StepInLine DEF IInv, TypeOK
<1>2. Readers'
  <2>1. Readers
    BY DEF IInv
  <2>2. CASE UNCHANGED vars
    BY <2>1, <2>2 DEF vars, protocol, readers, Readers, OldReaders, NewReaders, Accounted,
       OldServes, Lifecycle
  <2>3. CASE Conversation /\ UNCHANGED readers
    BY <1>1, <2>1, <2>3, TalkKeepsReaders
  <2>4. CASE SpawnReplacement \/ ResumeOld \/ OldExits \/ ImportRuntimes \/ CommitReading
           \/ NewExits
    BY <1>1, <2>1, <2>4, DaemonKeepsReaders
  <2>5. ASSUME NEW s \in Shells, Shell(s) PROVE Readers'
    BY <1>1, <2>1, <2>5, ShellKeepsReaders
  <2>6. QED
    BY <2>2, <2>3, <2>4, <2>5 DEF Next
<1>3. QED
  BY <1>1, <1>2 DEF IInv

\* The inductive invariant holds throughout.
THEOREM Invariant == Spec => []IInv
  BY InitIInv, NextIInv, PTL DEF Spec

\* Every reachable state of a handoff is well typed.
THEOREM TypeCorrect == Spec => []TypeOK
<1>1. IInv => TypeOK
  BY DEF IInv
<1>2. QED
  BY <1>1, Invariant, PTL

\* Two daemons never serve the same Shells (launch_replacement_process and
\* run_daemon), whatever times out on either side.
THEOREM OneOwner == Spec => []AtMostOneOwner
<1>1. IInv => AtMostOneOwner
  BY WhoIsThere DEF IInv, TypeOK, AtMostOneOwner, Past
<1>2. QED
  BY <1>1, Invariant, PTL

\* If the replacement waits for FINALIZE as long as the old daemon may take to
\* write it, a handoff never leaves the Shells without an owner.
THEOREM SomeOwner == ASSUME ~FinalTimeout PROVE Spec => []NeverOrphaned
<1>1. IInv => NeverOrphaned
  BY Bytes DEF IInv, Dialogue, Past, NeverOrphaned, ToNew
<1>2. QED
  BY <1>1, Invariant, PTL

\* Exactly one daemon reads the PTY of a Shell at a time, unless the Shell was
\* created started.
THEOREM NeverTwoReaders == Spec => []OneReader
<1>1. IInv => OneReader
  BY WhoIsThere DEF IInv, TypeOK, Readers, OldReaders, NewReaders, OneReader, ReadTwice, Before,
     Past, Kept
<1>2. QED
  BY <1>1, Invariant, PTL

\* No output of such a Shell is lost or duplicated across any number of attempts,
\* failed or not.
THEOREM OutputKept == Spec => []NothingLost
<1>1. IInv => NothingLost
  BY WhoIsThere DEF IInv, TypeOK, Readers, OldReaders, Accounted, NothingLost, OldServes, Before,
     Past, Kept
<1>2. QED
  BY <1>1, Invariant, PTL

-----------------------------------------------------------------------------
(* The files.                                                              *)

StoresTyped ==
  /\ known \in [{"old", "new"} -> SUBSET Shells]
  /\ disk \subseteq Shells
  /\ file \subseteq Record /\ records \subseteq Record

\* The journal holds no more than the old daemon believes, and what that believes
\* is of its own Shells.
Believed ==
  /\ file \subseteq records
  /\ \A r \in records : r[2] \in known["old"]

\* Until the boundary no Shell is in the state file that the old daemon lacks.
Loaded == {"import", "prepared", "owner"}
Covered ==
  /\ known["old"] \subseteq InFiles
  /\ step \notin Past => disk \subseteq known["old"]

\* A replacement that has replayed the journal left it empty and has all there is,
\* and nothing else until it owns the files.
Replayed ==
  repl \in Loaded =>
    /\ file = {} /\ known["old"] \cup disk \subseteq known["new"]
    /\ step \notin Past => known["new"] \subseteq known["old"]

StoresInv ==
  TypeOKProtocol /\ Dialogue /\ StoresTyped /\ Believed /\ Covered /\ Replayed

\* The creations of a journal and of one with a record more.
LEMMA Journaling ==
  ASSUME NEW q, NEW s \in Shells
  PROVE  /\ Created(q \cup {<<"create", s>>}) = Created(q) \cup {s}
         /\ Created(q \cup {<<"start", s>>}) = Created(q)
         /\ Created({}) = {}
<1>1. \A t \in Shells : <<"start", s>> # <<"create", t>>
  OBVIOUS
<1>2. \A t \in Shells : <<"create", s>> = <<"create", t>> <=> s = t
  OBVIOUS
<1> QED BY <1>1, <1>2 DEF Created

\* What holds of the files between any two steps.
Files == StoresTyped /\ Believed /\ Covered /\ Replayed

\* The steps of HandoffStores that belong to the conversation.
LEMMA StoresTalk == ASSUME [StoresNext]_storesVars PROVE Talk \/ UNCHANGED protocol
<1> USE DEF protocol
<1>1. CASE UNCHANGED storesVars
  BY <1>1 DEF storesVars, protocol
<1>2. CASE FilesAlone \/ RestartCheckpointed \/ RestoreStores \/ ImportStores
  BY <1>2 DEF FilesAlone, Talk, Conversation, RestartCheckpointed, RestoreStores, ImportStores
<1>3. CASE Checkpoint
  BY <1>3 DEF Checkpoint, protocol
<1>4. ASSUME NEW s \in Shells,
             LocalCreate(s) \/ Start(s) \/ SaveExit(s) \/ OwnerCreate(s)
      PROVE  UNCHANGED protocol
  BY <1>4 DEF LocalCreate, Start, SaveExit, OwnerCreate, protocol
<1> QED
  BY <1>1, <1>2, <1>3, <1>4 DEF StoresNext

\* The conversation does not touch the files: it does not come back from the
\* boundary, and nothing but a restore makes a replacement that has loaded them.
LEMMA ConversationKeepsStores ==
  ASSUME StoresInv, FilesAlone, UNCHANGED stores PROVE Files'
<1>1. /\ step \in Past => step' \in Past
      /\ repl' \in Loaded => repl \in Loaded
  BY DEF Past, Loaded, FilesAlone, Launch, PrepareFails, Spawn, ReadReady, ReadPrepared,
     WriteFinalize, HandshakeFails, KillReplacement, FinishRollback, EndHandoff, Leave,
     Bootstrap, ReadCommit, ReadFinalize, Commit, ReadAbort, ReplacementFails,
     ReplacementTimesOut, Quit, OldGoes, NewGoes
<1>2. UNCHANGED <<known, disk, file, records>>
  BY DEF stores
<1> QED
  BY <1>1, <1>2 DEF StoresInv, Files, StoresTyped, Believed, Covered, Replayed, InFiles, Created

\* While the old daemon serves there is no replacement.
LEMMA OldAlone ==
  ASSUME StoresInv, OldServes
  PROVE  repl = "none" /\ step \notin Past /\ disk \subseteq known["old"]
<1>1. repl = "none" /\ step \notin Past
  BY WhoIsThere DEF StoresInv, OldServes, Before, Past
<1> QED BY <1>1 DEF StoresInv, Covered

\* A creation is journaled before it is reported, a start is journaled where the
\* daemon believes its creation to be, and a save covers the whole registry.
LEMMA OldKeepsStores ==
  ASSUME StoresInv, NEW s \in Shells, LocalCreate(s) \/ Start(s) \/ SaveExit(s)
  PROVE  Files' /\ InFiles \subseteq InFiles'
<1>1. OldServes /\ step' = step /\ repl' = repl
  BY DEF LocalCreate, Start, SaveExit, protocol
<1>2. repl' = "none" /\ step' \notin Past /\ disk \subseteq known["old"]
  BY <1>1, OldAlone
<1>3. Replayed' BY <1>2 DEF Replayed, Loaded
<1>4. CASE LocalCreate(s)
  <2>1. /\ known' = [known EXCEPT !["old"] = @ \cup {s}]
        /\ file' = file \cup {<<"create", s>>} /\ records' = records \cup {<<"create", s>>}
        /\ disk' = disk
    BY <1>4 DEF LocalCreate
  <2>2. known' \in [{"old", "new"} -> SUBSET Shells] /\ known'["old"] = known["old"] \cup {s}
    BY <2>1 DEF StoresInv, StoresTyped
  <2>3. StoresTyped' /\ Believed'
    BY <2>1, <2>2 DEF StoresInv, StoresTyped, Believed, Record
  <2>4. InFiles' = InFiles \cup {s}
    <3>1. InFiles' = disk \cup (Created(file) \cup {s})
      BY <2>1, Journaling DEF InFiles
    <3> QED BY <3>1 DEF InFiles
  <2>5. Covered'
    BY <1>2, <2>1, <2>2, <2>4 DEF StoresInv, Covered
  <2> QED BY <1>3, <2>3, <2>4, <2>5 DEF Files
<1>5. CASE Start(s) /\ <<"create", s>> \in records
  <2>1. /\ file' = file \cup {<<"start", s>>} /\ records' = records \cup {<<"start", s>>}
        /\ s \in known["old"] /\ UNCHANGED <<known, disk>>
    BY <1>5 DEF Start
  <2>2. StoresTyped' /\ Believed'
    BY <2>1 DEF StoresInv, StoresTyped, Believed, Record
  <2>3. InFiles' = InFiles
    BY <2>1, Journaling DEF InFiles
  <2>4. Covered'
    BY <1>2, <2>1, <2>3 DEF StoresInv, Covered
  <2> QED BY <1>3, <2>2, <2>3, <2>4 DEF Files
<1>6. CASE (Start(s) /\ <<"create", s>> \notin records) \/ SaveExit(s)
  <2>1. disk' = known["old"] /\ UNCHANGED <<known, file, records>>
    BY <1>6 DEF Start, SaveExit
  <2>2. StoresTyped' /\ Believed' /\ Covered'
    BY <2>1 DEF StoresInv, StoresTyped, Believed, Covered, InFiles, Created
  <2>3. InFiles \subseteq InFiles'
    BY <1>2, <2>1 DEF InFiles, Created
  <2> QED BY <1>3, <2>2, <2>3 DEF Files
<1> QED BY <1>4, <1>5, <1>6

\* A checkpoint empties the journal into a state file with every Shell of the old
\* daemon, in which the records are; only past the boundary may the state file
\* have had others.
LEMMA CheckpointKeepsStores ==
  ASSUME StoresInv, Checkpoint \/ RestartCheckpointed
  PROVE  Files' /\ (step # "leaving" => InFiles \subseteq InFiles')
<1>1. /\ SaveAndClear /\ known' = known
      /\ step \in {"serving", "requested", "leaving"}
      /\ step' \in Past <=> step \in Past
      /\ repl' = repl
  BY DEF Checkpoint, RestartCheckpointed, Restart, OldGoes, protocol, Locked, StoresInv,
     TypeOKProtocol, OldSteps, Past
<1>2. CASE records = {}
  <2>1. UNCHANGED <<disk, file, records>>
    BY <1>1, <1>2 DEF SaveAndClear
  <2>2. StoresTyped' /\ Believed' /\ InFiles' = InFiles
    BY <1>1, <2>1 DEF StoresInv, StoresTyped, Believed, InFiles
  <2>3. Covered' /\ Replayed'
    BY <1>1, <2>1, <2>2 DEF StoresInv, Covered, Replayed, Past
  <2> QED BY <2>2, <2>3 DEF Files
<1>3. CASE records # {}
  <2>1. disk' = known["old"] /\ file' = {} /\ records' = {}
    BY <1>1, <1>3 DEF SaveAndClear
  <2>2. StoresTyped' /\ Believed' /\ Covered'
    BY <1>1, <2>1 DEF StoresInv, StoresTyped, Believed, Covered, InFiles, Created
  <2>3. Replayed'
    <3> SUFFICES ASSUME repl \in Loaded
                 PROVE  /\ known["old"] \subseteq known["new"]
                        /\ step \notin Past => known["new"] \subseteq known["old"]
      BY <1>1, <2>1 DEF Replayed
    <3> QED BY DEF StoresInv, Replayed
  <2>4. ASSUME step # "leaving" PROVE InFiles \subseteq InFiles'
    <3>1. disk \subseteq known["old"]
      BY <1>1, <2>4 DEF StoresInv, Covered, Past
    <3>2. Created(file) \subseteq known["old"]
      BY DEF StoresInv, Believed, Created
    <3> QED BY <2>1, <3>1, <3>2 DEF InFiles
  <2> QED BY <2>2, <2>3, <2>4 DEF Files
<1> QED BY <1>2, <1>3

\* What a replacement loads and saves is what the files had, whether it will own
\* them or fail: nobody writes between its replay and its import.
LEMMA LoadingKeepsStores ==
  ASSUME StoresInv, RestoreStores \/ ImportStores
  PROVE  Files' /\ InFiles \subseteq InFiles'
<1>1. step' = step /\ repl' \in Loaded
  BY DEF RestoreStores, ImportStores, Restore, Import, NewGoes, Loaded
<1>2. Created(file) \subseteq known["old"]
  BY DEF StoresInv, Believed, Created
<1>3. CASE RestoreStores
  <2>1. /\ known' = [known EXCEPT !["new"] = InFiles] /\ disk' = InFiles /\ file' = {}
        /\ records' = records
    BY <1>3 DEF RestoreStores, InFiles, Created
  <2>2. InFiles \subseteq Shells
    BY DEF StoresInv, StoresTyped, InFiles, Created
  <2>3. /\ known' \in [{"old", "new"} -> SUBSET Shells]
        /\ known'["old"] = known["old"] /\ known'["new"] = InFiles
    BY <2>1, <2>2 DEF StoresInv, StoresTyped
  <2>4. InFiles' = InFiles
    BY <2>1 DEF InFiles, Created
  <2>5. StoresTyped' /\ Believed'
    BY <2>1, <2>2, <2>3 DEF StoresInv, StoresTyped, Believed
  <2>6. step \notin Past => InFiles \subseteq known["old"]
    BY <1>2 DEF StoresInv, Covered, InFiles, Past
  <2>7. Covered' /\ Replayed'
    BY <1>1, <2>1, <2>3, <2>4, <2>6 DEF StoresInv, Covered, Replayed
  <2> QED BY <2>4, <2>5, <2>7 DEF Files
<1>4. CASE ImportStores
  <2>1. disk' = known["new"] /\ repl \in Loaded /\ UNCHANGED <<known, file, records>>
    BY <1>4 DEF ImportStores, Import, NewGoes, Loaded
  <2>2. /\ file = {} /\ known["old"] \cup disk \subseteq known["new"]
        /\ step \notin Past => known["new"] \subseteq known["old"]
    BY <2>1 DEF StoresInv, Replayed
  <2>3. InFiles = disk /\ InFiles' = known["new"]
    BY <2>1, <2>2 DEF InFiles, Created
  <2>4. StoresTyped' /\ Believed'
    BY <2>1 DEF StoresInv, StoresTyped, Believed
  <2>5. Covered' /\ Replayed'
    BY <1>1, <2>1, <2>2, <2>3 DEF Covered, Replayed
  <2> QED BY <2>2, <2>3, <2>4, <2>5 DEF Files
<1> QED BY <1>3, <1>4

\* The new owner saves its registry with each creation.
LEMMA OwnerKeepsStores ==
  ASSUME StoresInv, NEW s \in Shells, OwnerCreate(s)
  PROVE  Files' /\ InFiles \subseteq InFiles'
<1>1. /\ known' = [known EXCEPT !["new"] = @ \cup {s}] /\ disk' = known'["new"]
      /\ repl = "owner" /\ UNCHANGED <<step, repl, file, records>>
  BY DEF OwnerCreate, NewServes, protocol
<1>2. step \in Past
  BY <1>1, WhoIsThere DEF StoresInv
<1>3. /\ known' \in [{"old", "new"} -> SUBSET Shells]
      /\ known'["old"] = known["old"] /\ known'["new"] = known["new"] \cup {s}
      /\ known["new"] \subseteq Shells
  BY <1>1 DEF StoresInv, StoresTyped
<1>4. file = {} /\ known["old"] \cup disk \subseteq known["new"]
  BY <1>1 DEF StoresInv, Replayed, Loaded
<1>5. InFiles = disk /\ InFiles' = known'["new"]
  BY <1>1, <1>4 DEF InFiles, Created
<1>6. StoresTyped' /\ Believed'
  BY <1>1, <1>3 DEF StoresInv, StoresTyped, Believed
<1>7. Covered' /\ Replayed'
  BY <1>1, <1>2, <1>3, <1>4, <1>5 DEF Covered, Replayed
<1> QED BY <1>3, <1>4, <1>5, <1>6, <1>7 DEF Files

\* The initial states satisfy the invariant.
LEMMA StoresInitially == ASSUME StoresInit PROVE StoresInv
<1> USE DEF StoresInit, InitProtocol
<1>1. TypeOKProtocol /\ Dialogue
  BY DEF TypeOKProtocol, OldSteps, NewSteps, Dialogue, Before, Past
<1>2. StoresTyped /\ Believed /\ Covered /\ Replayed
  BY DEF StoresTyped, Believed, Covered, Replayed, Loaded, InFiles, Created
<1> QED BY <1>1, <1>2 DEF StoresInv

\* Every step keeps it, and all but one keep what the files have.
LEMMA StoresStep ==
  ASSUME StoresInv, [StoresNext]_storesVars
  PROVE  /\ StoresInv'
         /\ ~(step = "leaving" /\ Checkpoint) => InFiles \subseteq InFiles'
<1>1. TypeOKProtocol' /\ Dialogue'
  <2>1. CASE Talk
    BY <2>1, TalkTyped, TalkInLine DEF StoresInv
  <2>2. CASE UNCHANGED protocol
    BY <2>2 DEF StoresInv, protocol, TypeOKProtocol, Dialogue
  <2> QED BY <2>1, <2>2, StoresTalk
<1>2. CASE UNCHANGED storesVars
  BY <1>1, <1>2 DEF StoresInv, storesVars, protocol, stores, StoresTyped, Believed, Covered,
     Replayed, InFiles, Created
<1>3. CASE FilesAlone /\ UNCHANGED stores
  <2>1. InFiles' = InFiles BY <1>3 DEF stores, InFiles, Created
  <2> QED BY <1>1, <1>3, <2>1, ConversationKeepsStores DEF StoresInv, Files
<1>4. CASE Checkpoint \/ RestartCheckpointed
  <2>1. RestartCheckpointed => step # "leaving"
    BY DEF RestartCheckpointed, Restart, OldGoes
  <2> QED BY <1>1, <1>4, <2>1, CheckpointKeepsStores DEF StoresInv, Files
<1>5. CASE RestoreStores \/ ImportStores
  BY <1>1, <1>5, LoadingKeepsStores DEF StoresInv, Files
<1>6. ASSUME NEW s \in Shells,
             LocalCreate(s) \/ Start(s) \/ SaveExit(s) \/ OwnerCreate(s)
      PROVE  StoresInv' /\ InFiles \subseteq InFiles'
  BY <1>1, <1>6, OldKeepsStores, OwnerKeepsStores DEF StoresInv, Files
<1> QED BY <1>2, <1>3, <1>4, <1>5, <1>6 DEF StoresNext

\* Whatever is journaled after a restart request's checkpoint, however often a
\* handoff fails with the journal replayed and emptied, and whenever a checkpoint
\* that waited for mutation_lock runs: the Shells of the old daemon stay in the
\* files (replay_local_shell_transactions, import_handoff,
\* checkpoint_local_shell_transactions).
THEOREM OldCreationsSurvive == StoresSpec => []OldCreationsKept
<1>1. StoresInv => OldCreationsKept
  BY DEF StoresInv, Believed, Covered, OldCreationsKept
<1> QED BY <1>1, StoresInitially, StoresStep, PTL DEF StoresSpec

\* The files lose a Shell to nothing but a checkpoint that waited for mutation_lock
\* in a daemon that has handed off.
THEOREM LateCheckpointAlone == StoresSpec => OnlyLateCheckpointLoses
<1>1. StoresInv /\ [StoresNext]_storesVars =>
        [~(step = "leaving" /\ Checkpoint) => InFiles \subseteq InFiles']_storesVars
  BY StoresStep
<1> QED BY <1>1, StoresInitially, StoresStep, PTL DEF StoresSpec, OnlyLateCheckpointLoses
=============================================================================
