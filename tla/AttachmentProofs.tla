-------------------------- MODULE AttachmentProofs --------------------------
(***************************************************************************)
(* What a takeover, a restart and a pause may rely on, for any Clients, any *)
(* queue, any number of collaborators and any output.                       *)
(***************************************************************************)
EXTENDS Attachment, SequenceTheorems, TLAPS

\* Who holds mutation and control, and who may be a participant then.
Installing == {"control", "terminal", "install"}
Controlling == {"terminal", "install", "write", "resize"}
Attached == {"loop", "write", "resize", "leave"}
Quieted == {"pause", "pausing", "prepared", "rollback"}

Locking ==
  /\ held \in [Locks -> Threads \cup {Nobody}]
  /\ pc \in [Clients -> {"idle", "loop", "join", "done"} \cup Installing
                        \cup Controlling \cup Attached]
  /\ \A c \in Clients :
       /\ pc[c] \in Installing => held["mutation"] = Handler(c)
       /\ pc[c] \in Controlling => held["control"] = Handler(c)
  /\ boss # "idle" => held["mutation"] = Boss

Participants ==
  /\ \A c \in Clients : Member(c) => pc[c] \in Attached
  /\ \A c \in displaced : pc[c] \in {"loop", "leave", "join"} /\ ~Member(c)
  /\ displaced \subseteq Clients
  /\ boss \in Quieted => Members = {}

AttachInv == Locking /\ Participants

-----------------------------------------------------------------------------
(* Locks.                                                                  *)

\* Threads are told apart, and a lock nobody holds is held by none of them.
LEMMA Names ==
  /\ \A c \in Clients : /\ Handler(c) \in Threads /\ Handler(c) # Nobody
                        /\ Handler(c) # Boss /\ Handler(c) # Reader
  /\ \A c, d \in Clients : Handler(c) = Handler(d) => c = d
  /\ Reader \in Threads /\ Reader # Nobody /\ Reader # Boss
  /\ Boss \in Threads /\ Boss # Nobody
  BY DEF Handler, Worker, Reader, Boss, Nobody, Threads

\* What taking and releasing locks does to held.
LEMMA Taken ==
  ASSUME held \in [Locks -> Threads \cup {Nobody}], NEW l \in Locks,
         NEW t \in Threads, Take(l, t)
  PROVE  /\ held' \in [Locks -> Threads \cup {Nobody}] /\ held[l] = Nobody
         /\ held'[l] = t /\ \A k \in Locks \ {l} : held'[k] = held[k]
  BY DEF Take, Free

\* A lock released or a thread's locks dropped leave the others' alone.
LEMMA Released ==
  ASSUME held \in [Locks -> Threads \cup {Nobody}], NEW t \in Threads
  PROVE  /\ ReleaseAll(t) =>
              /\ held' \in [Locks -> Threads \cup {Nobody}]
              /\ \A k \in Locks : held[k] # t => held'[k] = held[k]
         /\ \A l \in Locks : Release(l) =>
              /\ held' \in [Locks -> Threads \cup {Nobody}]
              /\ \A k \in Locks \ {l} : held'[k] = held[k]
  BY DEF ReleaseAll, Release

-----------------------------------------------------------------------------
(* Attachments.                                                            *)

\* Steps that change neither the handlers nor the restart or close, take no lock
\* that matters here and add no participant.
Bystander ==
  /\ UNCHANGED <<pc, boss, displaced>>
  /\ held' \in [Locks -> Threads \cup {Nobody}]
  /\ \A l \in {"mutation", "control"} : held[l] # Reader => held'[l] = held[l]
  /\ controller' \in {controller, None} /\ guests' \subseteq guests

\* A step that touches none of this keeps it.
LEMMA BystanderKeeps == ASSUME AttachInv, Bystander PROVE AttachInv'
<1>1. None \notin Clients
  BY AttachmentAssumption
<1>2. \A c \in Clients : Member(c)' => Member(c)
  BY <1>1 DEF Bystander, Member
<1>3. Locking'
  BY Names DEF AttachInv, Locking, Bystander
<1>4. Participants'
  BY <1>2 DEF AttachInv, Participants, Bystander, Members
<1> QED
  BY <1>3, <1>4 DEF AttachInv

\* A worker's steps: they touch the queues and, at the end, who participates.
LEMMA WorkerStep ==
  ASSUME AttachInv, NEW c \in Clients, WorkerNext(c) PROVE AttachInv'
<1>1. Bystander
  <2>1. held \in [Locks -> Threads \cup {Nobody}]
    BY DEF AttachInv, Locking
  <2>2. CASE Recv(c) \/ Wrote(c) \/ Drain(c) \/ Ends(c)
    BY <2>1, <2>2 DEF Recv, Wrote, Drain, Ends, workRest, members, history, Bystander
  <2>3. CASE Bye(c)
    BY <2>1, <2>3 DEF Bye, Remove, bossVars, history, Bystander
  <2> QED
    BY <2>2, <2>3 DEF WorkerNext
<1> QED
  BY <1>1, BystanderKeeps

\* The reader's steps: a fan out only drops participants.
LEMMA ReaderStep == ASSUME AttachInv, ReaderNext PROVE AttachInv'
<1>0. /\ held \in [Locks -> Threads \cup {Nobody}] /\ Reader \in Threads
      /\ {"wait", "terminal", "controller", "mutation", "control"} \subseteq Locks
  BY Names DEF AttachInv, Locking, Locks
<1>1. CASE ReaderLoop \/ RecordExit \/ RecordDeferred
  <2>1. Bystander
    BY <1>0, <1>1 DEF ReaderLoop, RecordExit, RecordDeferred, clientVars, members,
       bossVars, history, Bystander
  <2> QED
    BY <2>1, BystanderKeeps
<1>2. CASE TakeOutput
  <2>1. Take("wait", Reader)
    BY <1>2 DEF TakeOutput
  <2>2. Bystander
    BY <1>0, <1>2, <2>1, Taken
       DEF TakeOutput, clientVars, members, bossVars, history, Bystander
  <2> QED
    BY <2>2, BystanderKeeps
<1>3. CASE Process
  <2>1. Take("terminal", Reader)
    BY <1>3 DEF Process
  <2>2. Bystander
    BY <1>0, <1>3, <2>1, Taken
       DEF Process, readRest, members, bossVars, history, Bystander
  <2> QED
    BY <2>2, BystanderKeeps
<1>4. CASE Block
  <2>1. Take("controller", Reader)
    BY <1>4 DEF Block
  <2>2. Bystander
    BY <1>0, <1>4, <2>1, Taken
       DEF Block, readRest, members, bossVars, history, Bystander
  <2> QED
    BY <2>2, BystanderKeeps
<1>5. CASE FanOut
  <2>1. ReleaseAll(Reader)
    BY <1>5 DEF FanOut
  <2>2. Bystander
    BY <1>0, <1>5, <2>1, Released
       DEF FanOut, Offer, readRest, bossVars, history, Bystander
  <2> QED
    BY <2>2, BystanderKeeps
<1>6. CASE DetachAll
  <2>1. Bystander
    BY <1>0, <1>6 DEF DetachAll, clientVars, bossVars, history, Bystander
  <2> QED
    BY <2>1, BystanderKeeps
<1> QED
  BY <1>1, <1>2, <1>3, <1>4, <1>5, <1>6 DEF ReaderNext

\* A handler takes the mutation lock, so no restart or close is under way until
\* its participant is installed; and control, so no other handler writes.
LEMMA AttachStep ==
  ASSUME AttachInv, NEW c \in Clients,
         (\E k \in Kinds : Attach(c, k)) \/ TakeControl(c) \/ Respond(c)
  PROVE  AttachInv'
<1>0. /\ held \in [Locks -> Threads \cup {Nobody}] /\ Handler(c) \in Threads
      /\ {"mutation", "control", "terminal"} \subseteq Locks
  BY Names DEF AttachInv, Locking, Locks
<1>1. CASE \E k \in Kinds : Attach(c, k)
  <2>1. Take("mutation", Handler(c)) /\ pc[c] = "idle" /\ Goto(c, "control")
        /\ UNCHANGED <<members, boss, displaced>>
    BY <1>1 DEF Attach, bossVars, history
  <2>2. Locking'
    BY <1>0, <2>1, Taken, Names DEF AttachInv, Locking, Goto, Installing, Controlling
  <2>3. Participants'
    BY <2>1 DEF AttachInv, Locking, Participants, Goto, Member, Members, members,
       Attached
  <2> QED
    BY <2>2, <2>3 DEF AttachInv
<1>2. CASE TakeControl(c) \/ Respond(c)
  <2>1. pc[c] \in {"control", "terminal"} /\ UNCHANGED <<members, boss, displaced>>
    BY <1>2 DEF TakeControl, Respond, bossVars, history
  <2>2. \/ ReleaseAll(Handler(c)) /\ Goto(c, "done")
        \/ pc[c] = "control" /\ Take("control", Handler(c)) /\ Goto(c, "terminal")
        \/ pc[c] = "terminal" /\ Take("terminal", Handler(c)) /\ Goto(c, "install")
    BY <1>2 DEF TakeControl, Respond
  <2>3. Locking'
    <3>1. CASE ReleaseAll(Handler(c)) /\ Goto(c, "done")
      BY <1>0, <2>1, <3>1, Released, Names
         DEF AttachInv, Locking, Goto, Installing, Controlling
    <3>2. CASE pc[c] = "control" /\ Take("control", Handler(c)) /\ Goto(c, "terminal")
      BY <1>0, <2>1, <3>2, Taken, Names
         DEF AttachInv, Locking, Goto, Installing, Controlling
    <3>3. CASE pc[c] = "terminal" /\ Take("terminal", Handler(c)) /\ Goto(c, "install")
      BY <1>0, <2>1, <3>3, Taken, Names
         DEF AttachInv, Locking, Goto, Installing, Controlling
    <3> QED
      BY <2>2, <3>1, <3>2, <3>3
  <2>4. Participants'
    BY <2>1, <2>2 DEF AttachInv, Locking, Participants, Goto, Member, Members,
       members, Attached
  <2> QED
    BY <2>3, <2>4 DEF AttachInv
<1> QED
  BY <1>1, <1>2

\* The installation of a participant by handle_attach.
LEMMA InstallStep ==
  ASSUME AttachInv, NEW c \in Clients, Install(c) PROVE AttachInv'
<1>0. /\ held \in [Locks -> Threads \cup {Nobody}] /\ Handler(c) \in Threads
      /\ {"mutation", "control"} \subseteq Locks /\ None \notin Clients
  BY Names, AttachmentAssumption DEF AttachInv, Locking, Locks
<1>1. pc[c] = "install" /\ Goto(c, "loop") /\ ReleaseAll(Handler(c)) /\ UNCHANGED boss
  BY DEF Install, bossVars
<1>2. Locking'
  BY <1>0, <1>1, Released, Names
     DEF AttachInv, Locking, Goto, Installing, Controlling
<1>3. \A d \in Clients \ {c} : pc[d] \notin Controlling
  BY <1>1, Names DEF AttachInv, Locking, Controlling
<1>4. boss = "idle"
  BY <1>1, Names DEF AttachInv, Locking, Installing
<1>5. /\ Member(c)' /\ \A d \in Clients \ {c} : Member(d)' => Member(d)
      /\ displaced' \subseteq displaced \cup Members
      /\ \A d \in displaced' \ displaced : ~Member(d)'
  <2>1. ~Member(c)
    BY <1>1 DEF AttachInv, Participants, Attached
  <2> QED
    BY <1>0, <2>1 DEF Install, Member, Members
<1>6. Participants'
  <2>1. \A d \in displaced' : d # c
    BY <1>1, <1>5 DEF AttachInv, Participants, Members, Attached
  <2>2. \A d \in Clients : Member(d)' => pc'[d] \in Attached
    BY <1>1, <1>5 DEF AttachInv, Participants, Locking, Goto, Attached
  <2>3. \A d \in displaced' : d \in Clients /\ pc'[d] \in {"loop", "leave", "join"}
    BY <1>1, <1>3, <1>5, <2>1
       DEF AttachInv, Participants, Locking, Goto, Members, Attached, Controlling
  <2>4. \A d \in displaced' : ~Member(d)'
    BY <1>5, <2>1, <2>3 DEF AttachInv, Participants
  <2> QED
    BY <1>1, <1>4, <2>2, <2>3, <2>4 DEF Participants, Quieted
<1> QED
  BY <1>2, <1>6 DEF AttachInv

\* The steps of a participant's connection that handle input and resizes.
LEMMA InputStep ==
  ASSUME AttachInv, NEW c \in Clients,
         Input(c) \/ Written(c) \/ Resize(c) \/ Resized(c)
  PROVE  AttachInv'
<1>0. /\ held \in [Locks -> Threads \cup {Nobody}] /\ Handler(c) \in Threads
      /\ {"mutation", "control"} \subseteq Locks
  BY Names DEF AttachInv, Locking, Locks
<1>1. CASE Input(c) \/ Resize(c)
  <2>1. /\ pc[c] = "loop" /\ Take("control", Handler(c)) /\ Member(c)
        /\ Goto(c, "write") \/ Goto(c, "resize")
        /\ UNCHANGED <<members, boss, displaced>>
    BY <1>1 DEF Input, Resize, Begin, inputRest, history, Member
  <2>2. Locking'
    BY <1>0, <2>1, Taken, Names
       DEF AttachInv, Locking, Goto, Installing, Controlling
  <2>3. Participants'
    BY <2>1 DEF AttachInv, Locking, Participants, Goto, Member, Members, members,
       Attached
  <2> QED
    BY <2>2, <2>3 DEF AttachInv
<1>2. CASE Written(c) \/ Resized(c)
  <2>1. /\ pc[c] \in {"write", "resize"} /\ Goto(c, "loop") /\ ReleaseAll(Handler(c))
        /\ UNCHANGED <<controller, boss, displaced>> /\ guests' \subseteq guests
    BY <1>2 DEF Written, Resized, Offer, inputRest, bossVars, history, members
  <2>2. Locking'
    BY <1>0, <2>1, Released, Names
       DEF AttachInv, Locking, Goto, Installing, Controlling
  <2>3. Participants'
    BY <2>1 DEF AttachInv, Locking, Participants, Goto, Member, Members, Attached
  <2> QED
    BY <2>2, <2>3 DEF AttachInv
<1> QED
  BY <1>1, <1>2

\* The steps in which a participant agrees to reconnect, leaves or comes back.
LEMMA LeaveStep ==
  ASSUME AttachInv, NEW c \in Clients, Acknowledge(c) \/ Leave(c) \/ Join(c)
  PROVE  AttachInv'
<1>0. None \notin Clients
  BY AttachmentAssumption
<1>1. CASE Acknowledge(c)
  BY <1>1 DEF Acknowledge, inputRest, history, members, AttachInv, Locking,
     Participants, Goto, Member, Members, Attached, Installing, Controlling
<1>2. CASE Leave(c)
  <2>1. /\ pc[c] \in {"loop", "leave"} /\ Goto(c, "join")
        /\ UNCHANGED <<held, boss, displaced>>
        /\ ~Member(c)' /\ \A d \in Clients : Member(d)' => Member(d)
    BY <1>0, <1>2 DEF Leave, Remove, inputRest, history, Member
  <2>2. Locking'
    BY <2>1 DEF AttachInv, Locking, Goto, Installing, Controlling
  <2>3. Participants'
    BY <2>1 DEF AttachInv, Locking, Participants, Goto, Members
  <2> QED
    BY <2>2, <2>3 DEF AttachInv
<1>3. CASE Join(c)
  <2>1. /\ pc[c] = "join" /\ Goto(c, "done")
        /\ UNCHANGED <<held, boss, controller, guests>>
        /\ displaced' = displaced \ {c}
    BY <1>3 DEF Join, bossVars, members
  <2>2. Locking'
    BY <2>1 DEF AttachInv, Locking, Goto, Installing, Controlling
  <2>3. Participants'
    BY <2>1 DEF AttachInv, Locking, Participants, Goto, Member, Members, Attached
  <2> QED
    BY <2>2, <2>3 DEF AttachInv
<1> QED
  BY <1>1, <1>2, <1>3

-----------------------------------------------------------------------------
(* The restart or close.                                                   *)

\* A step of it that takes no lock and adds no participant.
BossMoves ==
  /\ UNCHANGED <<pc, displaced>>
  /\ held' \in [Locks -> Threads \cup {Nobody}]
  /\ \A l \in {"mutation", "control"} :
       held'[l] = held[l] \/ (l = "mutation" /\ held[l] = Boss /\ boss' = "idle")
       \/ (l = "mutation" /\ held[l] = Nobody /\ held'[l] = Boss)
       \/ (l = "control" /\ held[l] = Boss)
  /\ boss = "idle" => held'["mutation"] = Boss
  /\ controller' \in {controller, None} /\ guests' \subseteq guests
  /\ boss' \in Quieted => (boss \in Quieted \/ Members = {})

\* A step of a restart or close that drops no quieted terminal keeps it.
LEMMA BossKeeps == ASSUME AttachInv, BossMoves PROVE AttachInv'
<1>1. None \notin Clients
  BY AttachmentAssumption
<1>2. \A c \in Clients : Member(c)' => Member(c)
  BY <1>1 DEF BossMoves, Member
<1>3. Locking'
  BY Names DEF AttachInv, Locking, BossMoves
<1>4. Participants'
  BY <1>2 DEF AttachInv, Participants, BossMoves, Members
<1> QED
  BY <1>3, <1>4 DEF AttachInv

\* The steps of a restart or a close.
LEMMA BossStep == ASSUME AttachInv, BossNext PROVE AttachInv'
<1>0. /\ held \in [Locks -> Threads \cup {Nobody}] /\ Boss \in Threads
      /\ {"mutation", "control", "lifecycle"} \subseteq Locks
      /\ boss # "idle" => held["mutation"] = Boss
      /\ boss \in Quieted => Members = {}
  BY Names DEF AttachInv, Locking, Participants, Locks
<1>1. CASE Restart \/ Close
  <2>1. /\ boss = "idle" /\ boss' \in {"notify", "drop"} /\ Take("mutation", Boss)
        /\ UNCHANGED <<pc, displaced, controller, guests>>
    BY <1>1 DEF Restart, Close, Step, bossRest, members
  <2>2. BossMoves
    BY <1>0, <2>1, Taken DEF BossMoves, Quieted
  <2> QED
    BY <2>2, BossKeeps
<1>2. CASE Notify \/ Agreed \/ DropMembers \/ Kill
  <2>1. BossMoves
    BY <1>0, <1>2 DEF Notify, Agreed, DropMembers, Kill, Step, bossRest, members,
       pauseRest, clientVars, history, BossMoves, Quieted
  <2> QED
    BY <2>1, BossKeeps
<1>3. CASE Quiesce
  <2>1. BossMoves
    BY <1>0, <1>3 DEF Quiesce, Step, bossRest, BossMoves, Quieted
  <2> QED
    BY <2>1, BossKeeps
<1>4. CASE Abort \/ PauseFails \/ Rollback \/ Finalize
  <2>1. /\ boss # "idle" /\ boss' = "idle" /\ ReleaseAll(Boss)
        /\ UNCHANGED <<pc, displaced, controller, guests>>
    BY <1>4 DEF Abort, PauseFails, Rollback, Finalize, Over, bossRest, members,
       pauseRest, clientVars, history
  <2>2. BossMoves
    BY <1>0, <2>1, Released DEF BossMoves, Quieted
  <2> QED
    BY <2>2, BossKeeps
<1>5. CASE Pause
  <2>1. /\ UNCHANGED <<pc, displaced, controller, guests>>
        /\ \/ boss = "pause" /\ boss' = "pausing" /\ Take("lifecycle", Boss)
           \/ boss = "quiet" /\ boss' = "quieting" /\ held' = held
    BY <1>5 DEF Pause, Step, pauseRest, clientVars, members, history
  <2>2. BossMoves
    BY <1>0, <2>1, Taken DEF BossMoves, Quieted
  <2> QED
    BY <2>2, BossKeeps
<1>6. CASE Paused
  <2>1. /\ UNCHANGED <<pc, displaced, controller, guests>>
        /\ \/ boss = "pausing" /\ boss' \in {"prepared", "rollback"}
              /\ Release("lifecycle")
           \/ boss = "quieting" /\ boss' = "kill" /\ held' = held
    BY <1>6 DEF Paused, Step, pauseRest, clientVars, members, history
  <2>2. BossMoves
    BY <1>0, <2>1, Released DEF BossMoves, Quieted
  <2> QED
    BY <2>2, BossKeeps
<1> QED
  BY <1>1, <1>2, <1>3, <1>4, <1>5, <1>6 DEF BossNext

-----------------------------------------------------------------------------
\* Nothing is held and nobody is attached at first.
LEMMA AttachInitial == Init => AttachInv
  BY AttachmentAssumption DEF Init, AttachInv, Locking, Participants, Member, Members,
     Installing, Controlling, Attached, Quieted

\* The lock discipline and what it says of participants is inductive.
LEMMA AttachNext == AttachInv /\ [Next]_vars => AttachInv'
<1> SUFFICES ASSUME AttachInv, [Next]_vars PROVE AttachInv'
  OBVIOUS
<1>1. ASSUME NEW c \in Clients, HandlerNext(c) PROVE AttachInv'
  BY <1>1, AttachStep, InstallStep, InputStep, LeaveStep DEF HandlerNext
<1>2. ASSUME NEW c \in Clients, WorkerNext(c) PROVE AttachInv'
  BY <1>2, WorkerStep
<1>3. CASE ((Output \/ Exit) /\ UNCHANGED attachVars) \/ UNCHANGED vars
  <2>1. UNCHANGED attachVars
    BY <1>3 DEF vars
  <2>2. Bystander
    BY <2>1 DEF attachVars, clientVars, members, bossVars, history, Bystander,
       AttachInv, Locking
  <2> QED
    BY <2>2, BystanderKeeps
<1> QED
  BY <1>1, <1>2, <1>3, ReaderStep, BossStep DEF Next

\* No input of a displaced participant reaches the process after the answer to
\* the takeover (write_controller_input holds `control` and asks for the token).
THEOREM DisplacedSilent == Spec => []DisplacedIsSilent
<1>1. AttachInv => DisplacedIsSilent
  BY DEF AttachInv, Participants, DisplacedIsSilent
<1> QED
  BY <1>1, AttachInitial, AttachNext, PTL DEF Spec

\* Every participant has left when a restart transfers the PTYs.
THEOREM QuietTransfer == Spec => []QuietAtHandoff
<1>1. AttachInv => QuietAtHandoff
  BY DEF AttachInv, Participants, QuietAtHandoff, Quieted
<1> QED
  BY <1>1, AttachInitial, AttachNext, PTL DEF Spec

-----------------------------------------------------------------------------
(* The channel.                                                            *)

Asking == {"pausing", "quieting"}
Holding == {"prepared", "rollback", "kill"}

Commands == [do : {"pause", "resume", "stop"}, id : Nat]

PauseTyped ==
  /\ rd \in ReaderSteps /\ paused \in BOOLEAN /\ wake \in BOOLEAN
  /\ acked \in BOOLEAN /\ stale \in BOOLEAN
  /\ asked \in Nat /\ by \in Nat
  /\ \A k \in cancelled : k \in Nat /\ k <= asked
  /\ commands \in Seq(Commands)

\* A queued pause has been cancelled or is the one that is asked for now.
Queued ==
  \A i \in 1..Len(commands) : commands[i].do = "pause" =>
    \/ commands[i].id \in cancelled
    \/ /\ boss \in Asking /\ ~acked
       /\ i = Len(commands) /\ commands[i].id = asked

\* Why the reader is paused.
Why ==
  paused /\ by \notin cancelled =>
    \/ \E i \in 1..Len(commands) : commands[i].do = "resume"
    \/ boss \in Asking \cup Holding \cup {"join"} /\ acked /\ by = asked

\* What the acknowledgement of the current pause stands for.
Counted ==
  /\ boss \in Holding => acked
  /\ boss \in Asking \cup Holding /\ acked /\ ~stale =>
       paused /\ by = asked /\ commands = <<>>
  /\ boss \in Asking \cup Holding => asked \notin cancelled

\* The thread does not go to sleep over a command or a cancellation.
Woken ==
  ~wake => /\ rd \in {"recv", "sleep"} => ~Obsolete
           /\ rd = "sleep" => commands = <<>>

Channel == Queued /\ Why /\ Counted /\ Woken
PauseInv == PauseTyped /\ (rd # "off" => Channel)

-----------------------------------------------------------------------------
\* What queueing and taking a command does to the commands.
LEMMA Queueing ==
  ASSUME NEW q \in Seq(Commands), NEW c \in Commands
  PROVE  /\ Append(q, c) \in Seq(Commands) /\ Len(Append(q, c)) = Len(q) + 1
         /\ Append(q, c)[Len(q) + 1] = c /\ Len(q) \in Nat
         /\ \A i \in 1..Len(q) : Append(q, c)[i] = q[i]
  OBVIOUS

\* What taking the first command of a reader leaves of the others.
LEMMA Taking ==
  ASSUME NEW q \in Seq(Commands), q # <<>>
  PROVE  /\ Tail(q) \in Seq(Commands) /\ Len(Tail(q)) = Len(q) - 1
         /\ Len(q) \in Nat \ {0} /\ Head(q) = q[1] /\ q[1] \in Commands
         /\ \A i \in 1..Len(Tail(q)) : Tail(q)[i] = q[i + 1]
         /\ Len(q) = 1 => Tail(q) = <<>>
<1>1. /\ Tail(q) \in Seq(Commands) /\ Len(Tail(q)) = Len(q) - 1
      /\ \A i \in 1..Len(Tail(q)) : Tail(q)[i] = q[i + 1]
  BY HeadTailProperties
<1>2. Len(q) \in Nat /\ Len(q) # 0
  BY EmptySeq
<1>3. Head(q) = q[1] /\ q[1] \in Commands
  BY <1>2
<1>4. Len(q) = 1 => Tail(q) = <<>>
  <2>1. Tail(q) # <<>> => Len(Tail(q)) \in Nat \ {0}
    BY <1>1, EmptySeq
  <2>2. Len(q) = 1 => Len(Tail(q)) = 0
    BY <1>1
  <2> QED
    BY <2>1, <2>2
<1> QED
  BY <1>1, <1>2, <1>3, <1>4

\* Steps that leave the channel and the restart or close alone.
Elsewhere == UNCHANGED <<channel, stale, boss>> /\ rd' \in ReaderSteps

\* A step that touches neither the commands nor the pause keeps it.
LEMMA ElsewhereKeeps ==
  ASSUME PauseInv, Elsewhere,
         rd' # "off" => rd # "off",
         rd' \in {"recv", "sleep"} => rd' = rd
  PROVE  PauseInv'
<1>1. PauseTyped'
  BY DEF PauseInv, PauseTyped, Elsewhere, channel
<1>2. ASSUME rd' # "off" PROVE Channel'
  BY <1>2 DEF PauseInv, Channel, Queued, Why, Counted, Woken, Obsolete, Elsewhere,
     channel
<1> QED
  BY <1>1, <1>2 DEF PauseInv

\* The reader obeys, cancels and sleeps.
LEMMA LoopKeeps ==
  ASSUME PauseInv, Loop, UNCHANGED boss,
         stale' = (stale \/ (Obsolete /\ acked' /\ ~acked))
  PROVE  PauseInv'
<1>0. rd # "off" /\ PauseTyped /\ Channel
  BY DEF PauseInv, Loop, Clear, Receive, PausedWaits, NothingToRead, NoCommand, Awake
<1>1. CASE Clear
  <2>1. stale' = stale
    BY <1>0, <1>1 DEF Clear, PauseTyped
  <2>2. PauseTyped'
    <3>1. UNCHANGED <<asked, cancelled, commands, acked, stale>> /\ wake' = FALSE
          /\ paused' \in {paused, FALSE} /\ by' \in {by, 0} /\ rd' \in {"clear", "recv"}
      BY <1>1, <2>1 DEF Clear
    <3>2. paused' \in BOOLEAN /\ wake' \in BOOLEAN /\ acked' \in BOOLEAN
          /\ stale' \in BOOLEAN
      BY <1>0, <3>1, Zenon DEF PauseTyped
    <3>3. by' \in Nat /\ rd' \in ReaderSteps
      BY <1>0, <3>1 DEF PauseTyped, ReaderSteps
    <3> QED
      BY <1>0, <3>1, <3>2, <3>3 DEF PauseTyped
  <2>3. Queued' /\ Woken'
    BY <1>0, <1>1 DEF Clear, Channel, Queued, Woken, Obsolete
  <2>4. Why'
    BY <1>0, <1>1 DEF Clear, Channel, Why
  <2>5. Counted'
    BY <1>0, <1>1, <2>1 DEF Clear, Channel, Counted, Obsolete
  <2> QED
    BY <2>2, <2>3, <2>4, <2>5 DEF PauseInv, Channel
<1>2. CASE PausedWaits \/ NothingToRead \/ Awake
  <2>1. /\ UNCHANGED channel /\ rd' \in {"sleep", "end", "clear"}
        /\ rd' = "sleep" => rd = "recv" /\ commands = <<>>
    BY <1>2 DEF PausedWaits, NothingToRead, NoCommand, Awake
  <2>2. PauseTyped' /\ stale' = stale
    BY <1>0, <2>1 DEF PauseTyped, ReaderSteps, channel
  <2>3. Channel'
    BY <1>0, <2>1, <2>2 DEF Channel, Queued, Why, Counted, Woken, Obsolete, channel
  <2> QED
    BY <2>2, <2>3 DEF PauseInv
<1>3. CASE Receive
  <2> DEFINE c == Head(commands)
  <2>1. commands \in Seq(Commands) /\ commands # <<>>
    BY <1>0, <1>3 DEF PauseTyped, Receive
  <2>2. /\ commands' = Tail(commands) /\ commands' \in Seq(Commands)
        /\ Len(commands') = Len(commands) - 1
        /\ Len(commands) \in Nat \ {0} /\ c = commands[1] /\ c \in Commands
        /\ \A i \in 1..Len(commands') : commands'[i] = commands[i + 1]
        /\ Len(commands) = 1 => commands' = <<>>
    BY <1>3, <2>1, Taking DEF Receive
  <2>3. UNCHANGED <<wake, asked, cancelled>>
    BY <1>3 DEF Receive
  <2>4. c.do \in {"pause", "resume", "stop"} /\ c.id \in Nat
    BY <2>2 DEF Commands
  <2>5. c.do = "pause" /\ c.id \notin cancelled =>
          /\ boss \in Asking /\ ~acked /\ Len(commands) = 1 /\ c.id = asked
          /\ commands' = <<>>
    <3>1. 1 \in 1..Len(commands) /\ (1 = Len(commands) => commands' = <<>>)
      BY <2>2
    <3>2. c = commands[1]
      BY <2>2
    <3> QED
      BY <1>0, <3>1, <3>2 DEF Channel, Queued
  <2>6. acked' = acked \/ commands' = <<>>
    BY <1>3, <2>4, <2>5 DEF Receive, ObeyPause
  <2>7. Queued'
    <3> SUFFICES ASSUME NEW i \in 1..Len(commands'), commands'[i].do = "pause",
                        commands'[i].id \notin cancelled
                 PROVE  /\ boss \in Asking /\ ~acked'
                        /\ i = Len(commands') /\ commands'[i].id = asked
      BY <2>3 DEF Queued
    <3>1. Len(commands') # 0 /\ i + 1 \in 1..Len(commands)
      BY <2>2
    <3>2. boss \in Asking /\ ~acked /\ i + 1 = Len(commands) /\ commands[i + 1].id = asked
      BY <1>0, <2>2, <3>1 DEF Channel, Queued
    <3>3. commands' # <<>>
      <4>1. Len(<<>>) = 0
        OBVIOUS
      <4> QED
        BY <3>1, <4>1
    <3>4. i = Len(commands') /\ commands'[i].id = asked
      <4>1. i = Len(commands')
        <5>1. Len(commands) \in Nat /\ Len(commands') = Len(commands) - 1 /\ i \in Int
          BY <2>2
        <5>2. i + 1 = Len(commands)
          BY <3>2
        <5> QED
          BY <5>1, <5>2
      <4> QED
        BY <2>2, <3>2, <4>1
    <3> QED
      BY <2>6, <3>2, <3>3, <3>4
  <2>8. ASSUME NEW i \in 1..Len(commands), commands[i].do = "resume", c.do # "resume"
        PROVE  \E j \in 1..Len(commands') : commands'[j].do = "resume"
    <3>1. i # 1 /\ i - 1 \in 1..Len(commands')
      BY <2>2, <2>8
    <3>2. commands'[i - 1] = commands[i]
      BY <2>2, <3>1
    <3> QED
      BY <2>8, <3>1, <3>2
  <2>9. CASE c.do = "pause" /\ c.id \in cancelled
    <3>1. UNCHANGED <<paused, by, acked>> /\ rd' = "clear" /\ stale' = stale
      BY <1>0, <1>3, <2>9 DEF Receive, ObeyPause, PauseTyped
    <3>2. PauseTyped'
      BY <1>0, <2>2, <2>3, <3>1 DEF PauseTyped, ReaderSteps
    <3>3. Why'
      BY <1>0, <2>3, <2>8, <2>9, <3>1 DEF Channel, Why
    <3>4. Counted'
      BY <1>0, <2>1, <2>3, <3>1 DEF Channel, Counted
    <3> QED
      BY <2>7, <3>1, <3>2, <3>3, <3>4 DEF PauseInv, Channel, Woken
  <2>10. CASE c.do = "pause" /\ c.id \notin cancelled
    <3>1. /\ acked' = TRUE /\ paused' = TRUE /\ rd' = "clear"
          /\ by' = IF paused THEN by ELSE asked
      BY <1>3, <2>5, <2>10 DEF Receive, ObeyPause
    <3>2. stale' = (stale \/ Obsolete)
      BY <2>5, <2>10, <3>1
    <3>3. PauseTyped'
      BY <1>0, <2>2, <2>3, <3>1, <3>2 DEF PauseTyped, ReaderSteps, Obsolete
    <3>4. paused => by \in cancelled
      <4>1. ~\E i \in 1..Len(commands) : commands[i].do = "resume"
        BY <2>2, <2>5, <2>10
      <4> QED
        BY <1>0, <2>5, <2>10, <4>1 DEF Channel, Why
    <3>5. Why'
      BY <2>3, <2>5, <2>10, <3>1, <3>4 DEF Why
    <3>6. Counted'
      BY <1>0, <2>3, <2>5, <2>10, <3>1, <3>2, <3>4 DEF Channel, Counted, Obsolete
    <3> QED
      BY <2>7, <3>1, <3>3, <3>5, <3>6 DEF PauseInv, Channel, Woken
  <2>11. CASE c.do = "resume"
    <3>1. paused' = FALSE /\ by' = 0 /\ rd' = "clear" /\ acked' = acked /\ stale' = stale
      BY <1>0, <1>3, <2>11 DEF Receive, PauseTyped
    <3>2. PauseTyped'
      BY <1>0, <2>2, <2>3, <3>1 DEF PauseTyped, ReaderSteps
    <3>3. Why' /\ Counted'
      BY <1>0, <2>1, <2>3, <3>1 DEF Channel, Why, Counted
    <3> QED
      BY <2>7, <3>1, <3>2, <3>3 DEF PauseInv, Channel, Woken
  <2>12. CASE c.do = "stop"
    <3>1. rd' = "off" /\ UNCHANGED <<paused, by, acked, stale>>
      BY <1>0, <1>3, <2>12 DEF Receive, PauseTyped
    <3> QED
      BY <1>0, <2>2, <2>3, <3>1 DEF PauseInv, PauseTyped, ReaderSteps
  <2> QED
    BY <2>4, <2>9, <2>10, <2>11, <2>12
<1> QED
  BY <1>1, <1>2, <1>3 DEF Loop

\* Steps of the reader that are not its loop.
LEMMA ReaderKeeps == ASSUME PauseInv, ReaderNext PROVE PauseInv'
<1>1. CASE ReaderLoop
  BY <1>1, LoopKeeps DEF ReaderLoop, bossVars
<1>2. CASE ~ReaderLoop
  <2>1. Elsewhere
    BY <1>2 DEF ReaderNext, TakeOutput, Read, Process, GoRead, FanOut, Block, RecordExit,
       RecordDeferred, DetachAll, readRest, readerVars, bossVars, history, Elsewhere,
       ReaderSteps, PauseInv, PauseTyped
  <2>2. rd' \in {"recv", "sleep", "off"} => rd' = rd \/ rd = "detach"
    BY <1>2 DEF ReaderNext, TakeOutput, Read, Process, GoRead, FanOut, Block, RecordExit,
       RecordDeferred, DetachAll, readerVars
  <2>3. rd = "detach" => rd' \notin {"recv", "sleep"} \/ rd' = rd
    BY <1>2 DEF ReaderNext, TakeOutput, Read, NoCommand, Process, GoRead, FanOut, Block,
       RecordExit, RecordDeferred, DetachAll, readerVars
  <2>4. rd = "off" => rd' = "off"
    BY <1>2 DEF ReaderNext, TakeOutput, Read, NoCommand, Process, GoRead, FanOut, Block,
       RecordExit, RecordDeferred, DetachAll, readerVars
  <2> QED
    BY <2>1, <2>2, <2>3, <2>4, ElsewhereKeeps
<1> QED
  BY <1>1, <1>2

\* A restart or close that does not count on a pause leaves the reader alone.
LEMMA PassiveKeeps ==
  ASSUME PauseInv, UNCHANGED <<readerVars, stale>>,
         boss \notin Asking \cup Holding \cup {"join"} \/ rd = "off",
         boss' \notin Asking \cup Holding \cup {"join"} \/ rd = "off"
  PROVE  PauseInv'
<1>1. PauseTyped'
  BY DEF PauseInv, PauseTyped, readerVars, channel
<1>2. rd # "off" => Channel'
  BY DEF PauseInv, Channel, Queued, Why, Counted, Woken, Obsolete, readerVars, channel
<1> QED
  BY <1>1, <1>2 DEF PauseInv, readerVars

\* The pause is asked for, acknowledged or cancelled.
LEMMA PauseKeeps ==
  ASSUME PauseInv, rd # "off", Pause \/ Paused \/ PauseFails PROVE PauseInv'
<1>0. PauseTyped /\ Channel
  BY DEF PauseInv
<1>1. CASE Pause
  <2> DEFINE c == [do |-> "pause", id |-> asked + 1]
  <2>1. /\ boss \in {"pause", "quiet"} /\ boss' \in Asking
        /\ asked' = asked + 1 /\ commands' = Append(commands, c) /\ wake' = TRUE
        /\ acked' = FALSE /\ UNCHANGED <<rd, paused, by, cancelled, stale>>
    BY <1>1 DEF Pause, Step, AskPause, Command, pauseRest, history, Asking
  <2>2. asked + 1 \in Nat /\ asked + 1 \notin cancelled
        /\ commands \in Seq(Commands) /\ \A k \in cancelled : k <= asked + 1
    BY <1>0 DEF PauseTyped
  <2>3. c \in Commands /\ c.do = "pause" /\ c.id = asked + 1
    BY <2>2 DEF Commands
  <2> HIDE DEF c
  <2>4. /\ commands' \in Seq(Commands) /\ Len(commands') = Len(commands) + 1
        /\ commands'[Len(commands')] = c /\ Len(commands) \in Nat
        /\ \A i \in 1..Len(commands) : commands'[i] = commands[i]
    BY <2>1, <2>2, <2>3, Queueing
  <2>5. PauseTyped'
    BY <1>0, <2>1, <2>2, <2>4 DEF PauseTyped
  <2>6. Queued'
    <3>1. \A i \in 1..Len(commands') : i \in 1..Len(commands) \/ i = Len(commands')
      BY <2>4
    <3>2. \A i \in 1..Len(commands) :
            commands[i].do = "pause" => commands[i].id \in cancelled
      BY <1>0, <2>1 DEF Channel, Queued, Asking
    <3> QED
      BY <2>1, <2>3, <2>4, <3>1, <3>2 DEF Queued
  <2>7. Why'
    <3>1. 1..Len(commands) \subseteq 1..Len(commands')
      BY <2>4
    <3> QED
      BY <1>0, <2>1, <2>4, <3>1 DEF Channel, Why, Asking, Holding
  <2>8. Counted' /\ Woken'
    BY <2>1, <2>2 DEF Counted, Woken, Asking, Holding
  <2> QED
    BY <2>5, <2>6, <2>7, <2>8 DEF PauseInv, Channel
<1>2. CASE Paused
  <2>1. /\ boss \in Asking /\ acked /\ boss' \in Holding
        /\ UNCHANGED <<readerVars, stale>>
    BY <1>2 DEF Paused, Step, pauseRest, history, Asking, Holding
  <2>2. PauseTyped'
    BY <1>0, <2>1 DEF PauseTyped, readerVars, channel
  <2>3. Channel'
    BY <1>0, <2>1 DEF Channel, Queued, Why, Counted, Woken, Obsolete, readerVars,
       channel, Asking, Holding
  <2> QED
    BY <2>2, <2>3 DEF PauseInv
<1>3. CASE PauseFails
  <2>1. /\ boss \in Asking /\ boss' = "idle" /\ cancelled' = cancelled \cup {asked}
        /\ wake' = TRUE /\ UNCHANGED <<rd, paused, by, commands, asked, acked, stale>>
    BY <1>3 DEF PauseFails, CancelPause, Over, pauseRest, history, Asking
  <2>2. PauseTyped'
    BY <1>0, <2>1 DEF PauseTyped
  <2>3. Channel'
    BY <1>0, <2>1 DEF Channel, Queued, Why, Counted, Woken, Asking, Holding
  <2> QED
    BY <2>2, <2>3 DEF PauseInv
<1> QED
  BY <1>1, <1>2, <1>3

\* The pause is over, or the reader is told to stop.
LEMMA CommandKeeps ==
  ASSUME PauseInv, rd # "off", Rollback \/ Kill PROVE PauseInv'
<1> DEFINE c == [do |-> IF Rollback THEN "resume" ELSE "stop", id |-> 0]
<1>0. PauseTyped /\ Channel /\ commands \in Seq(Commands) /\ c \in Commands
      /\ c.do \in {"resume", "stop"} /\ (c.do = "stop" => ~Rollback)
  BY DEF PauseInv, PauseTyped, Commands
<1>1. /\ boss \in Holding /\ boss' \in {"idle", "join"}
      /\ boss' = "idle" => c.do = "resume"
      /\ commands' = Append(commands, c) /\ wake' = TRUE
      /\ UNCHANGED <<rd, paused, by, asked, acked, cancelled, stale>>
  BY DEF Rollback, Kill, Over, AskResume, Command, Step, pauseRest, history, Holding
<1> HIDE DEF c
<1>2. /\ commands' \in Seq(Commands) /\ Len(commands') = Len(commands) + 1
      /\ commands'[Len(commands')] = c /\ Len(commands) \in Nat
      /\ \A i \in 1..Len(commands) : commands'[i] = commands[i]
  BY <1>0, <1>1, Queueing
<1>3. /\ \A i \in 1..Len(commands') : i \in 1..Len(commands) \/ i = Len(commands')
      /\ 1..Len(commands) \subseteq 1..Len(commands')
      /\ Len(commands') \in 1..Len(commands')
  BY <1>2
<1>4. PauseTyped'
  BY <1>0, <1>1, <1>2 DEF PauseTyped
<1>5. Queued'
  <2>1. \A i \in 1..Len(commands) :
          commands[i].do = "pause" => commands[i].id \in cancelled
    BY <1>0, <1>1 DEF Channel, Queued, Asking, Holding
  <2> QED
    BY <1>0, <1>1, <1>2, <1>3, <2>1 DEF Queued
<1>6. Why'
  BY <1>0, <1>1, <1>2, <1>3 DEF Channel, Why, Counted, Asking, Holding
<1>7. Counted' /\ Woken'
  BY <1>1 DEF Counted, Woken, Asking, Holding
<1> QED
  BY <1>4, <1>5, <1>6, <1>7 DEF PauseInv, Channel

\* At first the reader has no command and is not paused.
LEMMA PauseInitial == Init => PauseInv
<1>1. <<>> \in Seq(Commands) /\ Len(<<>>) = 0
  BY EmptySeq
<1>2. Init => PauseTyped
  <2>1. Init => {paused, wake, acked, stale} \subseteq BOOLEAN
    BY Zenon DEF Init
  <2>2. Init => rd \in ReaderSteps /\ commands \in Seq(Commands)
    BY <1>1 DEF Init, ReaderSteps
  <2>3. Init => asked \in Nat /\ by \in Nat /\ cancelled = {}
    BY DEF Init
  <2> QED
    BY <2>1, <2>2, <2>3 DEF PauseTyped
<1>3. Init => Queued
  BY <1>1 DEF Init, Queued
<1>4. Init => Why /\ Counted /\ Woken
  BY DEF Init, Why, Counted, Woken, Asking, Holding
<1> QED
  BY <1>2, <1>3, <1>4 DEF PauseInv, Channel

\* A pause that is counted on holds, and one that is not ends.
LEMMA PauseNext == PauseInv /\ [Next]_vars => PauseInv'
<1> SUFFICES ASSUME PauseInv, [Next]_vars PROVE PauseInv'
  OBVIOUS
<1>0. rd \in ReaderSteps
  BY DEF PauseInv, PauseTyped
<1>1. ASSUME NEW c \in Clients, HandlerNext(c) \/ WorkerNext(c) PROVE PauseInv'
  <2>1. CASE WorkerNext(c)
    <3>1. UNCHANGED <<readerVars, stale, boss>>
      BY <2>1 DEF WorkerNext, Recv, Wrote, Drain, Ends, Bye, workRest, bossVars, history
    <3> QED
      BY <1>0, <3>1, ElsewhereKeeps DEF Elsewhere, readerVars
  <2>2. CASE HandlerNext(c)
    <3>1. UNCHANGED <<readerVars, stale, boss>>
      BY <2>2 DEF HandlerNext, Attach, TakeControl, Respond, Install, Input, Written,
         Resize, Resized, Acknowledge, Leave, Join, inputRest, bossVars, history
    <3> QED
      BY <1>0, <3>1, ElsewhereKeeps DEF Elsewhere, readerVars
  <2> QED
    BY <1>1, <2>1, <2>2
<1>2. CASE (Output \/ Exit) /\ UNCHANGED attachVars
  BY <1>0, <1>2, ElsewhereKeeps DEF Output, Exit, attachVars, bossVars, history, Elsewhere
<1>3. CASE UNCHANGED vars
  BY <1>0, <1>3, ElsewhereKeeps DEF vars, attachVars, readerVars, bossVars,
     history, Elsewhere
<1>4. CASE BossNext
  <2>1. CASE Restart \/ Notify \/ Quiesce \/ Agreed \/ Abort \/ Close \/ DropMembers
             \/ Finalize
    <3>1. /\ UNCHANGED <<readerVars, stale>>
          /\ boss \notin Asking \cup Holding \cup {"join"} \/ rd = "off"
          /\ boss' \notin Asking \cup Holding \cup {"join"} \/ rd = "off"
      BY <2>1 DEF Restart, Notify, Quiesce, Agreed, Abort, Close, DropMembers, Finalize,
         Step, Over, bossRest, pauseRest, history, Asking, Holding
    <3> QED
      BY <3>1, PassiveKeeps
  <2>2. CASE (Pause \/ Paused \/ PauseFails \/ Rollback \/ Kill) /\ rd # "off"
    BY <2>2, PauseKeeps, CommandKeeps
  <2>3. CASE (Pause \/ Paused \/ Rollback) /\ rd = "off"
    <3>1. UNCHANGED <<readerVars, stale>>
      BY <2>3 DEF Pause, Paused, Rollback, pauseRest, history
    <3> QED
      BY <2>3, <3>1, PassiveKeeps
  <2>4. CASE Kill /\ rd = "off"
    <3>1. UNCHANGED <<channel, rd, stale>>
      BY <2>4 DEF Kill, pauseRest, history, channel
    <3> QED
      BY <2>4, <3>1 DEF PauseInv, PauseTyped, channel
  <2> QED
    BY <1>4, <2>1, <2>2, <2>3, <2>4 DEF BossNext, PauseFails
<1> QED
  BY <1>1, <1>2, <1>3, <1>4, ReaderKeeps DEF Next

\* The reader takes no output while a transfer or a kill counts on its pause.
THEOREM PauseIsKept == Spec => []PauseHolds
<1>1. PauseInv => PauseHolds
  BY DEF PauseInv, Channel, Counted, PauseHolds, Obsolete, Asking, Holding
<1> QED
  BY <1>1, PauseInitial, PauseNext, PTL DEF Spec

\* No operation that is over leaves the reader paused or asleep over a command.
THEOREM PauseIsOver == Spec => []PauseEnds
<1>1. PauseInv => PauseEnds
  <2> SUFFICES ASSUME PauseInv PROVE PauseEnds
    OBVIOUS
  <2>1. ~MissedWakeup
    BY DEF PauseInv, PauseTyped, Channel, Woken, MissedWakeup
  <2>2. boss = "idle" /\ paused /\ rd # "off" =>
          Obsolete \/ \E i \in 1..Len(commands) : commands[i].do = "resume"
    BY DEF PauseInv, Channel, Why, Obsolete, Asking, Holding
  <2> QED
    BY <2>1, <2>2 DEF PauseEnds
<1> QED
  BY <1>1, PauseInitial, PauseNext, PTL DEF Spec

-----------------------------------------------------------------------------
(* Who waits for whom.                                                     *)

\* Where a thread may hold a lock: the reader holds the controller only while it
\* is blocked on a queue and the terminal only between a read and its fan out, a
\* restart the lifecycle only while it pauses the reader, and a handler the
\* terminal only until its participant is installed.
Holders ==
  /\ held["wait"] \in {Nobody, Reader}
  /\ held["controller"] # Nobody => held["controller"] = Reader /\ rd = "send"
  /\ held["lifecycle"] # Nobody => held["lifecycle"] = Boss /\ boss = "pausing"
  /\ held["terminal"] # Nobody =>
       \/ held["terminal"] = Reader /\ rd \in {"fan", "send"}
       \/ \E d \in Clients : held["terminal"] = Handler(d) /\ pc[d] = "install"
  /\ held["control"] # Nobody =>
       \E d \in Clients : held["control"] = Handler(d) /\ pc[d] \in Controlling

\* A handler that lets all its locks go, or takes one on its way.
LEMMA HandlerHolds ==
  ASSUME AttachInv, Holders, NEW c \in Clients, NEW s, UNCHANGED <<rd, boss>>, Goto(c, s),
         \/ ReleaseAll(Handler(c))
         \/ pc[c] \notin Controlling /\ UNCHANGED held
         \/ pc[c] \notin Controlling /\ Take("mutation", Handler(c))
         \/ pc[c] \notin Controlling /\ s \in Controlling /\ Take("control", Handler(c))
         \/ pc[c] = "terminal" /\ s = "install" /\ Take("terminal", Handler(c))
  PROVE  Holders'
<1> USE DEF Holders
<1>0. /\ held \in [Locks -> Threads \cup {Nobody}] /\ Handler(c) \in Threads
      /\ Locks = {"mutation", "control", "terminal", "lifecycle", "controller", "wait"}
      /\ \A d \in Clients \ {c} : pc'[d] = pc[d] /\ Handler(d) # Handler(c)
      /\ pc'[c] = s /\ Handler(c) # Nobody /\ Handler(c) # Reader /\ Handler(c) # Boss
      /\ "install" \in Controlling
  BY Names DEF AttachInv, Locking, Locks, Goto, Controlling
<1>1. CASE ReleaseAll(Handler(c))
  <2>1. \A l \in Locks : held'[l] = (IF held[l] = Handler(c) THEN Nobody ELSE held[l])
    BY <1>1 DEF ReleaseAll
  <2> QED BY <1>0, <2>1
<1>2. CASE pc[c] \notin Controlling /\ UNCHANGED held
  BY <1>0, <1>2
<1>3. CASE pc[c] \notin Controlling /\ Take("mutation", Handler(c))
  <2>1. \A l \in Locks \ {"mutation"} : held'[l] = held[l]
    BY <1>0, <1>3 DEF Take
  <2> QED BY <1>0, <1>3, <2>1
<1>4. CASE pc[c] \notin Controlling /\ s \in Controlling /\ Take("control", Handler(c))
  <2>1. /\ \A l \in Locks \ {"control"} : held'[l] = held[l]
        /\ held'["control"] = Handler(c)
    BY <1>0, <1>4 DEF Take
  <2> QED BY <1>0, <1>4, <2>1
<1>5. CASE pc[c] = "terminal" /\ s = "install" /\ Take("terminal", Handler(c))
  <2>1. /\ \A l \in Locks \ {"terminal"} : held'[l] = held[l]
        /\ held'["terminal"] = Handler(c)
    BY <1>0, <1>5 DEF Take
  <2> QED BY <1>0, <1>5, <2>1
<1> QED BY <1>1, <1>2, <1>3, <1>4, <1>5

\* The steps of a handler of a connection.
LEMMA HandlerHoldsNext ==
  ASSUME AttachInv, Holders, NEW c \in Clients, HandlerNext(c)
  PROVE  Holders'
<1>1. UNCHANGED <<rd, boss>>
  BY DEF HandlerNext, Attach, TakeControl, Respond, Install, Input, Written, Resize,
     Resized, Acknowledge, Leave, Join, inputRest, bossVars, readerVars, members
<1>2. CASE \E k \in Kinds : Attach(c, k)
  <2>1. Goto(c, "control") /\ pc[c] \notin Controlling /\ Take("mutation", Handler(c))
    BY <1>2 DEF Attach, Controlling
  <2> QED BY <1>1, <2>1, HandlerHolds
<1>3. CASE TakeControl(c)
  <2>1. \/ Goto(c, "done") /\ ReleaseAll(Handler(c))
        \/ /\ Goto(c, "terminal") /\ pc[c] \notin Controlling
           /\ Take("control", Handler(c)) /\ "terminal" \in Controlling
    BY <1>3 DEF TakeControl, Controlling
  <2> QED BY <1>1, <2>1, HandlerHolds
<1>4. CASE Respond(c)
  <2>1. \/ Goto(c, "done") /\ ReleaseAll(Handler(c))
        \/ Goto(c, "install") /\ pc[c] = "terminal" /\ Take("terminal", Handler(c))
    BY <1>4 DEF Respond
  <2> QED BY <1>1, <2>1, HandlerHolds
<1>5. CASE Install(c) \/ Written(c) \/ Resized(c)
  <2>1. Goto(c, "loop") /\ ReleaseAll(Handler(c))
    BY <1>5 DEF Install, Written, Resized
  <2> QED BY <1>1, <2>1, HandlerHolds
<1>6. CASE Input(c) \/ Resize(c)
  <2>1. PICK s \in {"write", "resize"} :
          Goto(c, s) /\ pc[c] \notin Controlling /\ Take("control", Handler(c))
    BY <1>6 DEF Input, Resize, Begin, Controlling
  <2>2. s \in Controlling BY DEF Controlling
  <2> QED BY <1>1, <2>1, <2>2, HandlerHolds
<1>7. CASE Acknowledge(c) \/ Leave(c) \/ Join(c)
  <2>1. PICK s : Goto(c, s) /\ pc[c] \notin Controlling /\ UNCHANGED held
    BY <1>7 DEF Acknowledge, Leave, Join, inputRest, Controlling
  <2> QED BY <1>1, <2>1, HandlerHolds
<1> QED BY <1>2, <1>3, <1>4, <1>5, <1>6, <1>7 DEF HandlerNext

\* The steps of the reader.
LEMMA ReaderHoldsNext ==
  ASSUME AttachInv, Holders, ReaderNext
  PROVE  Holders'
<1> USE DEF Holders
<1>0. /\ held \in [Locks -> Threads \cup {Nobody}] /\ Reader # Nobody /\ Reader # Boss
      /\ Locks = {"mutation", "control", "terminal", "lifecycle", "controller", "wait"}
      /\ \A d \in Clients : Handler(d) # Reader
  BY Names DEF AttachInv, Locking, Locks
<1>1. UNCHANGED <<pc, boss>>
  BY DEF ReaderNext, ReaderLoop, TakeOutput, Process, FanOut, Block, RecordExit,
     RecordDeferred, DetachAll, readRest, clientVars, bossVars
<1>2. CASE ReaderLoop \/ RecordExit \/ RecordDeferred \/ DetachAll
  <2>1. /\ UNCHANGED held
        /\ rd' = rd \/ rd \notin {"fan", "send"}
    BY <1>2 DEF ReaderLoop, RecordExit, RecordDeferred, DetachAll, Loop, Clear, Receive,
       PausedWaits, NothingToRead, NoCommand, Awake, GoRead, readerVars
  <2> QED BY <1>1, <2>1
<1>3. CASE TakeOutput
  <2>1. /\ rd = "recv" /\ held'["wait"] = Reader
        /\ \A l \in Locks \ {"wait"} : held'[l] = held[l]
    BY <1>0, <1>3 DEF TakeOutput, Read, NoCommand, Take
  <2> QED BY <1>0, <1>1, <2>1
<1>4. CASE Process
  <2>1. /\ rd = "terminal" /\ rd' = "fan" /\ held'["terminal"] = Reader
        /\ \A l \in Locks \ {"terminal"} : held'[l] = held[l]
    BY <1>0, <1>4 DEF Process, Take, GoRead
  <2> QED BY <1>0, <1>1, <2>1
<1>5. CASE Block
  <2>1. /\ rd = "fan" /\ rd' = "send" /\ held'["controller"] = Reader
        /\ \A l \in Locks \ {"controller"} : held'[l] = held[l]
    BY <1>0, <1>5 DEF Block, Take, GoRead
  <2> QED BY <1>0, <1>1, <2>1
<1>6. CASE FanOut
  <2>1. \A l \in Locks : held'[l] = (IF held[l] = Reader THEN Nobody ELSE held[l])
    BY <1>6 DEF FanOut, ReleaseAll
  <2> QED BY <1>0, <1>1, <2>1
<1> QED BY <1>2, <1>3, <1>4, <1>5, <1>6 DEF ReaderNext

\* The steps of a restart or a close.
LEMMA BossHoldsNext ==
  ASSUME AttachInv, Holders, BossNext
  PROVE  Holders'
<1> USE DEF Holders
<1>0. /\ held \in [Locks -> Threads \cup {Nobody}] /\ Boss # Nobody /\ Reader # Boss
      /\ Locks = {"mutation", "control", "terminal", "lifecycle", "controller", "wait"}
      /\ \A d \in Clients : Handler(d) # Boss
  BY Names DEF AttachInv, Locking, Locks
<1>1. UNCHANGED <<rd, pc>>
  BY DEF BossNext, Restart, Notify, Quiesce, Agreed, Abort, Close, DropMembers, Pause,
     Paused, PauseFails, Rollback, Kill, Finalize, AskPause, AskResume, CancelPause,
     bossRest, pauseRest, clientVars, readerVars
<1>2. CASE Restart \/ Close
  <2>1. boss = "idle" /\ \A l \in Locks \ {"mutation"} : held'[l] = held[l]
    BY <1>0, <1>2 DEF Restart, Close, Take
  <2> QED BY <1>0, <1>1, <2>1
<1>3. CASE Notify \/ Quiesce \/ Agreed \/ DropMembers \/ Kill
  <2>1. UNCHANGED held /\ boss # "pausing"
    BY <1>3 DEF Notify, Quiesce, Agreed, DropMembers, Kill
  <2> QED BY <1>0, <1>1, <2>1
<1>4. CASE Abort \/ PauseFails \/ Rollback \/ Finalize
  <2>1. \A l \in Locks : held'[l] = (IF held[l] = Boss THEN Nobody ELSE held[l])
    BY <1>4 DEF Abort, PauseFails, Rollback, Finalize, Over, ReleaseAll
  <2> QED BY <1>0, <1>1, <2>1
<1>5. CASE Pause
  <2>1. \/ /\ boss' = "pausing" /\ held'["lifecycle"] = Boss
           /\ \A l \in Locks \ {"lifecycle"} : held'[l] = held[l]
        \/ boss = "quiet" /\ UNCHANGED held
    BY <1>0, <1>5 DEF Pause, Step, Take
  <2> QED BY <1>0, <1>1, <2>1
<1>6. CASE Paused
  <2>1. \/ /\ held'["lifecycle"] = Nobody
           /\ \A l \in Locks \ {"lifecycle"} : held'[l] = held[l]
        \/ boss = "quieting" /\ UNCHANGED held
    BY <1>0, <1>6 DEF Paused, Release
  <2> QED BY <1>0, <1>1, <2>1
<1> QED BY <1>2, <1>3, <1>4, <1>5, <1>6 DEF BossNext

\* At first nobody holds a lock.
LEMMA HoldersInitial == Init => Holders
  BY Names DEF Init, Holders, Locks

\* Who holds which lock is inductive.
LEMMA HoldersNext == AttachInv /\ Holders /\ [Next]_vars => Holders'
<1> SUFFICES ASSUME AttachInv, Holders, [Next]_vars PROVE Holders'
  OBVIOUS
<1>1. ASSUME NEW c \in Clients, WorkerNext(c) PROVE Holders'
  BY <1>1 DEF WorkerNext, Recv, Wrote, Drain, Ends, Bye, workRest, bossVars, readerVars,
     Holders
<1>2. CASE ((Output \/ Exit) /\ UNCHANGED attachVars) \/ UNCHANGED vars
  BY <1>2 DEF vars, attachVars, clientVars, bossVars, readerVars, Output, Exit, Holders
<1> QED
  BY <1>1, <1>2, HandlerHoldsNext, ReaderHoldsNext, BossHoldsNext DEF Next

\* A worker, and what is told apart by its name.
LEMMA Workers ==
  /\ \A c \in Clients : \A d : Handler(c) # Worker(d)
  /\ \A d : Worker(d) # Reader /\ Worker(d) # Boss /\ Worker(d) # Nobody
  /\ \A d : Worker(d)[1] = "worker" /\ Worker(d)[2] = d
  /\ \A c : Handler(c)[1] = "handler" /\ Handler(c)[2] = c
  /\ Reader[1] = "reader" /\ Boss[1] = "boss" /\ Reader # Boss
  BY DEF Handler, Worker, Reader, Boss, Nobody

\* Only a worker that has dropped its receiver waits, for the reader.
LEMMA WorkerWaits ==
  ASSUME Holders, NEW d
  PROVE  /\ WaitsFor(Worker(d)) \subseteq {Reader}
         /\ worker[d] # "bye" => WaitsFor(Worker(d)) = {}
<1>1. /\ Needs(Worker(d)) = IF worker[d] = "bye" THEN {"controller"} ELSE {}
  BY Workers DEF Needs
<1>2. {e \in Clients : Worker(d) = Handler(e) /\ pc[e] = "join" /\ worker[e] # "done"} = {}
  BY Workers
<1>3. WaitsFor(Worker(d)) = {held[l] : l \in Needs(Worker(d))} \ {Nobody}
  BY <1>2, Workers DEF WaitsFor
<1> QED BY <1>1, <1>3 DEF Holders

\* Whom a restart or close waits for: the reader, for a lock or for its pause.
LEMMA BossWaits ==
  ASSUME Holders PROVE WaitsFor(Boss) \subseteq {Reader}
<1>1. {e \in Clients : Boss = Handler(e) /\ pc[e] = "join" /\ worker[e] # "done"} = {}
  BY Names
<1>2. Needs(Boss) = BossNeeds
  BY Workers DEF Needs
<1>3. \A l \in BossNeeds : l \in {"wait", "lifecycle", "controller"} /\ boss # "pausing"
  BY DEF BossNeeds
<1>4. \A l \in BossNeeds : held[l] \in {Nobody, Reader}
  BY <1>3 DEF Holders
<1> QED BY <1>1, <1>2, <1>4, Names DEF WaitsFor

\* Whom a handler waits for: its worker, the reader, a restart, or at first
\* another handler that has control and does not wait for handlers.
LEMMA HandlerWaits ==
  ASSUME AttachInv, Holders, NEW c \in Clients
  PROVE  WaitsFor(Handler(c)) \subseteq
           IF pc[c] = "control"
           THEN {Reader} \cup {Handler(d) : d \in {e \in Clients : pc[e] # "control"}}
           ELSE {Reader, Boss, Worker(c)}
<1>0. \A e : Handler(c) = Handler(e) => c = e
  BY DEF Handler
<1>1. WaitsFor(Handler(c)) =
        ({held[l] : l \in HandlerNeeds(c)} \ {Nobody})
          \cup {Worker(e) : e \in {f \in Clients : Handler(c) = Handler(f) /\ pc[f] = "join"
                                                   /\ worker[f] # "done"}}
  BY Names, Workers DEF WaitsFor, Needs
<1>2. {f \in Clients : Handler(c) = Handler(f) /\ pc[f] = "join" /\ worker[f] # "done"}
        \subseteq (IF pc[c] = "join" THEN {c} ELSE {})
  BY <1>0
<1>3. CASE pc[c] = "control"
  <2>1. HandlerNeeds(c) = {"control", "controller"}
    BY <1>3 DEF HandlerNeeds
  <2>2. held["control"] # Nobody =>
          \E d \in Clients : held["control"] = Handler(d) /\ pc[d] # "control"
    BY DEF Holders, Controlling
  <2> QED BY <1>1, <1>2, <1>3, <2>1, <2>2 DEF Holders
<1>4. CASE pc[c] \in {"terminal", "resize", "install"}
  <2>1. HandlerNeeds(c) \subseteq {"terminal", "controller", "lifecycle"}
        /\ (pc[c] = "install" => "terminal" \notin HandlerNeeds(c))
    BY <1>4 DEF HandlerNeeds
  <2>2. pc[c] # "install" => held["terminal"] \in {Nobody, Reader}
    BY <1>4, Names DEF Holders, AttachInv, Locking, Controlling
  <2> QED BY <1>1, <1>2, <1>4, <2>1, <2>2 DEF Holders
<1>5. CASE pc[c] \notin {"control", "terminal", "resize", "install"}
  <2>1. HandlerNeeds(c) = {} BY <1>5 DEF HandlerNeeds
  <2> QED BY <1>1, <1>2, <1>5, <2>1
<1> QED BY <1>3, <1>4, <1>5

\* The reader waits for a worker that takes from its queue, or for a handler that
\* waits for no one.
LEMMA ReaderWaits ==
  ASSUME AttachInv, Holders, NEW t \in WaitsFor(Reader)
  PROVE  WaitsFor(t) = {}
<1>1. {e \in Clients : Reader = Handler(e) /\ pc[e] = "join" /\ worker[e] # "done"} = {}
  BY Names
<1>2. Needs(Reader) = ReaderNeeds
  BY Workers DEF Needs
<1>3. \/ t \in {held[l] : l \in ReaderNeeds} \ {Nobody}
      \/ t = Worker(controller) /\ Blocked
  BY <1>1, <1>2, Names DEF WaitsFor
<1>4. CASE t = Worker(controller) /\ Blocked
  BY <1>4, WorkerWaits DEF Blocked, Open
<1>5. CASE t \in {held[l] : l \in ReaderNeeds} \ {Nobody}
  <2>1. rd = "terminal" /\ t = held["terminal"] /\ t # Nobody
    BY <1>5 DEF ReaderNeeds, Holders
  <2>2. PICK d \in Clients : t = Handler(d) /\ pc[d] = "install"
    BY <2>1 DEF Holders
  <2>3. held["controller"] = Nobody /\ held["lifecycle"] = Nobody
    BY <2>1, <2>2, Names DEF Holders, AttachInv, Locking, Installing
  <2>4. Needs(t) = {"controller", "lifecycle"}
    BY <2>2, Names, Workers DEF Needs, HandlerNeeds
  <2>5. {e \in Clients : t = Handler(e) /\ pc[e] = "join" /\ worker[e] # "done"} = {}
    BY <2>2, Names
  <2> QED BY <2>2, <2>3, <2>4, <2>5, Names DEF WaitsFor
<1> QED BY <1>3, <1>4, <1>5

\* No circle: go from the reader to the workers, the restart or close, and the
\* handlers; each waits only for those before it or for one that does not wait.
LEMMA CirclesBreak ==
  ASSUME AttachInv, Holders, NEW circle \in SUBSET {t \in Threads : WaitsFor(t) # {}},
         circle # {}
  PROVE  \E t \in circle : WaitsFor(t) \cap circle = {}
<1>1. CASE Reader \in circle
  BY <1>1, ReaderWaits
<1>2. CASE Reader \notin circle /\ \E d \in Clients : Worker(d) \in circle
  BY <1>2, WorkerWaits
<1>3. CASE Reader \notin circle /\ Boss \in circle
  BY <1>3, BossWaits
<1>4. CASE /\ Reader \notin circle /\ Boss \notin circle
           /\ \A d \in Clients : Worker(d) \notin circle
  <2>1. \A t \in circle : \E c \in Clients : t = Handler(c)
    BY <1>4 DEF Threads
  <2>2. CASE \E c \in Clients : Handler(c) \in circle /\ pc[c] # "control"
    BY <1>4, <2>2, HandlerWaits
  <2>3. CASE \A c \in Clients : Handler(c) \in circle => pc[c] = "control"
    <3>1. PICK c \in Clients : Handler(c) \in circle BY <2>1
    <3> QED BY <1>4, <2>3, <3>1, HandlerWaits
  <2> QED BY <2>2, <2>3
<1> QED BY <1>1, <1>2, <1>3, <1>4

\* The threads around a running Shell never wait for one another in a circle
\* (handle_attach, fanout_output, prepare_handoff and stop_runtime).
THEOREM NoneWaitInACircle == Spec => []NoCircularWait
<1>1. AttachInv /\ Holders => NoCircularWait
  <2> SUFFICES ASSUME AttachInv, Holders,
                      NEW circle \in (SUBSET {t \in Threads : WaitsFor(t) # {}}) \ {{}}
               PROVE  \E t \in circle :
                        [u \in Threads |-> WaitsFor(u)][t] \cap circle = {}
    BY DEF NoCircularWait
  <2>1. circle \in SUBSET {t \in Threads : WaitsFor(t) # {}} /\ circle # {}
    OBVIOUS
  <2>2. PICK t \in circle : WaitsFor(t) \cap circle = {}
    BY <2>1, CirclesBreak
  <2> QED BY <2>1, <2>2
<1> QED
  BY <1>1, AttachInitial, AttachNext, HoldersInitial, HoldersNext, PTL DEF Spec

-----------------------------------------------------------------------------
(* What a participant has and gets of the output.                          *)

Items == [is : {"output", "resize", "reconnect"}, n : Nat]

FlowTyped ==
  /\ screen \in Nat /\ ops \in Nat
  /\ queue \in [Clients -> Seq(Items)] /\ shown \in [Clients -> Nat]
  /\ worker \in [Clients -> {"off", "recv", "write", "drain", "bye", "done"}]
  /\ DOMAIN hand = Clients
  /\ \A c \in Clients : worker[c] = "write" => hand[c] \in Items

\* Between a read and its fan out the reader has the terminal, and between the
\* reconstruction and the installation the handler has it; so what a new
\* participant is shown is what has passed the old ones, and nothing is queued.
Screened ==
  /\ rd \in {"fan", "send"} => held["terminal"] = Reader
  /\ \A c \in Clients :
       /\ pc[c] = "install" => held["terminal"] = Handler(c) /\ shown[c] = screen
       /\ pc[c] \in {"idle"} \cup Installing => worker[c] = "off" /\ queue[c] = <<>>

Flows ==
  \A c \in Clients : Member(c) /\ worker[c] \in {"recv", "write"} =>
    Gapless(Pending(c), shown[c], Passed)

FlowInv == FlowTyped /\ Screened /\ Flows

\* A queue that gets an item, and one whose first item is taken to be written.
LEMMA QueueMoves ==
  ASSUME NEW q \in Seq(Items), NEW x \in Items
  PROVE  /\ Append(q, x) \in Seq(Items)
         /\ DOMAIN q = 1..Len(q) /\ Len(q) \in Nat
         /\ DOMAIN Append(q, x) = 1..(Len(q) + 1)
         /\ Append(q, x)[Len(q) + 1] = x
         /\ \A i \in 1..Len(q) : Append(q, x)[i] = q[i] /\ q[i] \in Items
         /\ DOMAIN (<<x>> \o q) = 1..(Len(q) + 1) /\ <<x>> \o q \in Seq(Items)
         /\ (<<x>> \o q)[1] = x
         /\ \A i \in 1..Len(q) : (<<x>> \o q)[i + 1] = q[i]
  OBVIOUS

\* A queue is the item its worker takes and the rest.
LEMMA QueueTaken ==
  ASSUME NEW q \in Seq(Items), q # <<>>
  PROVE  /\ Head(q) \in Items /\ Tail(q) \in Seq(Items)
         /\ <<Head(q)>> \o Tail(q) = q
<1>1. Head(q) \in Items /\ Tail(q) \in Seq(Items) /\ Len(Tail(q)) = Len(q) - 1
      /\ Len(q) \in Nat \ {0} /\ Head(q) = q[1]
      /\ \A i \in 1..(Len(q) - 1) : Tail(q)[i] = q[i + 1]
  OBVIOUS
<1>2. /\ <<Head(q)>> \o Tail(q) \in Seq(Items)
      /\ Len(<<Head(q)>> \o Tail(q)) = Len(q)
      /\ \A i \in 1..Len(q) : (<<Head(q)>> \o Tail(q))[i] = q[i]
  <2> DEFINE r == Tail(q)
             h == Head(q)
  <2>1. /\ r \in Seq(Items) /\ h \in Items /\ Len(r) = Len(q) - 1 /\ h = q[1]
        /\ \A i \in 1..(Len(q) - 1) : r[i] = q[i + 1]
    BY <1>1
  <2> HIDE DEF r, h
  <2>2. /\ <<h>> \o r \in Seq(Items) /\ Len(<<h>> \o r) = Len(r) + 1
        /\ (<<h>> \o r)[1] = h
        /\ \A i \in 2..(Len(r) + 1) : (<<h>> \o r)[i] = r[i - 1]
    BY <2>1
  <2>3. \A i \in 1..Len(q) : (<<h>> \o r)[i] = q[i]
    BY <1>1, <2>1, <2>2
  <2> QED BY <2>1, <2>2, <2>3, <1>1 DEF r, h
<1> QED BY <1>1, <1>2, SeqEqual

\* Nothing is missing at first.
LEMMA GaplessEmpty == \A n \in Nat : Gapless(<<>>, n, n)
<1>1. DOMAIN <<>> = {} OBVIOUS
<1>2. Outputs(<<>>) = {} BY <1>1 DEF Outputs
<1>3. \A n \in Nat : (n + 1)..n = {} OBVIOUS
<1> QED BY <1>2, <1>3 DEF Gapless

\* The next output, and what is no output, may follow.
LEMMA GaplessAppend ==
  ASSUME NEW q \in Seq(Items), NEW x \in Items, NEW lo \in Nat, NEW hi \in Int,
         Gapless(q, lo, hi)
  PROVE  /\ x.is = "output" /\ x.n = hi + 1 => Gapless(Append(q, x), lo, hi + 1)
         /\ x.is # "output" => Gapless(Append(q, x), lo, hi)
<1> DEFINE a == Append(q, x)
           k == Len(q) + 1
<1>1. /\ DOMAIN q = 1..Len(q) /\ Len(q) \in Nat /\ DOMAIN a = 1..k /\ a[k] = x
      /\ \A i \in 1..Len(q) : a[i] = q[i] /\ q[i] \in Items
  BY QueueMoves
<1> HIDE DEF a
<1>2. Outputs(a) = Outputs(q) \cup (IF x.is = "output" THEN {k} ELSE {})
  BY <1>1 DEF Outputs
<1>3. /\ lo <= hi /\ {q[i].n : i \in Outputs(q)} = (lo + 1)..hi
      /\ \A i, j \in Outputs(q) : i < j => q[i].n < q[j].n
  BY DEF Gapless
<1>4. \A i \in Outputs(q) : i \in 1..Len(q) /\ a[i] = q[i] /\ q[i].n \in (lo + 1)..hi
  BY <1>1, <1>3 DEF Outputs
<1>5. ASSUME x.is # "output" PROVE Gapless(a, lo, hi)
  <2>1. Outputs(a) = Outputs(q) BY <1>2, <1>5
  <2>2. {a[i].n : i \in Outputs(q)} = {q[i].n : i \in Outputs(q)} BY <1>4
  <2> QED BY <1>3, <1>4, <2>1, <2>2 DEF Gapless
<1>6. ASSUME x.is = "output", x.n = hi + 1 PROVE Gapless(a, lo, hi + 1)
  <2>1. Outputs(a) = Outputs(q) \cup {k} BY <1>2, <1>6
  <2>2. {a[i].n : i \in Outputs(a)} = {q[i].n : i \in Outputs(q)} \cup {x.n}
    BY <1>1, <1>4, <2>1
  <2>3. (lo + 1)..(hi + 1) = (lo + 1)..hi \cup {hi + 1} BY <1>3
  <2>4. \A i, j \in Outputs(a) : i < j => a[i].n < a[j].n
    <3> SUFFICES ASSUME NEW i \in Outputs(a), NEW j \in Outputs(a), i < j
                 PROVE  a[i].n < a[j].n
      OBVIOUS
    <3>1. i \in Outputs(q)
      BY <1>1, <1>4, <2>1
    <3>2. CASE j \in Outputs(q) BY <1>3, <1>4, <3>1, <3>2
    <3>3. CASE j = k
      <4>1. a[j].n = hi + 1 BY <1>1, <1>6, <3>3
      <4>2. a[i].n = q[i].n /\ q[i].n \in (lo + 1)..hi BY <1>4, <3>1
      <4> QED BY <4>1, <4>2
    <3> QED BY <2>1, <3>2, <3>3
  <2>5. {a[i].n : i \in Outputs(a)} = (lo + 1)..(hi + 1)
    BY <1>3, <1>6, <2>2, <2>3
  <2>6. lo <= hi + 1 BY <1>3
  <2> QED BY <2>4, <2>5, <2>6 DEF Gapless
<1> QED BY <1>5, <1>6 DEF a

\* The first item is the next output, or no output.
LEMMA GaplessHead ==
  ASSUME NEW q \in Seq(Items), NEW h \in Items, NEW lo \in Nat, NEW hi \in Int,
         Gapless(<<h>> \o q, lo, hi)
  PROVE  /\ h.is = "output" => h.n = lo + 1 /\ Gapless(q, lo + 1, hi)
         /\ h.is # "output" => Gapless(q, lo, hi)
<1> DEFINE a == <<h>> \o q
<1>1. /\ DOMAIN q = 1..Len(q) /\ Len(q) \in Nat /\ DOMAIN a = 1..(Len(q) + 1) /\ a[1] = h
      /\ \A i \in 1..Len(q) : a[i + 1] = q[i] /\ q[i] \in Items
  BY QueueMoves
<1> HIDE DEF a
<1>2. \A i \in 1..Len(q) : i \in Outputs(q) <=> i + 1 \in Outputs(a)
  BY <1>1 DEF Outputs
<1>3. /\ lo <= hi /\ {a[i].n : i \in Outputs(a)} = (lo + 1)..hi
      /\ \A i, j \in Outputs(a) : i < j => a[i].n < a[j].n
  BY DEF Gapless, a
<1>4. /\ Outputs(q) \subseteq 1..Len(q) /\ Outputs(a) \subseteq 1..(Len(q) + 1)
      /\ (1 \in Outputs(a) <=> h.is = "output")
  BY <1>1 DEF Outputs
<1>5. \A i, j \in Outputs(q) : i < j => q[i].n < q[j].n
  <2> SUFFICES ASSUME NEW i \in Outputs(q), NEW j \in Outputs(q), i < j
               PROVE  q[i].n < q[j].n
    OBVIOUS
  <2>1. /\ i \in 1..Len(q) /\ j \in 1..Len(q)
        /\ i + 1 \in Outputs(a) /\ j + 1 \in Outputs(a)
        /\ i + 1 < j + 1
    BY <1>2, <1>4
  <2> QED BY <1>1, <1>3, <2>1
<1>6. \A i \in Outputs(a) : i = 1 \/ (i - 1 \in Outputs(q) /\ a[i] = q[i - 1])
  <2> SUFFICES ASSUME NEW i \in Outputs(a), i # 1
               PROVE  i - 1 \in Outputs(q) /\ a[i] = q[i - 1]
    OBVIOUS
  <2>1. i - 1 \in 1..Len(q) /\ (i - 1) + 1 = i BY <1>1, <1>4
  <2>2. i - 1 \in Outputs(q) <=> (i - 1) + 1 \in Outputs(a) BY <1>2, <2>1
  <2>3. a[(i - 1) + 1] = q[i - 1] BY <1>1, <2>1
  <2> QED BY <2>1, <2>2, <2>3
<1>7. \A i \in Outputs(q) : i + 1 \in Outputs(a) /\ a[i + 1] = q[i]
  BY <1>1, <1>2, <1>4
<1>8. ASSUME h.is # "output" PROVE Gapless(q, lo, hi)
  <2>1. {q[i].n : i \in Outputs(q)} = {a[i].n : i \in Outputs(a)}
    BY <1>4, <1>6, <1>7, <1>8
  <2> QED BY <1>3, <1>5, <2>1 DEF Gapless
<1>9. ASSUME h.is = "output" PROVE h.n = lo + 1 /\ Gapless(q, lo + 1, hi)
  <2>1. 1 \in Outputs(a) /\ h.n \in (lo + 1)..hi BY <1>1, <1>3, <1>4, <1>9
  <2>2. \A i \in Outputs(q) : h.n < q[i].n /\ q[i].n \in (lo + 1)..hi
    <3> SUFFICES ASSUME NEW i \in Outputs(q)
                 PROVE  h.n < q[i].n /\ q[i].n \in (lo + 1)..hi
      OBVIOUS
    <3>1. i + 1 \in Outputs(a) /\ a[i + 1] = q[i] /\ 1 < i + 1 BY <1>4, <1>7
    <3> QED BY <1>1, <1>3, <2>1, <3>1
  <2> lo + 1 \in (lo + 1)..hi BY <1>3, <2>1
  <2> lo + 1 \in {a[i].n : i \in Outputs(a)} BY <1>3
  <2>3. PICK i \in Outputs(a) : a[i].n = lo + 1 OBVIOUS
  <2>4. i = 1 BY <1>6, <2>1, <2>2, <2>3
  <2>5. h.n = lo + 1 BY <1>1, <2>3, <2>4
  <2>6. {q[j].n : j \in Outputs(q)} = (lo + 2)..hi
    <3>1. \A j \in Outputs(q) : q[j].n \in (lo + 2)..hi BY <2>2, <2>5
    <3>2. ASSUME NEW v \in (lo + 2)..hi PROVE \E j \in Outputs(q) : q[j].n = v
      <4> v \in (lo + 1)..hi BY <3>2
      <4> v \in {a[j].n : j \in Outputs(a)} BY <1>3
      <4>1. PICK j \in Outputs(a) : a[j].n = v OBVIOUS
      <4>2. j # 1 BY <1>1, <2>5, <3>2, <4>1
      <4> QED BY <1>6, <4>1, <4>2
    <3> QED BY <3>1, <3>2
  <2> QED BY <1>3, <1>5, <2>1, <2>5, <2>6 DEF Gapless
<1> QED BY <1>8, <1>9

\* A participant for whom nothing changes, or that is no longer one.
FlowStays(c) ==
  \/ ~Member(c)' \/ worker'[c] \notin {"recv", "write"}
  \/ /\ Member(c) /\ worker'[c] = worker[c] /\ Passed' = Passed
     /\ hand'[c] = hand[c] /\ queue'[c] = queue[c] /\ shown'[c] = shown[c]

\* A participant none of whose output moved stays without a gap.
LEMMA StaysGapless ==
  ASSUME FlowTyped, Flows, NEW c \in Clients, FlowStays(c),
         Member(c)', worker'[c] \in {"recv", "write"}
  PROVE  Gapless(Pending(c), shown[c], Passed)'
<1>1. /\ Member(c) /\ worker'[c] = worker[c] /\ Passed' = Passed
      /\ hand'[c] = hand[c] /\ queue'[c] = queue[c] /\ shown'[c] = shown[c]
  BY DEF FlowStays
<1>2. Gapless(Pending(c), shown[c], Passed)
  BY <1>1 DEF Flows
<1>3. Pending(c)' = Pending(c)
  BY <1>1 DEF Pending
<1>4. PICK q : q = Pending(c) OBVIOUS
<1>5. Gapless(q, shown[c], Passed) BY <1>2, <1>4
<1>6. Gapless(q, shown'[c], Passed') BY <1>1, <1>5
<1>7. q = Pending(c)' BY <1>3, <1>4
<1> QED BY <1>6, <1>7 DEF Gapless, Outputs

\* A participant whose queue gets an item that is not output.
LEMMA NoticeGapless ==
  ASSUME FlowTyped, Flows, NEW c \in Clients, Member(c), worker[c] \in {"recv", "write"},
         NEW x \in Items, x.is # "output", queue'[c] = Append(queue[c], x),
         worker'[c] = worker[c], hand'[c] = hand[c], shown'[c] = shown[c], Passed' = Passed
  PROVE  Gapless(Pending(c), shown[c], Passed)'
<1>1. PICK q \in Seq(Items) : q = Pending(c)
  BY QueueMoves DEF FlowTyped, Pending
<1>2. PICK lo \in Nat : lo = shown[c] BY DEF FlowTyped
<1>3. PICK hi \in Int : hi = Passed BY DEF FlowTyped, Passed
<1>4. Gapless(q, lo, hi) BY <1>1, <1>2, <1>3 DEF Flows
<1>5. Gapless(Append(q, x), lo, hi) BY <1>4, GaplessAppend
<1>6. Pending(c)' = Append(q, x)
  <2>1. PICK p \in Seq(Items) : p = queue[c] BY DEF FlowTyped
  <2>2. CASE worker[c] = "write"
    <3>1. PICK h \in Items : h = hand[c] BY <2>2 DEF FlowTyped
    <3>2. q = <<h>> \o p /\ Pending(c)' = <<h>> \o Append(p, x)
      BY <1>1, <2>1, <2>2, <3>1 DEF Pending
    <3>3. <<h>> \o Append(p, x) = Append(<<h>> \o p, x) OBVIOUS
    <3> QED BY <3>2, <3>3
  <2>3. CASE worker[c] # "write" BY <1>1, <2>1, <2>3 DEF Pending
  <2> QED BY <2>2, <2>3
<1>7. shown'[c] = lo /\ Passed' = hi BY <1>2, <1>3
<1> QED BY <1>5, <1>6, <1>7 DEF Gapless, Outputs

\* A participant whose queue gets the output that has just passed.
LEMMA OutputGapless ==
  ASSUME FlowTyped, Flows, NEW c \in Clients, Member(c), worker[c] \in {"recv", "write"},
         queue'[c] = Append(queue[c], OutputItem),
         worker'[c] = worker[c], hand'[c] = hand[c], shown'[c] = shown[c],
         Passed = screen - 1, Passed' = screen
  PROVE  Gapless(Pending(c), shown[c], Passed)'
<1>1. PICK q \in Seq(Items) : q = Pending(c)
  BY QueueMoves DEF FlowTyped, Pending
<1>2. PICK lo \in Nat : lo = shown[c] BY DEF FlowTyped
<1>3. PICK hi \in Int : hi = Passed BY DEF FlowTyped, Passed
<1>4. Gapless(q, lo, hi) BY <1>1, <1>2, <1>3 DEF Flows
<1>5. PICK x \in Items : x = OutputItem /\ x.is = "output" /\ x.n = hi + 1
  <2>1. screen \in Nat /\ screen = hi + 1 BY <1>3 DEF FlowTyped
  <2>2. OutputItem \in Items /\ OutputItem.is = "output" /\ OutputItem.n = screen
    BY <2>1 DEF OutputItem, Items
  <2> QED BY <2>1, <2>2
<1>6. Gapless(Append(q, x), lo, hi + 1) BY <1>4, <1>5, GaplessAppend
<1>7. Pending(c)' = Append(q, x)
  <2>1. PICK p \in Seq(Items) : p = queue[c] BY DEF FlowTyped
  <2>2. CASE worker[c] = "write"
    <3>1. PICK h \in Items : h = hand[c] BY <2>2 DEF FlowTyped
    <3>2. q = <<h>> \o p /\ Pending(c)' = <<h>> \o Append(p, x)
      BY <1>1, <1>5, <2>1, <2>2, <3>1 DEF Pending
    <3>3. <<h>> \o Append(p, x) = Append(<<h>> \o p, x) OBVIOUS
    <3> QED BY <3>2, <3>3
  <2>3. CASE worker[c] # "write" BY <1>1, <1>5, <2>1, <2>3 DEF Pending
  <2> QED BY <2>2, <2>3
<1>8. shown'[c] = lo /\ Passed' = hi + 1 BY <1>2, <1>3 DEF FlowTyped
<1> QED BY <1>6, <1>7, <1>8 DEF Gapless, Outputs

-----------------------------------------------------------------------------
\* A worker takes an item, writes it, or ends.
LEMMA WorkerFlows ==
  ASSUME AttachInv, FlowInv, NEW c \in Clients, WorkerNext(c)
  PROVE  FlowInv'
<1> USE DEF FlowInv
<1>1. /\ UNCHANGED <<rd, screen, held, pc, ops>> /\ Passed' = Passed
      /\ Member(c)' => Member(c)
      /\ \A d \in Clients \ {c} :
           /\ worker'[d] = worker[d] /\ hand'[d] = hand[d] /\ queue'[d] = queue[d]
           /\ shown'[d] = shown[d] /\ (Member(d)' => Member(d))
      /\ worker[c] # "off" /\ DOMAIN hand' = Clients
  <2>1. UNCHANGED <<rd, screen, held, pc, ops>> /\ worker[c] # "off"
    BY DEF WorkerNext, Recv, Wrote, Drain, Ends, Bye, workRest, readerVars, process,
       bossVars
  <2>2. \A d \in Clients : Member(d)' => Member(d)
    BY AttachmentAssumption
    DEF WorkerNext, Recv, Wrote, Drain, Ends, Bye, Remove, workRest, members, Member
  <2>3. /\ \A d \in Clients \ {c} :
             /\ worker'[d] = worker[d] /\ hand'[d] = hand[d] /\ queue'[d] = queue[d]
             /\ shown'[d] = shown[d]
        /\ DOMAIN hand' = Clients
    BY DEF WorkerNext, Recv, Wrote, Drain, Ends, Bye, SetWorker, workRest, FlowTyped
  <2> QED BY <2>1, <2>2, <2>3 DEF Passed
<1>2. Screened'
  <2>1. pc[c] \notin {"idle"} \cup Installing BY <1>1 DEF Screened
  <2>2. pc[c] # "install" BY <2>1 DEF Installing
  <2> QED BY <1>1, <2>1, <2>2 DEF Screened
<1>3. \A d \in Clients \ {c} : FlowStays(d) BY <1>1 DEF FlowStays
<1>4. CASE Recv(c)
  <2>1. PICK q \in Seq(Items) : q = queue[c] /\ q # <<>> BY <1>4 DEF Recv, FlowTyped
  <2>2. /\ worker[c] = "recv" /\ worker'[c] = "write" /\ hand'[c] = Head(q)
        /\ queue'[c] = Tail(q) /\ shown'[c] = shown[c] /\ UNCHANGED shown
    BY <1>4, <2>1 DEF Recv, SetWorker, FlowTyped
  <2>3. Head(q) \in Items /\ Tail(q) \in Seq(Items) /\ <<Head(q)>> \o Tail(q) = q
    BY <2>1, QueueTaken
  <2>4. FlowTyped'
    <3>1. queue' \in [Clients -> Seq(Items)] BY <1>4, <2>1, <2>3 DEF Recv, FlowTyped
    <3>2. worker' \in [Clients -> {"off", "recv", "write", "drain", "bye", "done"}]
      BY <1>4 DEF Recv, SetWorker, FlowTyped
    <3> QED BY <1>1, <2>2, <2>3, <3>1, <3>2 DEF FlowTyped
  <2>5. ASSUME Member(c)' PROVE Gapless(Pending(c), shown[c], Passed)'
    <3>1. Gapless(q, shown[c], Passed)
      BY <1>1, <2>1, <2>2, <2>5 DEF Flows, Pending
    <3>2. Pending(c)' = q BY <2>2, <2>3 DEF Pending
    <3>3. Gapless(q, shown'[c], Passed') BY <1>1, <2>2, <3>1
    <3> QED BY <3>2, <3>3 DEF Gapless, Outputs
  <2>6. Flows' BY <1>3, <2>5, StaysGapless DEF Flows
  <2> QED BY <1>2, <2>4, <2>6
<1>5. CASE Wrote(c)
  <2>1. PICK h \in Items : h = hand[c] BY <1>5 DEF Wrote, FlowTyped
  <2>2. PICK q \in Seq(Items) : q = queue[c] BY DEF FlowTyped
  <2>3. PICK lo \in Nat : lo = shown[c] BY DEF FlowTyped
  <2>4. PICK hi \in Int : hi = Passed BY DEF FlowTyped, Passed
  <2>5. /\ worker[c] = "write"
        /\ worker'[c] = (IF h.is = "reconnect" THEN "drain" ELSE "recv")
        /\ shown'[c] = (IF h.is = "output" THEN h.n ELSE lo)
        /\ UNCHANGED queue
    BY <1>5, <2>1, <2>3 DEF Wrote, SetWorker, FlowTyped
  <2>6. FlowTyped'
    <3>1. worker' \in [Clients -> {"off", "recv", "write", "drain", "bye", "done"}]
      BY <1>5 DEF Wrote, SetWorker, FlowTyped
    <3>2. shown' \in [Clients -> Nat]
      BY <1>5, <2>1 DEF Wrote, FlowTyped, Items
    <3> QED BY <1>1, <2>5, <3>1, <3>2 DEF FlowTyped
  <2>7. ASSUME Member(c)', worker'[c] \in {"recv", "write"}
        PROVE  Gapless(Pending(c), shown[c], Passed)'
    <3>1. Gapless(<<h>> \o q, lo, hi)
      BY <1>1, <2>1, <2>2, <2>3, <2>4, <2>5, <2>7 DEF Flows, Pending
    <3>2. Gapless(q, IF h.is = "output" THEN h.n ELSE lo, hi)
      BY <3>1, GaplessHead
    <3>3. Pending(c)' = q BY <2>2, <2>5 DEF Pending
    <3>4. Gapless(q, shown'[c], Passed') BY <1>1, <2>4, <2>5, <3>2
    <3> QED BY <3>3, <3>4 DEF Gapless, Outputs
  <2>8. Flows' BY <1>3, <2>7, StaysGapless DEF Flows
  <2> QED BY <1>2, <2>6, <2>8
<1>6. CASE Drain(c) \/ Ends(c) \/ Bye(c)
  <2>1. worker'[c] \in {"drain", "bye", "done"}
    BY <1>6 DEF Drain, Ends, Bye, SetWorker, FlowTyped
  <2>2. FlowTyped'
    <3>1. /\ queue' \in [Clients -> Seq(Items)] /\ shown' \in [Clients -> Nat]
          /\ worker' \in [Clients -> {"off", "recv", "write", "drain", "bye", "done"}]
      <4>1. <<>> \in Seq(Items) OBVIOUS
      <4> QED BY <1>6, <4>1 DEF Drain, Ends, Bye, SetWorker, FlowTyped, workRest
    <3> QED BY <1>1, <2>1, <3>1 DEF FlowTyped
  <2>3. FlowStays(c) BY <2>1 DEF FlowStays
  <2>4. Flows' BY <1>3, <2>1, <2>3, StaysGapless DEF Flows
  <2> QED BY <1>2, <2>2, <2>4
<1> QED BY <1>4, <1>5, <1>6 DEF WorkerNext

\* A step that touches neither the queues nor what has been shown.
LEMMA SameFlows ==
  ASSUME FlowTyped, Flows, UNCHANGED <<worker, hand, queue>>, screen' \in Nat, ops' \in Nat,
         shown' \in [Clients -> Nat], Passed' = Passed,
         \A c \in Clients : Member(c)' => Member(c),
         \A c \in Clients : shown'[c] = shown[c] \/ ~Member(c)' \/ worker[c] = "off"
  PROVE  FlowTyped' /\ Flows'
<1>1. FlowTyped' BY DEF FlowTyped
<1>2. \A c \in Clients : FlowStays(c) BY DEF FlowStays
<1>3. Flows' BY <1>2, StaysGapless DEF Flows
<1> QED BY <1>1, <1>3

\* A step of a handler leaves the terminal to whom it belongs.
LEMMA HandlerScreened ==
  ASSUME AttachInv, Screened, NEW c \in Clients, NEW s, Goto(c, s),
         UNCHANGED <<rd, screen>>,
         \A d \in Clients \ {c} :
           /\ shown'[d] = shown[d]
           /\ worker[d] = "off" => worker'[d] = "off" /\ queue'[d] = queue[d],
         s \in Installing => worker'[c] = "off" /\ queue'[c] = <<>>, s # "idle",
         s = "install" => /\ held["terminal"] = Nobody /\ held'["terminal"] = Handler(c)
                          /\ shown'[c] = screen,
         held'["terminal"] = held["terminal"] \/ held["terminal"] \in {Nobody, Handler(c)}
  PROVE  Screened'
<1>1. /\ \A d \in Clients \ {c} : pc'[d] = pc[d] /\ Handler(d) # Handler(c)
      /\ pc'[c] = s
      /\ \A d \in Clients : Handler(d) # Nobody /\ Handler(d) # Reader
      /\ Reader # Nobody
  BY Names DEF AttachInv, Locking, Goto
<1>2. rd \in {"fan", "send"} => held'["terminal"] = Reader
  BY <1>1 DEF Screened
<1>3. ASSUME NEW d \in Clients
      PROVE  /\ pc'[d] = "install" => held'["terminal"] = Handler(d) /\ shown'[d] = screen
             /\ pc'[d] \in {"idle"} \cup Installing =>
                  worker'[d] = "off" /\ queue'[d] = <<>>
  <2>1. CASE d = c BY <1>1, <2>1
  <2>2. CASE d # c BY <1>1, <2>2 DEF Screened
  <2> QED BY <2>1, <2>2
<1> QED BY <1>2, <1>3 DEF Screened

\* The handler's steps that leave the queues alone.
LEMMA QuietHandlerFlows ==
  ASSUME AttachInv, Holders, FlowInv, NEW c \in Clients,
         \/ \E k \in Kinds : Attach(c, k)
         \/ TakeControl(c) \/ Respond(c) \/ Input(c) \/ Written(c) \/ Resize(c)
         \/ Acknowledge(c) \/ Leave(c) \/ Join(c)
  PROVE  FlowInv'
<1> USE DEF FlowInv
<1>0. /\ held \in [Locks -> Threads \cup {Nobody}] /\ Handler(c) \in Threads
      /\ Locks = {"mutation", "control", "terminal", "lifecycle", "controller", "wait"}
      /\ None \notin Clients
  BY Names, AttachmentAssumption DEF AttachInv, Locking, Locks
<1>1. /\ UNCHANGED <<rd, screen, worker, hand, queue, ops>>
      /\ \A d \in Clients : Member(d)' => Member(d)
  <2>1. UNCHANGED <<rd, screen, worker, hand, queue, ops>>
    BY DEF Attach, TakeControl, Respond, Input, Written, Resize, Acknowledge, Leave, Join,
       Begin, inputRest, readerVars, process, bossVars
  <2>2. \/ UNCHANGED members
        \/ Remove(c)
    BY DEF Attach, TakeControl, Respond, Input, Written, Resize, Acknowledge, Leave, Join,
       members
  <2> QED BY <1>0, <2>1, <2>2 DEF members, Remove, Member
<1>2. Passed' = Passed BY <1>1 DEF Passed
<1>3. /\ \A d \in Clients \ {c} : shown'[d] = shown[d]
      /\ shown' \in [Clients -> Nat]
      /\ shown'[c] = shown[c] \/ ~Member(c)' \/ worker[c] = "off"
  <2>1. CASE Respond(c)
    <3>1. worker[c] = "off" BY <2>1 DEF Respond, Screened, Installing
    <3> QED BY <2>1, <3>1 DEF Respond, FlowTyped
  <2>2. CASE Join(c)
    <3>1. ~Member(c) BY <2>2 DEF Join, AttachInv, Participants, Attached
    <3> QED BY <1>1, <2>2, <3>1 DEF Join, FlowTyped
  <2>3. CASE ~Respond(c) /\ ~Join(c)
    <3>1. UNCHANGED shown
      BY <2>3 DEF Attach, TakeControl, Input, Written, Resize, Acknowledge, Leave, Begin,
         inputRest
    <3> QED BY <3>1 DEF FlowTyped
  <2> QED BY <2>1, <2>2, <2>3
<1>4. FlowTyped' /\ Flows'
  <2>1. screen' \in Nat /\ ops' \in Nat BY <1>1 DEF FlowTyped
  <2>2. \A d \in Clients : shown'[d] = shown[d] \/ ~Member(d)' \/ worker[d] = "off"
    BY <1>3
  <2> QED BY <1>1, <1>2, <1>3, <2>1, <2>2, SameFlows
<1>5. Screened'
  <2>1. \A d \in Clients \ {c} :
          /\ shown'[d] = shown[d]
          /\ worker[d] = "off" => worker'[d] = "off" /\ queue'[d] = queue[d]
    BY <1>1, <1>3
  <2>2. pc[c] \in Installing \cup {"idle"} => worker'[c] = "off" /\ queue'[c] = <<>>
    BY <1>1 DEF Screened
  <2>3. ReleaseAll(Handler(c)) =>
          held'["terminal"] = held["terminal"] \/ held["terminal"] = Handler(c)
    BY <1>0 DEF ReleaseAll
  <2>4. \A l \in {"mutation", "control"} :
          Take(l, Handler(c)) => held'["terminal"] = held["terminal"]
    BY <1>0 DEF Take
  <2>5. CASE \E k \in Kinds : Attach(c, k)
    <3>1. Goto(c, "control") /\ Take("mutation", Handler(c)) /\ pc[c] = "idle"
      BY <2>5 DEF Attach
    <3> QED BY <1>1, <2>1, <2>2, <2>4, <3>1, HandlerScreened
  <2>6. CASE TakeControl(c)
    <3>1. /\ pc[c] \in Installing
          /\ \/ Goto(c, "terminal") /\ Take("control", Handler(c))
             \/ Goto(c, "done") /\ ReleaseAll(Handler(c))
      BY <2>6 DEF TakeControl, Installing
    <3>2. "done" \notin Installing /\ "terminal" # "install" BY DEF Installing
    <3> QED BY <1>1, <2>1, <2>2, <2>3, <2>4, <3>1, <3>2, HandlerScreened
  <2>7. CASE Respond(c)
    <3>1. /\ pc[c] \in Installing
          /\ \/ /\ Goto(c, "install") /\ held["terminal"] = Nobody
                /\ held'["terminal"] = Handler(c) /\ shown'[c] = screen
             \/ Goto(c, "done") /\ ReleaseAll(Handler(c))
      BY <1>0, <2>7 DEF Respond, Installing, Take, Free, FlowTyped
    <3>2. "done" \notin Installing BY DEF Installing
    <3> QED BY <1>1, <2>1, <2>2, <2>3, <3>1, <3>2, HandlerScreened
  <2>8. CASE Input(c) \/ Written(c) \/ Resize(c) \/ Acknowledge(c) \/ Leave(c) \/ Join(c)
    <3>1. PICK s : /\ Goto(c, s) /\ s \notin Installing /\ s # "idle"
                   /\ \/ Take("control", Handler(c)) \/ ReleaseAll(Handler(c))
                      \/ UNCHANGED held
      BY <2>8 DEF Input, Written, Resize, Acknowledge, Leave, Join, Begin, inputRest,
         Installing
    <3>2. s # "install" BY <3>1 DEF Installing
    <3> QED BY <1>1, <2>1, <2>3, <2>4, <3>1, <3>2, HandlerScreened
  <2> QED BY <2>5, <2>6, <2>7, <2>8
<1> QED BY <1>4, <1>5

\* A new participant has what has passed the others, and nothing is queued.
LEMMA InstallFlows ==
  ASSUME AttachInv, Holders, FlowInv, NEW c \in Clients, Install(c)
  PROVE  FlowInv'
<1> USE DEF FlowInv
<1>0. /\ held \in [Locks -> Threads \cup {Nobody}] /\ Handler(c) # Reader
      /\ Locks = {"mutation", "control", "terminal", "lifecycle", "controller", "wait"}
  BY Names DEF AttachInv, Locking, Locks
<1>1. /\ UNCHANGED <<rd, screen, hand, queue, shown, ops>> /\ Passed' = Passed
      /\ worker' = [worker EXCEPT ![c] = "recv"]
      /\ Goto(c, "loop") /\ ReleaseAll(Handler(c)) /\ pc[c] = "install"
      /\ \A d \in Clients \ {c} : Member(d)' => Member(d)
  BY DEF Install, readerVars, process, bossVars, Member, Members, Passed
<1>2. held["terminal"] = Handler(c) /\ shown[c] = screen /\ queue[c] = <<>>
  BY <1>1 DEF Screened, Installing
<1>3. Passed = screen BY <1>0, <1>2 DEF Screened, Passed
<1>4. FlowTyped' BY <1>1 DEF FlowTyped
<1>5. Screened'
  <2>1. \A d \in Clients \ {c} : worker'[d] = worker[d] /\ shown'[d] = shown[d]
                                 /\ queue'[d] = queue[d]
    BY <1>1 DEF FlowTyped
  <2>2. "loop" \notin Installing BY DEF Installing
  <2> QED BY <1>1, <1>2, <2>1, <2>2, HandlerScreened
<1>6. Gapless(Pending(c), shown[c], Passed)'
  <2>1. worker'[c] = "recv" BY <1>1 DEF FlowTyped
  <2>2. Pending(c)' = <<>> BY <1>1, <1>2, <2>1 DEF Pending
  <2>3. Gapless(<<>>, screen, screen) BY GaplessEmpty DEF FlowTyped
  <2>4. Gapless(<<>>, shown'[c], Passed') BY <1>1, <1>2, <1>3, <2>3
  <2> QED BY <2>2, <2>4 DEF Gapless, Outputs
<1>7. \A d \in Clients \ {c} : FlowStays(d)
  BY <1>1 DEF FlowStays, FlowTyped
<1>8. Flows' BY <1>6, <1>7, StaysGapless DEF Flows
<1> QED BY <1>4, <1>5, <1>8

\* Queues that get the same item keep their type; only open ones do.
LEMMA QueuesTyped ==
  ASSUME FlowTyped, NEW x \in Items, NEW to,
         queue' = [g \in Clients |-> IF g \in to THEN Append(queue[g], x) ELSE queue[g]]
  PROVE  queue' \in [Clients -> Seq(Items)]
<1>1. \A g \in Clients : Append(queue[g], x) \in Seq(Items) BY DEF FlowTyped
<1> QED BY <1>1 DEF FlowTyped

\* A resize goes into queues behind the output.
LEMMA ResizedFlows ==
  ASSUME AttachInv, Holders, FlowInv, NEW c \in Clients, Resized(c)
  PROVE  FlowInv'
<1> USE DEF FlowInv
<1> DEFINE x == [is |-> "resize", n |-> 0]
           kept == {g \in guests : Open(g) /\ ~Full(g)}
<1>0. /\ held \in [Locks -> Threads \cup {Nobody}]
      /\ Locks = {"mutation", "control", "terminal", "lifecycle", "controller", "wait"}
      /\ x \in Items /\ x.is # "output"
  BY DEF AttachInv, Locking, Locks, Items
<1>1. /\ UNCHANGED <<rd, screen, hand, shown, ops, worker>> /\ Passed' = Passed
      /\ queue' = [g \in Clients |-> IF g \in kept THEN Append(queue[g], x) ELSE queue[g]]
      /\ Goto(c, "loop") /\ ReleaseAll(Handler(c))
      /\ \A d \in Clients : Member(d)' => Member(d)
  BY DEF Resized, Offer, readerVars, process, bossVars, Member, Passed
<1>2. \A g \in kept : worker[g] # "off" BY DEF Open
<1> HIDE DEF x, kept
<1>3. FlowTyped'
  <2>1. queue' \in [Clients -> Seq(Items)] BY <1>0, <1>1, QueuesTyped
  <2> QED BY <1>1, <2>1 DEF FlowTyped
<1>4. Screened'
  <2>1. \A d \in Clients : worker[d] = "off" => worker'[d] = "off" /\ queue'[d] = queue[d]
    BY <1>1, <1>2
  <2>2. "loop" \notin Installing BY DEF Installing
  <2>3. held'["terminal"] = held["terminal"] \/ held["terminal"] \in {Nobody, Handler(c)}
    BY <1>0, <1>1 DEF ReleaseAll
  <2> QED BY <1>1, <2>1, <2>2, <2>3, HandlerScreened
<1>5. ASSUME NEW d \in Clients, Member(d)', worker'[d] \in {"recv", "write"}
      PROVE  Gapless(Pending(d), shown[d], Passed)'
  <2>1. CASE d \in kept
    <3>1. queue'[d] = Append(queue[d], x) /\ Member(d) /\ worker[d] \in {"recv", "write"}
      BY <1>1, <1>5, <2>1
    <3> QED BY <1>0, <1>1, <3>1, NoticeGapless
  <2>2. CASE d \notin kept
    <3>1. FlowStays(d) BY <1>1, <1>5, <2>2 DEF FlowStays
    <3> QED BY <1>5, <3>1, StaysGapless
  <2> QED BY <2>1, <2>2
<1>6. Flows' BY <1>5 DEF Flows
<1> QED BY <1>3, <1>4, <1>6

-----------------------------------------------------------------------------
\* The reader's steps other than its fan out.
LEMMA QuietReaderFlows ==
  ASSUME AttachInv, Holders, FlowInv,
         \/ ReaderLoop \/ TakeOutput \/ Process \/ Block \/ RecordExit \/ RecordDeferred
         \/ DetachAll
  PROVE  FlowInv'
<1> USE DEF FlowInv
<1>0. /\ held \in [Locks -> Threads \cup {Nobody}]
      /\ Locks = {"mutation", "control", "terminal", "lifecycle", "controller", "wait"}
      /\ None \notin Clients
      /\ \A d \in Clients : Handler(d) # Nobody
  BY Names, AttachmentAssumption DEF AttachInv, Locking, Locks
<1>1. /\ UNCHANGED <<pc, worker, hand, queue, shown, ops>>
      /\ \A d \in Clients : Member(d)' => Member(d)
  <2>1. UNCHANGED <<pc, worker, hand, queue, shown, ops>>
    BY DEF ReaderLoop, TakeOutput, Process, Block, RecordExit, RecordDeferred, DetachAll,
       clientVars, bossVars, readRest
  <2>2. UNCHANGED members \/ (controller' = None /\ guests' = {})
    BY DEF ReaderLoop, TakeOutput, Process, Block, RecordExit, RecordDeferred, DetachAll,
       members
  <2> QED BY <1>0, <2>1, <2>2 DEF members, Member
<1>2. CASE Process
  <2>1. /\ rd = "terminal" /\ rd' = "fan" /\ screen' = screen + 1
        /\ held["terminal"] = Nobody /\ held'["terminal"] = Reader
    BY <1>0, <1>2 DEF Process, Take, Free, GoRead
  <2>2. Passed' = Passed /\ screen' \in Nat BY <2>1 DEF Passed, FlowTyped
  <2>3. \A d \in Clients : pc[d] # "install" BY <1>0, <2>1 DEF Screened
  <2>4. Screened' BY <1>1, <2>1, <2>3 DEF Screened
  <2>5. FlowTyped' /\ Flows' BY <1>1, <2>2, SameFlows DEF FlowTyped
  <2> QED BY <2>4, <2>5
<1>3. CASE ~Process
  <2>1. /\ UNCHANGED screen /\ held'["terminal"] = held["terminal"]
        /\ \/ rd' = rd
           \/ rd = "fan" /\ rd' = "send"
           \/ rd \notin {"fan", "send"} /\ rd' \notin {"fan", "send"}
    <3>1. CASE ReaderLoop
      BY <3>1 DEF ReaderLoop, Loop, Clear, Receive, PausedWaits, NothingToRead, NoCommand,
         Awake, process
    <3>2. CASE TakeOutput
      BY <1>0, <3>2 DEF TakeOutput, Read, NoCommand, Take
    <3>3. CASE Block
      BY <1>0, <3>3 DEF Block, GoRead, Take
    <3>4. CASE RecordExit \/ RecordDeferred \/ DetachAll
      BY <3>4 DEF RecordExit, RecordDeferred, DetachAll, GoRead, readerVars, process
    <3> QED BY <1>3, <3>1, <3>2, <3>3, <3>4
  <2>2. Passed' = Passed BY <2>1 DEF Passed
  <2>3. Screened' BY <1>1, <2>1 DEF Screened
  <2>4. FlowTyped' /\ Flows' BY <1>1, <2>1, <2>2, SameFlows DEF FlowTyped
  <2> QED BY <2>3, <2>4
<1> QED BY <1>2, <1>3

\* fanout_output: whoever remains a participant gets the output.
LEMMA FanOutFlows ==
  ASSUME AttachInv, Holders, FlowInv, FanOut
  PROVE  FlowInv'
<1> USE DEF FlowInv
<1>0. /\ None \notin Clients /\ \A d \in Clients : Handler(d) # Reader
  BY Names, AttachmentAssumption
<1>1. PICK kept : /\ \A g \in kept : Open(g)
                  /\ queue' = [g \in Clients |->
                       IF g \in kept THEN Append(queue[g], OutputItem) ELSE queue[g]]
                  /\ \A d \in Clients : Member(d)' => Member(d) /\ d \in kept
  <2> DEFINE lost == controller # None /\ ~Open(controller)
             to == guests \cup (IF lost THEN {} ELSE {controller} \ {None})
             kept == {g \in to : Open(g) /\ ~Full(g)}
  <2>1. /\ ~Blocked /\ guests' = guests \cap kept
        /\ controller' = IF lost THEN None ELSE controller
        /\ queue' = [g \in Clients |-> IF g \in kept THEN Append(queue[g], OutputItem)
                                       ELSE queue[g]]
    BY DEF FanOut, Offer
  <2>2. ASSUME NEW d \in Clients, Member(d)' PROVE Member(d) /\ d \in kept
    <3>1. CASE d \in guests' BY <2>1, <3>1 DEF Member
    <3>2. CASE d = controller'
      <4>1. ~lost /\ d = controller /\ d # None BY <1>0, <2>1, <3>2
      <4> QED BY <2>1, <4>1 DEF Blocked, Member
    <3> QED BY <2>2, <3>1, <3>2 DEF Member
  <2>3. \A g \in kept : Open(g) OBVIOUS
  <2> HIDE DEF kept
  <2> QED BY <2>1, <2>2, <2>3
<1>2. /\ rd \in {"fan", "send"} /\ rd' = "clear"
      /\ UNCHANGED <<pc, worker, hand, shown, ops, screen>>
  BY DEF FanOut, GoRead, readRest, bossVars
<1>3. \A d \in Clients : pc[d] # "install" BY <1>0, <1>2 DEF Screened
<1>4. FlowTyped'
  <2>1. OutputItem \in Items BY DEF FlowTyped, OutputItem, Items
  <2>2. queue' \in [Clients -> Seq(Items)] BY <1>1, <2>1, QueuesTyped
  <2> QED BY <1>2, <2>2 DEF FlowTyped
<1>5. Screened' BY <1>1, <1>2, <1>3 DEF Screened, Open
<1>6. Passed = screen - 1 /\ Passed' = screen BY <1>2 DEF Passed
<1>7. Flows'
  <2> SUFFICES ASSUME NEW d \in Clients, Member(d)', worker'[d] \in {"recv", "write"}
               PROVE  Gapless(Pending(d), shown[d], Passed)'
    BY DEF Flows
  <2>1. /\ Member(d) /\ queue'[d] = Append(queue[d], OutputItem)
        /\ worker[d] \in {"recv", "write"}
    BY <1>1, <1>2
  <2> QED BY <1>2, <1>6, <2>1, OutputGapless
<1> QED BY <1>4, <1>5, <1>7

-----------------------------------------------------------------------------
\* A restart or close adds no participant and no output.
LEMMA BossFlows ==
  ASSUME AttachInv, Holders, FlowInv, BossNext
  PROVE  FlowInv'
<1> USE DEF FlowInv
<1>0. /\ held \in [Locks -> Threads \cup {Nobody}] /\ None \notin Clients
      /\ Locks = {"mutation", "control", "terminal", "lifecycle", "controller", "wait"}
      /\ held["terminal"] # Boss
  BY Names, AttachmentAssumption DEF AttachInv, Locking, Locks, Holders
<1>1. /\ UNCHANGED <<rd, screen, pc, worker, hand, shown>> /\ ops' \in Nat
      /\ Passed' = Passed
  <2>1. UNCHANGED <<rd, screen, pc, worker, hand, shown>>
    BY DEF BossNext, Restart, Notify, Quiesce, Agreed, Abort, Close, DropMembers, Pause,
       Paused, PauseFails, Rollback, Kill, Finalize, AskPause, AskResume, CancelPause,
       bossRest, pauseRest, clientVars, readerVars, process
  <2>2. ops' \in {ops, ops + 1}
    BY DEF BossNext, Restart, Notify, Quiesce, Agreed, Abort, Close, DropMembers, Pause,
       Paused, PauseFails, Rollback, Kill, Finalize, pauseRest
  <2> QED BY <2>1, <2>2 DEF FlowTyped, Passed
<1>2. held'["terminal"] = held["terminal"]
  <2>1. \/ UNCHANGED held \/ ReleaseAll(Boss) \/ Take("mutation", Boss)
        \/ Take("lifecycle", Boss) \/ Release("lifecycle")
    BY DEF BossNext, Restart, Notify, Quiesce, Agreed, Abort, Close, DropMembers, Pause,
       Paused, PauseFails, Rollback, Kill, Finalize, Over
  <2> QED BY <1>0, <2>1 DEF ReleaseAll, Take, Release
<1>3. \A d \in Clients : Member(d)' => Member(d)
  <2>1. controller' \in {controller, None} /\ guests' \subseteq guests
    BY DEF BossNext, Restart, Notify, Quiesce, Agreed, Abort, Close, DropMembers, Pause,
       Paused, PauseFails, Rollback, Kill, Finalize, pauseRest, members
  <2> QED BY <1>0, <2>1 DEF Member
<1>4. CASE Quiesce
  <2> DEFINE x == [is |-> "reconnect", n |-> ops]
  <2>1. PICK to : /\ \A g \in to : Open(g)
                  /\ queue' = [g \in Clients |-> IF g \in to THEN Append(queue[g], x)
                                                 ELSE queue[g]]
    BY <1>4 DEF Quiesce
  <2>2. x \in Items /\ x.is # "output" BY DEF Items, FlowTyped
  <2> HIDE DEF x
  <2>3. FlowTyped'
    <3>1. queue' \in [Clients -> Seq(Items)] BY <2>1, <2>2, QueuesTyped
    <3> QED BY <1>1, <3>1 DEF FlowTyped
  <2>4. Screened' BY <1>1, <1>2, <2>1 DEF Screened, Open
  <2>5. ASSUME NEW d \in Clients, Member(d)', worker'[d] \in {"recv", "write"}
        PROVE  Gapless(Pending(d), shown[d], Passed)'
    <3>1. CASE d \in to
      <4>1. queue'[d] = Append(queue[d], x) /\ Member(d) /\ worker[d] \in {"recv", "write"}
        BY <1>1, <1>3, <2>1, <2>5, <3>1
      <4> QED BY <1>1, <2>2, <4>1, NoticeGapless
    <3>2. CASE d \notin to
      <4>1. FlowStays(d) BY <1>1, <1>3, <2>1, <2>5, <3>2 DEF FlowStays
      <4> QED BY <2>5, <4>1, StaysGapless
    <3> QED BY <3>1, <3>2
  <2>6. Flows' BY <2>5 DEF Flows
  <2> QED BY <2>3, <2>4, <2>6
<1>5. CASE ~Quiesce
  <2>1. UNCHANGED queue
    BY <1>5 DEF BossNext, Restart, Notify, Agreed, Abort, Close, DropMembers, Pause,
       Paused, PauseFails, Rollback, Kill, Finalize, pauseRest, clientVars
  <2>2. Screened' BY <1>1, <1>2, <2>1 DEF Screened
  <2>3. FlowTyped' /\ Flows' BY <1>1, <1>3, <2>1, SameFlows DEF FlowTyped
  <2> QED BY <2>2, <2>3
<1> QED BY <1>4, <1>5

\* Nobody is attached at first.
LEMMA FlowInitial == Init => FlowInv
<1> SUFFICES ASSUME Init PROVE FlowInv
  OBVIOUS
<1>1. \A c \in Clients : ~Member(c)
  BY AttachmentAssumption DEF Init, Member
<1>2. FlowTyped BY DEF Init, FlowTyped
<1>3. Screened BY DEF Init, Screened
<1> QED BY <1>1, <1>2, <1>3 DEF FlowInv, Flows

\* What a participant has and gets of the output is inductive.
LEMMA FlowNext == AttachInv /\ Holders /\ FlowInv /\ [Next]_vars => FlowInv'
<1> SUFFICES ASSUME AttachInv, Holders, FlowInv, [Next]_vars PROVE FlowInv'
  OBVIOUS
<1>1. ASSUME NEW c \in Clients, HandlerNext(c) PROVE FlowInv'
  BY <1>1, QuietHandlerFlows, InstallFlows, ResizedFlows DEF HandlerNext
<1>2. ASSUME NEW c \in Clients, WorkerNext(c) PROVE FlowInv'
  BY <1>2, WorkerFlows
<1>3. CASE ((Output \/ Exit) /\ UNCHANGED attachVars) \/ UNCHANGED vars
  <2>1. UNCHANGED attachVars /\ UNCHANGED <<rd, screen>>
    BY <1>3 DEF vars, readerVars, process, Output, Exit
  <2>2. UNCHANGED <<held, pc, worker, hand, queue, shown, ops, controller, guests>>
    BY <2>1 DEF attachVars, clientVars, members, bossVars
  <2>3. /\ \A c \in Clients : Member(c)' => Member(c)
        /\ Passed' = Passed
    BY <2>1, <2>2 DEF Member, Passed
  <2>4. FlowTyped' /\ Flows' BY <2>1, <2>2, <2>3, SameFlows DEF FlowInv, FlowTyped
  <2>5. Screened' BY <2>1, <2>2 DEF FlowInv, Screened
  <2> QED BY <2>4, <2>5 DEF FlowInv
<1>4. CASE ReaderNext
  BY <1>4, QuietReaderFlows, FanOutFlows DEF ReaderNext
<1> QED
  BY <1>1, <1>2, <1>3, <1>4, BossFlows DEF Next

\* A participant has, is written or has queued all the output since its
\* reconstruction, in order: nothing falls between the response of handle_attach
\* and the installation, nor between two fan outs.
THEOREM NothingFallsBetween == Spec => []Contiguous
<1>1. FlowInv => Contiguous BY DEF FlowInv, Flows, Contiguous, Members
<1> QED
  BY <1>1, AttachInitial, AttachNext, HoldersInitial, HoldersNext, FlowInitial, FlowNext,
     PTL DEF Spec
=============================================================================
