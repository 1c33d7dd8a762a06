----------------------------- MODULE Attachment -----------------------------
(***************************************************************************)
(* Attachments of one running Shell (handle_attach and the participant      *)
(* helpers of ShellRuntimeManager in src/daemon.rs), with its PTY reader,   *)
(* and the two operations that take them apart: prepare_handoff of a        *)
(* restart and stop_runtime of a close.  Every attachment has a handler     *)
(* thread, which reads the client's frames, and an output worker, which     *)
(* writes what the reader puts into a bounded queue.  A lock that is taken  *)
(* and released without waiting for anything else is a guard (Free); one    *)
(* that is held while its holder waits is in held.                          *)
(* Terminal dimensions are left out: a resize is the locks it takes and the *)
(* frames it sends.  Timeouts may expire at any time.                       *)
(***************************************************************************)
EXTENDS PtyReader, FiniteSets

CONSTANTS
  Clients,     \* clients; each attaches once
  Queue,       \* CONTROLLER_QUEUE
  MaxGuests,   \* MAX_COLLABORATORS_PER_SHELL
  MaxRequests, \* bound on attachments, restarts and closes together
  None

ASSUME AttachmentAssumption ==
  /\ Queue \in Nat \ {0} /\ MaxGuests \in Nat /\ MaxRequests \in Nat
  /\ None \notin Clients

VARIABLES
  held,        \* the holder of each lock
  pc,          \* what each handler does next
  kind,        \* what a client that is attaching asks for
  worker,      \* what each output worker does next
  queue,       \* its queue
  hand,        \* what it is writing
  shown,       \* output its client has, in its reconstruction or after it
  controller,  \* the primary participant
  guests,      \* collaborators
  life,        \* ShellLifecycle
  deferred,    \* a thread waits to record the exit
  boss,        \* what the restart or close does next
  ops,         \* restarts and closes so far
  told,        \* participants whose acknowledgement the restart awaits
  wrote,       \* those whose worker has written its Reconnect
  agreed,      \* those whose client has acknowledged it
  displaced,   \* clients that a takeover has displaced
  stale        \* a pause was acknowledged under an older, cancelled one

clientVars == <<pc, kind, worker, queue, hand, shown>>
members == <<controller, guests>>
bossVars == <<boss, ops, told, wrote, agreed>>
history == <<displaced, stale>>
lives == <<life, deferred>>
attachVars == <<held, clientVars, members, lives, bossVars, history>>
vars == <<readerVars, attachVars>>

Locks == {"mutation", "control", "terminal", "lifecycle", "controller", "wait"}
Kinds == {"plain", "takeover", "collaborative"}
Handler(c) == <<"handler", c>>
Worker(c) == <<"worker", c>>
Reader == <<"reader", None>>
Boss == <<"boss", None>>
Nobody == <<"nobody", None>>
Threads == {Handler(c) : c \in Clients} \cup {Worker(c) : c \in Clients}
             \cup {Reader, Boss}

Free(l) == held[l] = Nobody
Take(l, t) == Free(l) /\ held' = [held EXCEPT ![l] = t]
Release(l) == held' = [held EXCEPT ![l] = Nobody]
ReleaseAll(t) ==
  held' = [l \in Locks |-> IF held[l] = t THEN Nobody ELSE held[l]]

Goto(c, step) == pc' = [pc EXCEPT ![c] = step]
Member(c) == c = controller \/ c \in guests
Members == {c \in Clients : Member(c)}

\* Variant: a worker keeps its receiver until it has released its participant.
OpenTillDone(c) == worker[c] \notin {"off", "done"}
\* The receiver of a queue exists: it is dropped first when a worker ends.
Open(c) == worker[c] \in {"recv", "write", "drain"}
Full(c) == Len(queue[c]) >= Queue

More == Cardinality({c \in Clients : pc[c] # "idle"}) + ops < MaxRequests

-----------------------------------------------------------------------------
(* handle_attach up to the installation of the participant.                *)

Attach(c, k) ==
  /\ pc[c] = "idle" /\ life = "running" /\ More
  /\ Take("mutation", Handler(c))
  /\ kind' = [kind EXCEPT ![c] = k]
  /\ Goto(c, "control")
  /\ UNCHANGED <<readerVars, worker, queue, hand, shown, members, lives,
                 bossVars, history>>

Answered(c) == kind' = [kind EXCEPT ![c] = None]

\* Busy, or on to the resize and the response.
Admissible(c) ==
  IF kind[c] = "collaborative" THEN Cardinality(guests) < MaxGuests
  ELSE controller = None \/ kind[c] = "takeover"
TakeControl(c) ==
  /\ pc[c] = "control" /\ Free("control")
  /\ kind[c] = "collaborative" \/ Free("controller")
  /\ IF Admissible(c)
     THEN Goto(c, "terminal") /\ Take("control", Handler(c)) /\ UNCHANGED kind
     ELSE Goto(c, "done") /\ ReleaseAll(Handler(c)) /\ Answered(c)
  /\ UNCHANGED <<readerVars, worker, queue, hand, shown, members, lives,
                 bossVars, history>>

\* Variant: the terminal state is locked for the reconstruction only.
RespondUnlocked(c) ==
  /\ pc[c] = "terminal" /\ Free("terminal")
  /\ \/ /\ Goto(c, "install") /\ shown' = [shown EXCEPT ![c] = screen]
        /\ UNCHANGED <<kind, held>>
     \/ /\ Goto(c, "done") /\ ReleaseAll(Handler(c)) /\ Answered(c)
        /\ UNCHANGED shown
  /\ UNCHANGED <<readerVars, worker, queue, hand, members, lives,
                 bossVars, history>>

\* The response with the reconstruction, which the client may not take.  The
\* terminal state stays locked until the participant is installed.
Respond(c) ==
  /\ pc[c] = "terminal" /\ Free("terminal")
  /\ \/ /\ Goto(c, "install") /\ shown' = [shown EXCEPT ![c] = screen]
        /\ Take("terminal", Handler(c)) /\ UNCHANGED kind
     \/ /\ Goto(c, "done") /\ ReleaseAll(Handler(c)) /\ Answered(c)
        /\ UNCHANGED shown
  /\ UNCHANGED <<readerVars, worker, queue, hand, members, lives,
                 bossVars, history>>

\* Takeover displaces the primary and every collaborator.
Install(c) ==
  /\ pc[c] = "install" /\ Free("lifecycle") /\ Free("controller")
  /\ IF kind[c] = "collaborative"
     THEN guests' = guests \cup {c} /\ UNCHANGED <<controller, displaced>>
     ELSE /\ controller' = c
          /\ guests' = IF kind[c] = "takeover" THEN {} ELSE guests
          /\ displaced' = IF kind[c] = "takeover" THEN displaced \cup Members
                          ELSE displaced
  /\ worker' = [worker EXCEPT ![c] = "recv"]
  /\ Goto(c, "loop") /\ ReleaseAll(Handler(c)) /\ Answered(c)
  /\ UNCHANGED <<readerVars, queue, hand, shown, lives, bossVars, stale>>

-----------------------------------------------------------------------------
(* The handler's input loop.  A frame that is read waits for its lock with  *)
(* no other lock held, so reading it and taking the lock are one step.      *)

inputRest == <<readerVars, kind, worker, queue, hand, shown, lives, ops, told,
               wrote, boss, history>>
Begin(c, step) == /\ pc[c] = "loop" /\ Free("control") /\ Free("controller")
                  /\ Goto(c, step)

\* Variant: the participant is authorised without the control lock.
InputUnserialised(c) ==
  /\ Begin(c, "write") /\ Member(c)
  /\ UNCHANGED <<inputRest, members, agreed, held>>

\* write_controller_input: the process may take its time to read.
Input(c) ==
  /\ Begin(c, "write") /\ Member(c) /\ Take("control", Handler(c))
  /\ UNCHANGED <<inputRest, members, agreed>>
Written(c) ==
  /\ pc[c] = "write" /\ ReleaseAll(Handler(c)) /\ Goto(c, "loop")
  /\ UNCHANGED <<inputRest, members, agreed>>

\* Only the primary resizes.
Resize(c) ==
  /\ Begin(c, "resize") /\ c = controller /\ Take("control", Handler(c))
  /\ UNCHANGED <<inputRest, members, agreed>>

\* Into the queues; a collaborator that is slow or gone is dropped.
Offer(item, to) ==
  LET kept == {g \in to : Open(g) /\ ~Full(g)} IN
  /\ queue' = [g \in Clients |-> IF g \in kept THEN Append(queue[g], item)
                                 ELSE queue[g]]
  /\ guests' = guests \cap kept

\* Terminal, PTY and lifecycle, one after the other, then the collaborators.
Resized(c) ==
  /\ pc[c] = "resize" /\ Free("terminal") /\ Free("lifecycle")
  /\ Offer([is |-> "resize", n |-> 0], guests)
  /\ Goto(c, "loop") /\ ReleaseAll(Handler(c))
  /\ UNCHANGED <<readerVars, kind, worker, hand, shown, controller, lives,
                 bossVars, history>>

\* release_controller.
Remove(c) == /\ controller' = IF controller = c THEN None ELSE controller
             /\ guests' = guests \ {c}

\* The client acknowledges the Reconnect of a restart; its participant is
\* released in a later step.
Acknowledge(c) ==
  /\ pc[c] = "loop" /\ Free("controller") /\ c \in told \cap Members
  /\ agreed' = agreed \cup {c} /\ Goto(c, "leave")
  /\ UNCHANGED <<inputRest, held, members>>

\* The loop ends: the client has acknowledged, detaches or is gone, or a frame
\* fails or is refused because the participant or the run is gone.
Leave(c) ==
  /\ pc[c] \in {"loop", "leave"} /\ Free("controller")
  /\ Remove(c) /\ Goto(c, "join")
  /\ UNCHANGED <<inputRest, held, agreed>>
Join(c) ==
  /\ pc[c] = "join" /\ worker[c] = "done" /\ Goto(c, "done")
  /\ shown' = [shown EXCEPT ![c] = 0] /\ displaced' = displaced \ {c}
  /\ UNCHANGED <<readerVars, kind, worker, queue, hand, lives, bossVars, stale,
                 members, held>>

-----------------------------------------------------------------------------
(* The output worker.  The sender of its queue goes with its participant.  *)

SetWorker(c, step) == worker' = [worker EXCEPT ![c] = step]
workRest == <<readerVars, held, pc, kind, members, lives, boss, ops, told,
              agreed, history>>

Recv(c) ==
  /\ worker[c] = "recv" /\ queue[c] # <<>>
  /\ hand' = [hand EXCEPT ![c] = Head(queue[c])]
  /\ queue' = [queue EXCEPT ![c] = Tail(@)]
  /\ SetWorker(c, "write")
  /\ UNCHANGED <<workRest, shown, wrote>>

\* The frame is written; after Reconnect nothing more is.
Wrote(c) ==
  /\ worker[c] = "write"
  /\ hand' = [hand EXCEPT ![c] = None]
  /\ shown' = IF hand[c].is = "output" THEN [shown EXCEPT ![c] = hand[c].n]
              ELSE shown
  /\ wrote' = IF hand[c].is = "reconnect" /\ hand[c].n = ops THEN wrote \cup {c}
              ELSE wrote
  /\ SetWorker(c, IF hand[c].is = "reconnect" THEN "drain" ELSE "recv")
  /\ UNCHANGED <<workRest, queue>>

Drain(c) ==
  /\ worker[c] = "drain" /\ queue[c] # <<>>
  /\ queue' = [queue EXCEPT ![c] = <<>>]
  /\ UNCHANGED <<workRest, worker, hand, shown, wrote>>

\* A write fails or times out, or the sender is gone and the queue empty: the
\* receiver is dropped, then the socket is shut.
Ends(c) ==
  /\ \/ worker[c] = "write"
     \/ worker[c] \in {"recv", "drain"} /\ queue[c] = <<>> /\ ~Member(c)
  /\ hand' = [hand EXCEPT ![c] = None]
  /\ queue' = [queue EXCEPT ![c] = <<>>]
  /\ SetWorker(c, "bye")
  /\ UNCHANGED <<workRest, shown, wrote>>

Bye(c) ==
  /\ worker[c] = "bye" /\ Free("controller")
  /\ Remove(c) /\ SetWorker(c, "done")
  /\ UNCHANGED <<readerVars, held, pc, kind, queue, hand, shown, lives,
                 bossVars, history>>

-----------------------------------------------------------------------------
(* The reader's part: output_wait, then the terminal, then the primary,     *)
(* which holds it up, then the collaborators, which do not.                 *)

OutputItem == [is |-> "output", n |-> screen]
GoRead(step) == rd' = step
readRest == <<channel, alive, unread, pc, kind, worker, hand, shown, lives,
              bossVars, history>>

TakeOutput ==
  /\ Read /\ Take("wait", Reader)
  /\ UNCHANGED <<clientVars, members, lives, bossVars, history>>

Process ==
  /\ rd = "terminal" /\ Take("terminal", Reader)
  /\ screen' = screen + 1 /\ GoRead("fan")
  /\ UNCHANGED <<readRest, queue, members>>

\* fanout_output: a queue that is full blocks the thread, with the controller
\* locked; a worker that has ended ends the attachment.
Blocked == controller # None /\ Open(controller) /\ Full(controller)
FanOut ==
  LET lost == controller # None /\ ~Open(controller)
      to == guests \cup (IF lost THEN {} ELSE {controller} \ {None}) IN
  /\ (rd = "fan" /\ Free("controller")) \/ rd = "send"
  /\ ~Blocked
  /\ Offer(OutputItem, to)
  /\ controller' = IF lost THEN None ELSE controller
  /\ GoRead("clear") /\ ReleaseAll(Reader)
  /\ UNCHANGED <<readRest, screen>>
Block ==
  /\ rd = "fan" /\ Blocked
  /\ GoRead("send") /\ Take("controller", Reader)
  /\ UNCHANGED <<readRest, screen, queue, members>>

\* try_record_run_exit, or a thread that retries it.
RecordExit ==
  /\ rd = "end" /\ GoRead("detach")
  /\ IF Free("mutation")
     THEN /\ life' = IF life = "running" THEN "exited" ELSE life
          /\ UNCHANGED deferred
     ELSE deferred' = TRUE /\ UNCHANGED life
  /\ UNCHANGED <<channel, process, held, clientVars, members, bossVars,
                 history>>
RecordDeferred ==
  /\ deferred /\ Free("mutation") /\ deferred' = FALSE
  /\ life' = IF life = "running" THEN "exited" ELSE life
  /\ UNCHANGED <<readerVars, held, clientVars, members, bossVars, history>>

DetachAll ==
  /\ rd = "detach" /\ Free("controller") /\ GoRead("off")
  /\ controller' = None /\ guests' = {}
  /\ UNCHANGED <<channel, process, held, clientVars, lives, bossVars, history>>

\* An acknowledgement under an older pause that has been cancelled.
ReaderLoop ==
  /\ Loop
  /\ stale' = (stale \/ (Obsolete /\ acked' /\ ~acked))
  /\ UNCHANGED <<held, clientVars, members, lives, bossVars, displaced>>

-----------------------------------------------------------------------------
(* launch_replacement up to the transfer of the PTYs, and its rollback.     *)

Step(step) == boss' = step
bossRest == <<kind, pc, worker, hand, shown, displaced, stale>>
Over == /\ boss' = "idle" /\ ReleaseAll(Boss)
        /\ told' = {} /\ wrote' = {} /\ agreed' = {}

\* Of a Shell that runs; nothing is paused of one that has exited.
Restart ==
  /\ boss = "idle" /\ More /\ life = "running"
  /\ Take("mutation", Boss) /\ ops' = ops + 1 /\ Step("notify")
  /\ UNCHANGED <<readerVars, bossRest, queue, members, lives, told, wrote,
                 agreed>>

\* notify_output_waiters.
Notify ==
  /\ boss = "notify" /\ Free("wait") /\ Step("quiesce")
  /\ UNCHANGED <<readerVars, bossRest, held, queue, members, lives, ops,
                 told, wrote, agreed>>

\* quiesce_controllers: the primary, then the collaborators in any order, until
\* a queue is full; those whose worker has ended are removed.
Quiesce ==
  LET gone == {c \in Members : ~Open(c)}
      full == {c \in Members \ gone : Full(c)}
      removed == IF full = {} THEN gone ELSE gone \cap {controller} IN
  /\ boss = "quiesce" /\ Free("controller")
  /\ \E to \in SUBSET (Members \ (gone \cup full)) :
       /\ full = {} => to = Members \ gone
       /\ controller \in full => to = {}
       /\ controller \in Members \ (gone \cup full) => controller \in to
       /\ queue' = [c \in Clients |->
            IF c \in to THEN Append(queue[c], [is |-> "reconnect", n |-> ops])
                        ELSE queue[c]]
       /\ told' = to
  /\ controller' = IF controller \in removed THEN None ELSE controller
  /\ guests' = guests \ removed
  /\ Step(IF full = {} THEN "acks" ELSE "abort")
  /\ UNCHANGED <<readerVars, bossRest, held, lives, ops, wrote, agreed>>

\* Variant: the restart does not wait for participants to leave.
AgreedOnly ==
  /\ boss = "acks" /\ told \subseteq wrote \cap agreed
  /\ Step("pause")
  /\ UNCHANGED <<readerVars, bossRest, held, queue, members, lives, ops,
                 told, wrote, agreed>>

\* Every participant has been told, has agreed and is gone, or a wait fails.
Agreed ==
  /\ boss = "acks" /\ told \subseteq wrote \cap agreed /\ Members = {}
  /\ Step("pause")
  /\ UNCHANGED <<readerVars, bossRest, held, queue, members, lives, ops,
                 told, wrote, agreed>>
Abort ==
  /\ boss \in {"abort", "acks"} /\ Over
  /\ UNCHANGED <<readerVars, bossRest, queue, members, lives, ops>>

-----------------------------------------------------------------------------
(* stop_runtime.  Both operations pause the reader: a restart with the      *)
(* lifecycle locked, a close ("quiet") after the participants are dropped.  *)

Close ==
  /\ boss = "idle" /\ More /\ life # "closed"
  /\ Take("mutation", Boss) /\ ops' = ops + 1 /\ Step("drop")
  /\ UNCHANGED <<readerVars, bossRest, queue, members, lives, told,
                 wrote, agreed>>

DropMembers ==
  /\ boss = "drop" /\ Free("controller") /\ Step("quiet")
  /\ controller' = None /\ guests' = {}
  /\ UNCHANGED <<readerVars, bossRest, held, queue, lives, ops, told, wrote,
                 agreed>>

pauseRest == <<clientVars, members, deferred, ops, history>>
answers == <<told, wrote, agreed>>

\* A reader that has ended is as good as paused.
Pause ==
  /\ \/ boss = "pause" /\ Take("lifecycle", Boss) /\ Step("pausing")
     \/ boss = "quiet" /\ Step("quieting") /\ UNCHANGED held
  /\ IF rd = "off" THEN UNCHANGED readerVars ELSE AskPause
  /\ UNCHANGED <<pauseRest, answers, life>>

\* A process that has exited is not transferred.
Paused ==
  /\ boss \in {"pausing", "quieting"} /\ (rd = "off" \/ acked)
  /\ Step(IF boss = "quieting" THEN "kill"
          ELSE IF alive THEN "prepared" ELSE "rollback")
  /\ IF boss = "pausing" THEN Release("lifecycle") ELSE UNCHANGED held
  /\ UNCHANGED <<readerVars, pauseRest, answers, life>>

PauseFails ==
  /\ boss \in {"pausing", "quieting"} /\ rd # "off" /\ CancelPause /\ Over
  /\ UNCHANGED <<pauseRest, life>>

\* The handoff fails, or the process cannot be killed.
Rollback ==
  /\ boss \in {"prepared", "rollback", "kill"} /\ Over
  /\ IF rd = "off" THEN UNCHANGED readerVars ELSE AskResume
  /\ UNCHANGED <<pauseRest, life>>

\* The process is killed while its reader is paused; then the reader is told to
\* stop and joined.
Kill ==
  /\ boss = "kill" /\ Step("join") /\ alive' = FALSE
  /\ IF rd = "off" THEN UNCHANGED <<commands, wake>>
                   ELSE Command([do |-> "stop", id |-> 0])
  /\ UNCHANGED <<rd, paused, by, asked, acked, cancelled, unread, screen, held,
                 pauseRest, answers, life>>

Finalize ==
  /\ boss = "join" /\ rd = "off" /\ Free("wait") /\ Free("lifecycle")
  /\ life' = "closed" /\ Over
  /\ UNCHANGED <<readerVars, pauseRest>>

-----------------------------------------------------------------------------
Init ==
  /\ rd = "clear" /\ paused = FALSE /\ by = 0 /\ commands = <<>> /\ wake = FALSE
  /\ asked = 0 /\ acked = FALSE /\ cancelled = {}
  /\ alive = TRUE /\ unread = 0 /\ screen = 0
  /\ held = [l \in Locks |-> Nobody]
  /\ pc = [c \in Clients |-> "idle"]
  /\ kind = [c \in Clients |-> None]
  /\ worker = [c \in Clients |-> "off"]
  /\ queue = [c \in Clients |-> <<>>]
  /\ hand = [c \in Clients |-> None]
  /\ shown = [c \in Clients |-> 0]
  /\ controller = None /\ guests = {}
  /\ life = "running" /\ deferred = FALSE
  /\ boss = "idle" /\ ops = 0 /\ told = {} /\ wrote = {} /\ agreed = {}
  /\ displaced = {} /\ stale = FALSE

HandlerNext(c) ==
  \/ \E k \in Kinds : Attach(c, k)
  \/ TakeControl(c) \/ Respond(c) \/ Install(c)
  \/ Input(c) \/ Written(c) \/ Resize(c) \/ Resized(c)
  \/ Acknowledge(c) \/ Leave(c) \/ Join(c)
WorkerNext(c) == Recv(c) \/ Wrote(c) \/ Drain(c) \/ Ends(c) \/ Bye(c)
ReaderNext == \/ ReaderLoop \/ TakeOutput \/ Process \/ FanOut
              \/ Block \/ RecordExit \/ RecordDeferred \/ DetachAll
BossNext == \/ Restart \/ Notify \/ Quiesce \/ Agreed \/ Abort \/ Close
            \/ DropMembers \/ Pause \/ Paused \/ PauseFails \/ Rollback \/ Kill
            \/ Finalize

Next ==
  \/ \E c \in Clients : HandlerNext(c) \/ WorkerNext(c)
  \/ ReaderNext \/ BossNext
  \/ (Output \/ Exit) /\ UNCHANGED attachVars

Spec == Init /\ [][Next]_vars

-----------------------------------------------------------------------------
(* Properties.                                                             *)

\* Locks a thread needs for its next step; a handler's loop and a boss that is
\* idle hold nothing.
ReaderNeeds == CASE rd = "terminal" -> {"terminal"}
                 [] rd \in {"fan", "detach"} -> {"controller"}
                 [] OTHER -> {}
BossNeeds == CASE boss = "notify" -> {"wait"}
               [] boss = "pause" -> {"lifecycle"}
               [] boss \in {"quiesce", "drop"} -> {"controller"}
               [] boss = "join" /\ rd = "off" -> {"wait", "lifecycle"}
               [] OTHER -> {}
HandlerNeeds(c) == CASE pc[c] = "control" -> {"control", "controller"}
                     [] pc[c] = "terminal" -> {"terminal"}
                     [] pc[c] = "resize" -> {"terminal", "lifecycle"}
                     [] pc[c] = "install" -> {"controller", "lifecycle"}
                     [] OTHER -> {}
Needs(t) ==
  CASE t = Reader -> ReaderNeeds
    [] t = Boss -> BossNeeds
    [] t[1] = "worker" -> IF worker[t[2]] = "bye" THEN {"controller"} ELSE {}
    [] OTHER -> HandlerNeeds(t[2])

\* Whom a thread waits for without a deadline of its own, or with one (Pause)
\* that would always pass: the holder of a lock, the worker whose queue is
\* full, the reader to be paused or joined, the worker to be joined.
WaitsFor(t) ==
  ({held[l] : l \in Needs(t)} \ {Nobody})
    \cup (IF t = Reader /\ rd = "send" /\ Blocked
          THEN {Worker(controller)} ELSE {})
    \cup (IF t = Boss /\ rd # "off" /\ boss \in {"pausing", "quieting", "join"}
          THEN {Reader} ELSE {})
    \cup {Worker(c) : c \in {d \in Clients : t = Handler(d) /\ pc[d] = "join"
                                             /\ worker[d] # "done"}}

\* No threads wait for one another in a circle: the locks of handle_attach,
\* the reader, the workers, a restart and a close are taken in one order, and a
\* worker drops its receiver before it waits for the controller lock.  A circle
\* has a holder of a lock in it: a worker, whom the others wait for otherwise,
\* waits for locks only.
NoCircularWait ==
  LET for == [t \in Threads |-> WaitsFor(t)]
      holders == {held[l] : l \in Locks} \ {Nobody}
      waiting == {t \in Threads : for[t] # {}} IN
  (\E t \in holders : for[t] # {}) =>
    \A circle \in (SUBSET waiting) \ {{}} :
      \E t \in circle : for[t] \cap circle = {}

\* What a participant has been shown, what its worker is writing and what is
\* queued for it are, in this order and without a gap, all the output since its
\* reconstruction that fanout_output has passed it by.
Pending(c) == IF worker[c] = "write" THEN <<hand[c]>> \o queue[c] ELSE queue[c]
Outputs(q) == {i \in DOMAIN q : q[i].is = "output"}
Passed == IF rd \in {"fan", "send"} THEN screen - 1 ELSE screen
Gapless(q, first, last) ==
  /\ first <= last /\ {q[i].n : i \in Outputs(q)} = (first + 1)..last
  /\ \A i, j \in Outputs(q) : i < j => q[i].n < q[j].n
Contiguous ==
  \A c \in Members : worker[c] \in {"recv", "write"} =>
    Gapless(Pending(c), shown[c], Passed)

\* From the answer to a takeover on, no input of a participant it displaced
\* reaches the process.
DisplacedIsSilent == \A c \in displaced : pc[c] # "write"

\* When the PTYs are transferred, every participant has left.
QuietAtHandoff == boss = "prepared" => Members = {}

\* While a restart or a close counts on its pause, the reader takes no output,
\* unless it acknowledged the pause under an older one that has been cancelled.
PauseHolds ==
  boss \in {"prepared", "kill"} /\ ~stale =>
    rd = "off" \/ (paused /\ ~Obsolete)

\* A reader is never left paused by an operation that is over: its pause is
\* cancelled or a resume is queued, and it does not sleep over either.
PauseEnds ==
  /\ boss = "idle" /\ paused /\ rd # "off" =>
       Obsolete \/ \E i \in 1..Len(commands) : commands[i].do = "resume"
  /\ ~MissedWakeup
=============================================================================
