----------------------------- MODULE PtyReader -----------------------------
(***************************************************************************)
(* The reader thread of one PTY and the channel that commands it           *)
(* (start_pty_reader, ReaderTask and ReaderCommands in src/daemon.rs).      *)
(* A command is queued and then an eventfd wakes the thread, which clears   *)
(* the eventfd before it looks for commands.  A pause that times out is     *)
(* cancelled: the thread undoes it whenever it finds out.                   *)
(***************************************************************************)
EXTENDS Naturals, Sequences

CONSTANT MaxOutput   \* bound on the output of the process

ASSUME OutputAssumption == MaxOutput \in Nat

VARIABLES
  rd,         \* what the thread does next
  paused,
  by,         \* the pause it obeys (pause_cancellation), 0 at first
  commands,
  wake,       \* the eventfd is readable
  asked,      \* pauses asked for so far
  acked,      \* the latest pause has been acknowledged
  cancelled,  \* pauses that timed out
  alive,      \* the process runs
  unread,     \* output in the PTY
  screen      \* output in the terminal state

channel == <<paused, by, commands, wake, asked, acked, cancelled>>
process == <<alive, unread, screen>>
readerVars == <<rd, channel, process>>

\* "clear" to "sleep" are the loop, "terminal" to "send" the handling of one
\* read, "end" and "detach" what follows the loop.
ReaderSteps == {"clear", "recv", "sleep", "terminal", "fan", "send",
                "end", "detach", "off"}

\* A wait for a pause that no one has cancelled yet is over at the next check.
Obsolete == paused /\ by \in cancelled

-----------------------------------------------------------------------------
(* The other side.  A queued command and its wake-up are one step: a wake-up *)
(* that comes after the command was taken only makes the thread look again.  *)

Command(c) == commands' = Append(commands, c) /\ wake' = TRUE

\* Variant: a pause overtakes the commands before it.
AskPauseFirst ==
  /\ asked' = asked + 1 /\ wake' = TRUE
  /\ commands' = <<[do |-> "pause", id |-> asked + 1]>> \o commands
  /\ acked' = FALSE
  /\ UNCHANGED <<rd, paused, by, cancelled, process>>

AskPause ==
  /\ asked' = asked + 1 /\ Command([do |-> "pause", id |-> asked + 1])
  /\ acked' = FALSE
  /\ UNCHANGED <<rd, paused, by, cancelled, process>>
AskResume ==
  /\ Command([do |-> "resume", id |-> 0])
  /\ UNCHANGED <<rd, paused, by, asked, acked, cancelled, process>>

\* Variant: the thread is not woken.
CancelSilently ==
  /\ cancelled' = cancelled \cup {asked}
  /\ UNCHANGED <<rd, paused, by, commands, wake, asked, acked, process>>

\* pause_with_timeout, also when the acknowledgement comes with the deadline.
CancelPause ==
  /\ cancelled' = cancelled \cup {asked} /\ wake' = TRUE
  /\ UNCHANGED <<rd, paused, by, commands, asked, acked, process>>

-----------------------------------------------------------------------------
(* The process.                                                            *)

InHand == IF rd = "terminal" THEN 1 ELSE 0

Output ==
  /\ alive /\ screen + InHand + unread < MaxOutput
  /\ unread' = unread + 1
  /\ UNCHANGED <<rd, channel, alive, screen>>

Exit == alive /\ alive' = FALSE /\ UNCHANGED <<rd, channel, unread, screen>>

-----------------------------------------------------------------------------
(* The thread.                                                             *)

\* The top of the loop: a cancelled pause is over.
Clear ==
  /\ rd = "clear" /\ wake' = FALSE
  /\ IF Obsolete THEN paused' = FALSE /\ by' = 0 /\ rd' = "clear"
                 ELSE rd' = "recv" /\ UNCHANGED <<paused, by>>
  /\ UNCHANGED <<commands, asked, acked, cancelled, process>>

\* A pause is acknowledged unless it has been cancelled; one that comes while
\* the thread is paused leaves the older one in force.
ObeyPause(k) ==
  IF k \in cancelled THEN UNCHANGED <<paused, by, acked>>
  ELSE /\ acked' = TRUE
       /\ paused' = TRUE
       /\ by' = IF paused THEN by ELSE k

Receive ==
  /\ rd = "recv" /\ commands # <<>>
  /\ commands' = Tail(commands)
  /\ LET c == Head(commands) IN
     \/ c.do = "pause" /\ ObeyPause(c.id) /\ rd' = "clear"
     \/ /\ c.do = "resume" /\ paused' = FALSE /\ by' = 0 /\ rd' = "clear"
        /\ UNCHANGED acked
     \/ c.do = "stop" /\ rd' = "off" /\ UNCHANGED <<paused, by, acked>>
  /\ UNCHANGED <<wake, asked, cancelled, process>>

NoCommand == rd = "recv" /\ commands = <<>>

PausedWaits ==
  /\ NoCommand /\ paused /\ rd' = "sleep"
  /\ UNCHANGED <<channel, process>>

\* Read output, else end the loop if the process has exited.
Read ==
  /\ NoCommand /\ ~paused
  /\ unread > 0 /\ unread' = unread - 1 /\ rd' = "terminal"
  /\ UNCHANGED <<channel, alive, screen>>
NothingToRead ==
  /\ NoCommand /\ ~paused /\ unread = 0
  /\ rd' = IF alive THEN "sleep" ELSE "end"
  /\ UNCHANGED <<channel, process>>

\* ReaderWake::wait polls the eventfd and, unless paused, PTY and process.
Awake ==
  /\ rd = "sleep" /\ (wake \/ (~paused /\ (unread > 0 \/ ~alive)))
  /\ rd' = "clear"
  /\ UNCHANGED <<channel, process>>

Loop == Clear \/ Receive \/ PausedWaits \/ NothingToRead \/ Awake

\* A command, an obsolete pause or output that nothing wakes the thread for.
MissedWakeup ==
  /\ rd = "sleep" /\ ~wake
  /\ (commands # <<>> \/ Obsolete)
=============================================================================
