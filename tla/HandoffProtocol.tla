--------------------------- MODULE HandoffProtocol ---------------------------
(***************************************************************************)
(* The conversation by which a daemon hands its sockets and PTYs to the     *)
(* process that replaces it (launch_replacement_process in src/daemon.rs,   *)
(* receive_bootstrap in src/handoff.rs, run_daemon).  The two sides talk    *)
(* over a socket pair with deadlines: either may give up while the other's  *)
(* byte is under way.  The modules HandoffReaders and HandoffStores add     *)
(* what the two sides do to the PTYs and to the files at each step.         *)
(***************************************************************************)
EXTENDS Naturals, Sequences

CONSTANTS
  Shells,        \* what is handed over
  MaxAttempts,   \* bound on restart requests
  FinalTimeout   \* whether the replacement's wait for FINALIZE may time out

ASSUME ProtocolAssumption == MaxAttempts \in Nat /\ FinalTimeout \in BOOLEAN

VARIABLES
  step,      \* how far the old daemon is
  repl,      \* how far the replacement is
  toNew,     \* bytes to the replacement, not yet read
  toOld,     \* bytes to the old daemon, not yet read
  attempts

protocol == <<step, repl, toNew, toOld, attempts>>

OldSteps ==
  {"serving",         \* no restart under way
   "requested",       \* TRANSITION_RESTART, the main loop has not seen it yet
   "pausing",         \* mutation_lock is held, readers are being paused
   "awaitReady", "awaitPrepared", "finalize", "finalized",
   "aborting",        \* the handoff failed, the replacement is to be killed
   "rollback",        \* the replacement is reaped, readers are being resumed
   "leaving",         \* handed off, mutation_lock released, handlers joined
   "gone"}
NewSteps ==
  {"none", "bootstrap", "decide", "restore", "import", "prepared", "owner", "quit"}
ToNew == {"COMMIT", "FINALIZE", "ABORT"}
ToOld == {"READY", "PREPARED", "COMMITTED"}

\* launch_replacement holds mutation_lock.
Locked == step \notin {"serving", "requested", "leaving", "gone"}
OldServes == step \in {"serving", "requested"}

InitProtocol ==
  /\ step = "serving" /\ repl = "none" /\ toNew = <<>> /\ toOld = <<>> /\ attempts = 0

-----------------------------------------------------------------------------
(* The old daemon.                                                         *)

OldGoes(from, to) == step = from /\ step' = to
\* A byte to a process that is gone is an error.
Tell(byte) == repl # "none" /\ toNew' = Append(toNew, byte)

Restart ==
  /\ OldGoes("serving", "requested") /\ attempts < MaxAttempts
  /\ attempts' = attempts + 1
  /\ UNCHANGED <<repl, toNew, toOld>>

Launch ==
  /\ OldGoes("requested", "pausing")
  /\ UNCHANGED <<repl, toNew, toOld, attempts>>

\* An attachment does not reconnect, a reader does not pause, the flush or the
\* spawn fails.
PrepareFails ==
  /\ OldGoes("pausing", "rollback")
  /\ UNCHANGED <<repl, toNew, toOld, attempts>>

\* The manifest and the descriptors are sent to the spawned process.
Spawn ==
  /\ OldGoes("pausing", "awaitReady")
  /\ repl' = "bootstrap"
  /\ UNCHANGED <<toNew, toOld, attempts>>

Hears(byte) == toOld # <<>> /\ Head(toOld) = byte /\ toOld' = Tail(toOld)

ReadReady ==
  /\ OldGoes("awaitReady", "awaitPrepared") /\ Hears("READY") /\ Tell("COMMIT")
  /\ UNCHANGED <<repl, attempts>>

\* Variant: FINALIZE follows COMMIT without waiting for PREPARED.
SkipPrepared ==
  /\ OldGoes("awaitPrepared", "finalize")
  /\ UNCHANGED <<repl, toNew, toOld, attempts>>

ReadPrepared ==
  /\ OldGoes("awaitPrepared", "finalize") /\ Hears("PREPARED")
  /\ UNCHANGED <<repl, toNew, attempts>>

\* The irreversible boundary.
WriteFinalize ==
  /\ OldGoes("finalize", "finalized") /\ Tell("FINALIZE")
  /\ UNCHANGED <<repl, toOld, attempts>>

\* A deadline passes, or the replacement is gone.
HandshakeFails ==
  /\ step \in {"awaitReady", "awaitPrepared"} \/ (step = "finalize" /\ repl = "none")
  /\ step' = "aborting"
  /\ toNew' = IF repl = "none" THEN toNew ELSE Append(toNew, "ABORT")
  /\ UNCHANGED <<repl, toOld, attempts>>

\* kill and wait
KillReplacement ==
  /\ OldGoes("aborting", "rollback")
  /\ repl' = "none" /\ toNew' = <<>> /\ toOld' = <<>>
  /\ UNCHANGED attempts

FinishRollback ==
  /\ OldGoes("rollback", "serving")
  /\ UNCHANGED <<repl, toNew, toOld, attempts>>

\* Variant: a lost COMMITTED is taken for a failed handoff.
AckLostAborts ==
  /\ OldGoes("finalized", "aborting")
  /\ UNCHANGED <<repl, toNew, toOld, attempts>>

\* COMMITTED, the end of the stream or the deadline: all end the handoff.
EndHandoff ==
  /\ OldGoes("finalized", "leaving")
  /\ UNCHANGED <<repl, toNew, toOld, attempts>>

Leave ==
  /\ OldGoes("leaving", "gone")
  /\ UNCHANGED <<repl, toNew, toOld, attempts>>

-----------------------------------------------------------------------------
(* The replacement.                                                        *)

NewGoes(from, to) == repl = from /\ repl' = to
NewHears(byte) == toNew # <<>> /\ Head(toNew) = byte /\ toNew' = Tail(toNew)
Answer(byte) == toOld' = Append(toOld, byte)

Bootstrap ==
  /\ NewGoes("bootstrap", "decide") /\ Answer("READY")
  /\ UNCHANGED <<step, toNew, attempts>>

ReadCommit ==
  /\ NewGoes("decide", "restore") /\ NewHears("COMMIT")
  /\ UNCHANGED <<step, toOld, attempts>>

\* The stores are loaded and the journal is replayed.
Restore ==
  /\ NewGoes("restore", "import")
  /\ UNCHANGED <<step, toNew, toOld, attempts>>

\* import_handoff, then PREPARED.
Import ==
  /\ NewGoes("import", "prepared") /\ Answer("PREPARED")
  /\ UNCHANGED <<step, toNew, attempts>>

ReadFinalize ==
  /\ NewGoes("prepared", "owner") /\ NewHears("FINALIZE")
  /\ UNCHANGED <<step, toOld, attempts>>

\* Once its readers run; an old daemon that no longer waits does not get it.
Commit ==
  /\ repl = "owner" /\ step = "finalized" /\ toOld = <<>> /\ Answer("COMMITTED")
  /\ UNCHANGED <<step, repl, toNew, attempts>>

\* The main loop of the replacement runs.
NewServes == repl = "owner" /\ (step = "finalized" => toOld # <<>>)

ReadAbort ==
  /\ repl \in {"decide", "prepared"} /\ NewHears("ABORT") /\ repl' = "quit"
  /\ UNCHANGED <<step, toOld, attempts>>

\* A file, a descriptor or a runtime is not what it should be.
ReplacementFails ==
  /\ repl \in {"bootstrap", "restore", "import"} /\ repl' = "quit"
  /\ UNCHANGED <<step, toNew, toOld, attempts>>

ReplacementTimesOut ==
  /\ repl = "decide" \/ (repl = "prepared" /\ FinalTimeout)
  /\ toNew = <<>> /\ repl' = "quit"
  /\ UNCHANGED <<step, toNew, toOld, attempts>>

\* The process ends and its end of the channel is closed.
Quit ==
  /\ NewGoes("quit", "none") /\ toNew' = <<>>
  /\ UNCHANGED <<step, toOld, attempts>>

-----------------------------------------------------------------------------
TypeOKProtocol ==
  /\ step \in OldSteps /\ repl \in NewSteps
  /\ toNew \in Seq(ToNew) /\ toOld \in Seq(ToOld) /\ attempts \in Nat

\* The old daemon and its replacement never serve at the same time: an owner
\* means that the old daemon has passed FINALIZE and will not come back.
AtMostOneOwner == repl = "owner" => step \in {"finalized", "leaving", "gone"}

\* Past the boundary the replacement owns the Shells or has FINALIZE before it: a
\* failed replacement leaves the old daemon in charge (docs/live-pty-handoff.md).
NeverOrphaned ==
  step \in {"finalized", "leaving", "gone"} =>
    repl = "owner" \/ (repl = "prepared" /\ toNew # <<>> /\ Head(toNew) = "FINALIZE")
=============================================================================
