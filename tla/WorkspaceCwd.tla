---------------------------- MODULE WorkspaceCwd ----------------------------
(***************************************************************************)
(* set_global_workspace_default_cwd and its recovery (src/daemon.rs and    *)
(* src/global_workspace_store.rs), composed with GlobalWorkspace: changing *)
(* the default directory of one placement at its owner.  The change is     *)
(* prepared against the mirrored owner revision, sent once with that       *)
(* revision as its guard, and completed, cancelled or left pending.        *)
(***************************************************************************)
EXTENDS GlobalWorkspace

VARIABLES
  moved,   \* completed_default_cwd_operations
  asked,   \* what the client of an operation asks for, on every try
  mover,   \* handlers of operations
  guarded, \* requests that owners may still apply
  applied, \* operations an owner has applied
  unseen   \* operations cancelled by a refusal after an unanswered request

moveVars == <<moved, asked, mover, guarded, applied, unseen>>
allVars == <<vars, moveVars>>
others == <<storeVars, req, call, closer, own, flight, known, blind, shut>>

AtRest == [pc |-> "idle", again |-> FALSE, revision |-> 0, cwd |-> Cwd0]
MoveTo(o, pc) == mover' = [mover EXCEPT ![o].pc = pc]
MoveStop(o) == mover' = [mover EXCEPT ![o] = AtRest]

\* What an owner Workspace shows, kept for the completion.
MoveSees(o, w) ==
  mover' = [mover EXCEPT ![o].pc = "complete", ![o].revision = own'[w].revision,
                         ![o].cwd = own'[w].cwd]

\* The client asks for what the placement showed when it looked.
AskMove(o, g, n, d) ==
  /\ asked[o] = None /\ Live(g) /\ ws[g].at[n] # None
  /\ asked' = [asked EXCEPT ![o] =
       [g |-> g, node |-> n, owner |-> ws[g].at[n].owner, cwd |-> d,
        expected |-> ws[g].revision, revision |-> ws[g].at[n].revision,
        attempted |-> FALSE]]
  /\ UNCHANGED <<vars, moved, mover, guarded, applied, unseen>>

\* prepare_default_cwd.
PrepareMove(o) ==
  LET r == asked[o]
      p == ws[r.g].at[r.node] IN
  /\ mover[o].pc = "idle" /\ r # None /\ o \notin moved /\ r.node \in known
  /\ \/ move[o] # None /\ UNCHANGED move
     \/ /\ move[o] = None
        /\ Live(r.g) /\ NoPending(r.g) /\ ~ws[r.g].closing
        /\ ws[r.g].revision = r.expected
        /\ p # None /\ p.owner = r.owner /\ p.revision = r.revision
        /\ move' = [move EXCEPT ![o] = r]
  /\ MoveTo(o, "look")
  /\ UNCHANGED <<others, events, moved, asked, guarded, applied, unseen>>

\* The owner as the operation would have left it.
Reached(m) == /\ own[m.owner].cwd = m.cwd
              /\ own[m.owner].revision \in {m.revision, m.revision + 1}
CanRead(m) == m.node \in known /\ Exists(m.owner)

\* The owner is read before anything is sent: an attempted operation may have
\* been applied, and a change of anyone else ends the operation.
LookMoveForgets(o) ==
  LET m == move[o] IN
  /\ mover[o].pc = "look" /\ m # None /\ CanRead(m)
  /\ IF own[m.owner].revision = m.revision
     THEN MoveTo(o, "send") /\ UNCHANGED move
     ELSE MoveStop(o) /\ move' = [move EXCEPT ![o] = None]
  /\ UNCHANGED <<others, events, moved, asked, guarded, applied, unseen>>
LookMove(o) ==
  LET m == move[o] IN
  /\ mover[o].pc = "look" /\ m # None /\ CanRead(m) /\ UNCHANGED own
  /\ IF m.attempted /\ Reached(m) THEN MoveSees(o, m.owner) /\ UNCHANGED move
     ELSE IF own[m.owner].revision = m.revision
     THEN MoveTo(o, "send") /\ UNCHANGED move
     ELSE MoveStop(o) /\ move' = [move EXCEPT ![o] = None]
  /\ UNCHANGED <<others, events, moved, asked, guarded, applied, unseen>>

\* mark_default_cwd_owner_attempted once the handshake is done, then the request.
MoveRequest(o, again) == [op |-> o, again |-> again]
SendMove(o) ==
  /\ mover[o].pc = "send" /\ move[o] # None /\ move[o].node \in known
  /\ move' = [move EXCEPT ![o].attempted = TRUE]
  /\ mover' = [mover EXCEPT ![o].pc = "sent", ![o].again = move[o].attempted]
  /\ guarded' = guarded \cup {MoveRequest(o, move[o].attempted)}
  /\ UNCHANGED <<others, events, moved, asked, applied, unseen>>

\* GuardedSetWorkspaceDefaultCwd: the same directory leaves the revision alone.
GuardedSet(o) ==
  LET m == asked[o]
      w == own[m.owner] IN
  /\ Exists(m.owner) /\ w.revision = m.revision
  /\ own' = IF w.cwd = m.cwd THEN own
            ELSE [own EXCEPT ![m.owner].cwd = m.cwd, ![m.owner].revision = @ + 1]
  /\ applied' = applied \cup {o}

MoveAnswered(o) ==
  LET x == MoveRequest(o, mover[o].again) IN
  /\ mover[o].pc = "sent" /\ x \in guarded
  /\ GuardedSet(o) /\ guarded' = guarded \ {x}
  /\ MoveSees(o, asked[o].owner)
  /\ UNCHANGED <<storeVars, req, call, closer, flight, known, blind, shut, move,
                 events, moved, asked, unseen>>

MoveAppliedLate(x) ==
  /\ x \in guarded /\ GuardedSet(x.op) /\ guarded' = guarded \ {x}
  /\ UNCHANGED <<storeVars, req, call, closer, flight, known, blind, shut, move,
                 events, moved, asked, mover, unseen>>

\* The answer is lost: the owner is read once, and proves the change or not.
MoveProven(o) ==
  LET m == move[o] IN
  /\ mover[o].pc = "sent" /\ Event /\ Exists(m.owner) /\ UNCHANGED own
  /\ own[m.owner].cwd = m.cwd /\ own[m.owner].revision >= m.revision
  /\ MoveSees(o, m.owner)
  /\ UNCHANGED <<others, move, moved, asked, guarded, applied, unseen>>
MoveUnknown(o) ==
  /\ mover[o].pc = "sent" /\ Event
  /\ MoveStop(o)
  /\ UNCHANGED <<others, move, moved, asked, guarded, applied, unseen>>

\* Any other error says that this request was not applied: cancel_default_cwd.
MoveRefused(o) ==
  LET x == MoveRequest(o, mover[o].again) IN
  /\ mover[o].pc = "sent" /\ Event /\ x \in guarded
  /\ guarded' = guarded \ {x}
  /\ move' = [move EXCEPT ![o] = None]
  /\ unseen' = IF x.again THEN unseen \cup {o} ELSE unseen
  /\ MoveStop(o)
  /\ UNCHANGED <<others, moved, asked, applied>>

\* The request was never sent: an ambiguous error ends an operation that no
\* earlier try attempted, and any other error ends it.
MoveUnsent(o) ==
  /\ mover[o].pc = "send" /\ move[o] # None /\ Event
  /\ \/ /\ move' = [move EXCEPT ![o] = None]
        /\ unseen' = IF move[o].attempted THEN unseen \cup {o} ELSE unseen
     \/ move[o].attempted /\ UNCHANGED <<move, unseen>>
  /\ MoveStop(o)
  /\ UNCHANGED <<others, moved, asked, guarded, applied>>

\* complete_default_cwd.
CompleteMoveChanged(o) ==
  LET m == move[o]
      x == mover[o] IN
  /\ x.pc = "complete" /\ m # None
  /\ x.cwd = m.cwd /\ x.revision \in {m.revision, m.revision + 1}
  /\ Live(m.g) /\ ws[m.g].at[m.node] # None
  /\ ws[m.g].at[m.node].owner = m.owner
  /\ ws[m.g].at[m.node].revision = m.revision
  /\ ws' = [ws EXCEPT ![m.g].at[m.node] = Mirror(m.owner, m.revision + 1, m.cwd),
                      ![m.g].revision = @ + 1]
  /\ move' = [move EXCEPT ![o] = None]
  /\ moved' = moved \cup {o}
  /\ MoveStop(o)
  /\ UNCHANGED <<pend, done, req, call, closer, own, flight, known, blind, shut,
                 events, asked, guarded, applied, unseen>>
CompleteMove(o) ==
  LET m == move[o]
      x == mover[o] IN
  /\ x.pc = "complete" /\ m # None
  /\ x.cwd = m.cwd /\ x.revision \in {m.revision, m.revision + 1}
  /\ Live(m.g) /\ ws[m.g].at[m.node] # None
  /\ ws[m.g].at[m.node].owner = m.owner
  /\ ws[m.g].at[m.node].revision = m.revision
  /\ ws' = [ws EXCEPT ![m.g].at[m.node] = Mirror(m.owner, x.revision, m.cwd),
                      ![m.g].revision = IF x.revision = m.revision THEN @
                                        ELSE @ + 1]
  /\ move' = [move EXCEPT ![o] = None]
  /\ moved' = moved \cup {o}
  /\ MoveStop(o)
  /\ UNCHANGED <<pend, done, req, call, closer, own, flight, known, blind, shut,
                 events, asked, guarded, applied, unseen>>

\* A guard, a routed read or a save fails.
MoveFails(o) ==
  /\ mover[o].pc \notin {"idle", "sent"} /\ Event
  /\ MoveStop(o)
  /\ UNCHANGED <<others, move, moved, asked, guarded, applied, unseen>>

\* reconcile_pending_default_cwds: what was never attempted is cancelled, and
\* what may still be in flight stays pending.
ReconcileMove(o) ==
  LET m == move[o] IN
  /\ mover[o].pc = "idle" /\ m # None /\ UNCHANGED own
  /\ IF ~m.attempted THEN move' = [move EXCEPT ![o] = None] /\ UNCHANGED mover
     ELSE CanRead(m) /\ Reached(m) /\ MoveSees(o, m.owner) /\ UNCHANGED move
  /\ UNCHANGED <<others, events, moved, asked, guarded, applied, unseen>>

MoveCrash == /\ Crash
             /\ mover' = [o \in Moves |-> AtRest]
             /\ UNCHANGED <<moved, asked, guarded, applied, unseen>>

-----------------------------------------------------------------------------
MoveInit ==
  /\ Init
  /\ moved = {} /\ guarded = {} /\ applied = {} /\ unseen = {}
  /\ asked = [o \in Moves |-> None]
  /\ mover = [o \in Moves |-> AtRest]

MoveNext ==
  \/ Steps /\ UNCHANGED moveVars
  \/ \E o \in Moves :
       \/ \E g \in Ids, n \in Nodes, d \in Cwds : AskMove(o, g, n, d)
       \/ PrepareMove(o) \/ LookMove(o) \/ SendMove(o) \/ MoveAnswered(o)
       \/ MoveProven(o) \/ MoveUnknown(o) \/ MoveRefused(o) \/ CompleteMove(o)
       \/ MoveUnsent(o) \/ MoveFails(o) \/ ReconcileMove(o)
  \/ \E x \in guarded : MoveAppliedLate(x)
  \/ MoveCrash

MoveSpec == MoveInit /\ [][MoveNext]_allVars

-----------------------------------------------------------------------------
(* Properties.                                                             *)

\* A directory that a request of the coordinator set and that is still the
\* owner's latest change belongs to an operation that is pending or completed,
\* unless a refusal ended it after an unanswered request.
MoveAccounted ==
  \A o \in applied :
    Reached(asked[o]) /\ asked[o].owner \notin shut =>
      o \in moved \cup unseen \/ move[o] # None
=============================================================================
