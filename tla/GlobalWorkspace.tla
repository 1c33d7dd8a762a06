-------------------------- MODULE GlobalWorkspace --------------------------
(***************************************************************************)
(* Coordinated Workspaces: GlobalWorkspaceStore                            *)
(* (src/global_workspace_store.rs) and the request handlers of             *)
(* src/daemon.rs that create a Shell or launcher of a global Workspace on  *)
(* the Node that owns it.  A creation is prepared durably, marked          *)
(* attempted, sent to the owner, verified and completed; after a lost      *)
(* answer or a crash it stays pending until a retry of the same operation  *)
(* or a reconciliation finds the resource at its owner.                    *)
(* Every store method validates, saves and then replaces memory under one  *)
(* mutex, so each is one step and ws, pend and done stand for the file.    *)
(* An operation ID is also the ID of the owner Workspace, of the resource  *)
(* and, for a project, of the global Workspace that its request asks for.  *)
(* Projects all ask for the same name.                                     *)
(***************************************************************************)
EXTENDS Naturals, FiniteSets

CONSTANTS
  Workspaces,   \* IDs that create and adopt give to global Workspaces
  Nodes,        \* Nodes that own Workspaces
  Home,         \* the coordinating Node
  Creates,      \* operation IDs that create a Shell or launcher
  Projects,     \* operation IDs that create a global Workspace with a Shell
  Moves,        \* operation IDs that change a default directory
  Foreign,      \* owner Workspaces made without the coordinator
  Closers,      \* handlers of close requests
  Cwds, Cwd0,   \* default working directories; the one requests ask for
  None, Gone,   \* a global Workspace not made yet; one that has been closed
  MaxEvents     \* bound on failures and on changes made by others

Ops == Creates \cup Projects
Owners == Ops \cup Foreign
Ids == Workspaces \cup Projects

VARIABLES
  ws,      \* PersistedGlobalWorkspaces.workspaces
  pend,    \* pending_resources, by operation
  done,    \* completed_operations, with the global Workspace of each
  req,     \* what the client of an operation asked for, on every try
  call,    \* handlers of operations
  closer,  \* handlers of close requests
  own,     \* the owners' Workspaces
  flight,  \* requests that owners may still apply
  known,   \* Nodes with a registration
  blind,   \* operations cancelled by a refusal after an unanswered request
  shut,    \* owner Workspaces that have been closed
  move,    \* pending_default_cwd_operations, by operation
  events   \* failures and changes made by others so far

storeVars == <<ws, pend, done>>
vars == <<ws, pend, done, req, call, closer, own, flight, known, blind, shut,
          move, events>>
rest == <<known, blind, shut, move, events>>
most == <<known, blind, shut, move>>

\* Placements mirror the owner Workspace's revision and default directory.
Placement == [owner : Owners, revision : Nat, cwd : Cwds]
Workspace == [revision : Nat, closing : BOOLEAN, project : BOOLEAN,
              at : [Nodes -> Placement \cup {None}]]
Pending == [g : Ids, node : Nodes, owner : Owners, cwd : Cwds,
            resource : Ops, expected : Nat, attempted : BOOLEAN]
Move == [g : Ids, node : Nodes, owner : Owners, cwd : Cwds, expected : Nat,
         revision : Nat, attempted : BOOLEAN]
Request == [op : Ops, owner : Owners, cwd : Cwds, resource : Ops,
            again : BOOLEAN]
Demand == [g : Ids, node : Nodes, expected : Nat]

\* Nothing stored is None, and what was closed is not what was never made.
ASSUME WorkspaceAssumption ==
  /\ Home \in Nodes /\ Cwd0 \in Cwds
  /\ Creates \cap Projects = {} /\ Ops \cap Foreign = {}
  /\ None \notin Workspaces \cup Nodes \cup Owners
  /\ Gone \notin Workspaces \cup Nodes \cup Owners
  /\ None \notin Workspace /\ Gone \notin Workspace /\ None # Gone
  /\ None \notin Placement /\ None \notin Pending /\ None \notin Move
  /\ None \notin Demand
  /\ MaxEvents \in Nat

NewWorkspace(project) == [revision |-> 1, closing |-> FALSE,
                          project |-> project, at |-> [n \in Nodes |-> None]]
Live(g) == ws[g] \notin {None, Gone}
CallSteps == {"idle", "look", "prepare", "check", "send", "sent", "verify",
              "complete", "local"}
Call == [pc : CallSteps, cwd : Cwds, revision : Nat, again : BOOLEAN,
         seen : Workspace \cup {None}]
Idle == [pc |-> "idle", cwd |-> Cwd0, revision |-> 0, again |-> FALSE,
         seen |-> None]
NotClosing == [pc |-> "idle", g |-> None, todo |-> [n \in Nodes |-> None],
               node |-> None, owner |-> None, revision |-> 0]
Close == [pc : {"idle", "next", "close", "confirm"}, g : Ids \cup {None},
          todo : [Nodes -> Owners \cup {None}], node : Nodes \cup {None},
          owner : Owners \cup {None}, revision : Nat]

\* An owner Workspace with revision 0 does not exist.
NoOwner == [node |-> None, revision |-> 0, cwd |-> Cwd0, holds |-> {}]
OwnerWorkspace == [node : Nodes \cup {None}, revision : Nat, cwd : Cwds,
                   holds : SUBSET Ops]
Exists(w) == own[w].revision # 0

\* The Node a Workspace lives on is fixed by the request that created it.
LinkedBeyond(g, w) ==
  \E h \in Ids \ {g}, n \in Nodes :
    Live(h) /\ ws[h].at[n] # None /\ ws[h].at[n].owner = w
Linked(w) == LinkedBeyond(None, w)
NoPending(g) == /\ \A o \in Ops : pend[o] # None => pend[o].g # g
                /\ \A o \in Moves : move[o] # None => move[o].g # g

\* Every failure and every change made by others is counted.
Event == events < MaxEvents /\ events' = events + 1

Mirror(w, revision, cwd) == [owner |-> w, revision |-> revision, cwd |-> cwd]

-----------------------------------------------------------------------------
(* The owner.  CreateWorkspaceShell and CreateWorkspaceLauncher create the *)
(* Workspace and the resource by exact ID, whichever is missing.           *)

Accepts(m) == ~Exists(m.owner) \/ own[m.owner].cwd = m.cwd
Created(m, n) ==
  LET w == own[m.owner] IN
  IF m.resource \in w.holds THEN w
  ELSE [node |-> n, cwd |-> m.cwd, holds |-> w.holds \cup {m.resource},
        revision |-> IF Exists(m.owner) THEN w.revision + 1 ELSE 2]
Apply(m) ==
  /\ Accepts(m)
  /\ own' = [own EXCEPT ![m.owner] = Created(m, req[m.op].node)]

\* A request is applied and not answered.  Of one operation the first request
\* and one that was sent again may be in flight together.
AppliedLate(m) ==
  /\ m \in flight /\ Apply(m) /\ flight' = flight \ {m}
  /\ UNCHANGED <<ws, pend, done, req, call, closer, rest>>


\* Clients of the owner change the Workspace, delete from it and close it.
OwnerSetsCwd(w, d) ==
  /\ Event /\ Exists(w) /\ own[w].cwd # d
  /\ own' = [own EXCEPT ![w].cwd = d, ![w].revision = @ + 1]
  /\ UNCHANGED <<storeVars, req, call, closer, flight, known, blind, shut, move>>

OwnerDeletes(w, r) ==
  /\ Event /\ Exists(w) /\ r \in own[w].holds
  /\ own' = [own EXCEPT ![w].holds = @ \ {r}, ![w].revision = @ + 1]
  /\ UNCHANGED <<storeVars, req, call, closer, flight, known, blind, shut, move>>

OwnerCloses(w) ==
  /\ Event /\ Exists(w)
  /\ own' = [own EXCEPT ![w] = NoOwner]
  /\ shut' = shut \cup {w}
  /\ UNCHANGED <<storeVars, req, call, closer, flight, known, blind, move>>

\* The registration of a remote Node is forgotten; its owner lives on.
Forget(n) ==
  /\ Event /\ n \in known \ {Home}
  /\ known' = known \ {n}
  /\ UNCHANGED <<storeVars, req, call, closer, own, flight, blind, shut, move>>

-----------------------------------------------------------------------------
(* create, adopt, link, rename.                                            *)

Create(g) ==
  /\ g \in Workspaces /\ ws[g] = None
  /\ ws' = [ws EXCEPT ![g] = NewWorkspace(FALSE)]
  /\ UNCHANGED <<pend, done, req, call, closer, own, flight, rest>>

\* adopt and link an owner Workspace read over the verified route just before.
Adopt(g, w) ==
  /\ g \in Workspaces /\ ws[g] = None
  /\ Exists(w) /\ own[w].node \in known /\ ~Linked(w)
  /\ ws' = [ws EXCEPT ![g] = [NewWorkspace(FALSE) EXCEPT
               !.at[own[w].node] = Mirror(w, own[w].revision, own[w].cwd)]]
  /\ UNCHANGED <<pend, done, req, call, closer, own, flight, rest>>

Link(g, w) ==
  LET n == own[w].node IN
  /\ Exists(w) /\ n \in known /\ ~Linked(w)
  /\ Live(g) /\ NoPending(g) /\ ~ws[g].closing /\ ws[g].at[n] = None
  /\ ws' = [ws EXCEPT ![g].revision = @ + 1,
                      ![g].at[n] = Mirror(w, own[w].revision, own[w].cwd)]
  /\ UNCHANGED <<pend, done, req, call, closer, own, flight, rest>>

\* To a name no project asks for.
Rename(g) ==
  /\ Event /\ Live(g) /\ NoPending(g) /\ ~ws[g].closing
  /\ ws' = [ws EXCEPT ![g].revision = @ + 1, ![g].project = FALSE]
  /\ UNCHANGED <<pend, done, req, call, closer, own, flight, most>>

-----------------------------------------------------------------------------
(* Creating a resource.  One handler at a time holds an operation's lock.  *)

Goto(o, pc) == call' = [call EXCEPT ![o] = [Idle EXCEPT !.pc = pc]]
Stop(o) == call' = [call EXCEPT ![o] = Idle]

\* The request of an operation never changes; a completed one is replayed.
FirstCall(o, g, n) ==
  /\ req[o] = None /\ n \in known
  /\ IF o \in Creates THEN Live(g) ELSE g = o
  /\ req' = [req EXCEPT ![o] = [g |-> g, node |-> n, expected |->
               IF o \in Creates THEN ws[g].revision ELSE 1]]
  /\ UNCHANGED <<storeVars, call, closer, own, flight, rest>>

\* create_local_global_workspace_shell reads the global Workspace first.
StartLocally(o) ==
  /\ o \in Creates /\ req[o] # None /\ req[o].node = Home
  /\ call[o].pc = "idle" /\ done[o] = None /\ pend[o] = None
  /\ Live(req[o].g) /\ ~ws[req[o].g].closing
  /\ ws[req[o].g].revision = req[o].expected
  /\ call' = [call EXCEPT ![o].pc = "local", ![o].seen = ws[req[o].g]]
  /\ UNCHANGED <<storeVars, req, closer, own, flight, rest>>

\* remove_pending_at: the Workspace the operation created goes with its last
\* pending operation while it is empty.
Cancel(o) ==
  LET g == pend[o].g IN
  /\ pend' = [pend EXCEPT ![o] = None]
  /\ ws' = IF /\ o \in Projects
              /\ \A n \in Nodes : ws[g].at[n] = None
              /\ \A p \in Ops \ {o} : pend[p] = None \/ pend[p].g # g
           THEN [ws EXCEPT ![g] = None] ELSE ws

\* prepare_workspace_shell: a live Workspace of that name is the result of an
\* equal project that completed, is shared with one that is pending, or is a
\* conflict; otherwise the name and the ID are reserved.
Equal(o, p) == req[p] # None /\ req[p].node = req[o].node
PrepareProjectTwice(o) ==
  LET named == {g \in Ids : Live(g) /\ ws[g].project} IN
  /\ o \in Projects /\ req[o] # None /\ call[o].pc = "idle"
  /\ done[o] = None /\ pend[o] = None /\ ws[o] = None
  /\ ws' = [ws EXCEPT ![o] = NewWorkspace(TRUE)]
  /\ pend' = [pend EXCEPT ![o] =
       [g |-> o, node |-> req[o].node, owner |-> o, cwd |-> Cwd0,
        resource |-> o, expected |-> 1, attempted |-> FALSE]]
  /\ Goto(o, "look")
  /\ UNCHANGED <<done, req, closer, own, flight, rest>>
PrepareProject(o) ==
  LET named == {g \in Ids : Live(g) /\ ws[g].project} IN
  /\ o \in Projects /\ req[o] # None /\ call[o].pc = "idle"
  /\ done[o] = None /\ pend[o] = None
  /\ \/ \E g \in named, p \in Projects :
          /\ done[p] = g /\ Equal(o, p)
          /\ done' = [done EXCEPT ![o] = g]
          /\ UNCHANGED <<ws, pend, call>>
     \/ \E g \in named, p \in Projects :
          /\ pend[p] # None /\ pend[p].g = g /\ Equal(o, p)
          /\ \A q \in Projects : done[q] = g => ~Equal(o, q)
          /\ pend' = [pend EXCEPT ![o] = [pend[p] EXCEPT !.attempted = FALSE]]
          /\ Goto(o, "look")
          /\ UNCHANGED <<ws, done>>
     \/ /\ named = {} /\ ws[o] = None
        /\ ws' = [ws EXCEPT ![o] = NewWorkspace(TRUE)]
        /\ pend' = [pend EXCEPT ![o] =
             [g |-> o, node |-> req[o].node, owner |-> o, cwd |-> Cwd0,
              resource |-> o, expected |-> 1, attempted |-> FALSE]]
        /\ Goto(o, "look")
        /\ UNCHANGED done
  /\ UNCHANGED <<req, closer, own, flight, rest>>

\* The owner of a project that was never attempted is not eligible any more.
DropProject(o) ==
  /\ Event
  /\ o \in Projects /\ call[o].pc = "idle" /\ pend[o] # None
  /\ ~pend[o].attempted /\ Cancel(o)
  /\ UNCHANGED <<done, req, call, closer, own, flight, most>>

\* A creation or its retry starts by reading the placement and then, if there
\* is one, its owner Workspace.  A project that joined another cannot be
\* retried: what it asked for is not what it reserved.
Target(o) == IF pend[o] # None THEN pend[o].g ELSE req[o].g
Starts(o) == /\ call[o].pc = "idle" /\ done[o] = None
             /\ IF o \in Creates THEN req[o] # None
                ELSE pend[o] # None /\ pend[o].resource = o
Look(o) ==
  LET n == req[o].node
      p == ws[Target(o)].at[n] IN
  /\ call[o].pc = "look" \/ Starts(o)
  /\ Live(Target(o))
  /\ p # None => n \in known /\ Exists(p.owner)
  /\ call' = [call EXCEPT ![o].pc = "prepare",
                          ![o].cwd = IF p = None THEN Cwd0 ELSE own[p.owner].cwd]
  /\ UNCHANGED <<storeVars, req, closer, own, flight, rest>>

\* The owner Workspace of the placement, else of a pending operation for the
\* same Workspace and Node, else the requested one.
Sharing(g, n) == {p \in Ops : pend[p] # None /\ pend[p].g = g
                              /\ pend[p].node = n}
Prepared(o, cwd) ==
  LET r == req[o]
      shared == Sharing(r.g, r.node)
      p == CHOOSE x \in shared : TRUE IN
  [g |-> r.g, node |-> r.node, resource |-> o, expected |-> r.expected,
   attempted |-> FALSE,
   owner |-> IF ws[r.g].at[r.node] # None THEN ws[r.g].at[r.node].owner
             ELSE IF shared # {} THEN pend[p].owner ELSE o,
   cwd |-> IF shared # {} THEN pend[p].cwd ELSE cwd]

\* What prepare_resource requires of a new operation.
Preparable(o, expected) ==
  LET g == req[o].g IN
  /\ Live(g) /\ ws[g].revision = expected /\ ~ws[g].closing
  /\ ~LinkedBeyond(g, Prepared(o, Cwd0).owner)

\* prepare_resource; a changed owner Workspace conflicts with what is pending.
PrepareAlone(o) ==
  LET new == Prepared(o, call[o].cwd)
      r == req[o] IN
  /\ call[o].pc = "prepare"
  /\ IF pend[o] # None
     THEN pend[o].cwd = call[o].cwd /\ Goto(o, "check") /\ UNCHANGED pend
     ELSE /\ Preparable(o, req[o].expected)
          /\ pend' = [pend EXCEPT ![o] =
               IF ws[r.g].at[r.node] # None THEN new
               ELSE [new EXCEPT !.owner = o]]
          /\ Goto(o, "send")
  /\ UNCHANGED <<ws, done, req, closer, own, flight, rest>>
Prepare(o) ==
  /\ call[o].pc = "prepare"
  /\ IF pend[o] # None
     THEN pend[o].cwd = call[o].cwd /\ Goto(o, "check") /\ UNCHANGED pend
     ELSE /\ Preparable(o, req[o].expected)
          /\ pend' = [pend EXCEPT ![o] = Prepared(o, call[o].cwd)]
          /\ Goto(o, "send")
  /\ UNCHANGED <<ws, done, req, closer, own, flight, rest>>

\* pending_owner_resource, and the owner Workspace if the resource is there.
Present(o) ==
  /\ pend[o].node \in known
  /\ Exists(pend[o].owner) /\ pend[o].resource \in own[pend[o].owner].holds
Observe(o) ==
  LET w == own[pend[o].owner] IN
  call' = [call EXCEPT ![o].pc = "complete", ![o].revision = w.revision,
                       ![o].cwd = w.cwd]
Check(o) ==
  /\ call[o].pc = "check" /\ pend[o] # None
  /\ IF Present(o) THEN Observe(o) ELSE Goto(o, "send")
  /\ UNCHANGED <<storeVars, req, closer, own, flight, rest>>

\* mark_owner_attempted, then route_node_operation.
RequestOf(o, again) ==
  [op |-> o, owner |-> pend[o].owner, cwd |-> pend[o].cwd,
   resource |-> pend[o].resource, again |-> again]
Send(o) ==
  /\ call[o].pc = "send" /\ pend[o] # None /\ pend[o].node \in known
  /\ pend' = [pend EXCEPT ![o].attempted = TRUE]
  /\ call' = [call EXCEPT ![o].pc = "sent", ![o].again = pend[o].attempted]
  /\ flight' = flight \cup {RequestOf(o, pend[o].attempted)}
  /\ UNCHANGED <<ws, done, req, closer, own, rest>>

\* A request that loses its channel is sent once more.
SendAgain(o) ==
  /\ Event
  /\ call[o].pc = "sent" /\ ~call[o].again
  /\ call' = [call EXCEPT ![o].again = TRUE]
  /\ flight' = flight \cup {RequestOf(o, TRUE)}
  /\ UNCHANGED <<storeVars, req, closer, own, most>>

Answered(o) ==
  LET m == RequestOf(o, call[o].again) IN
  /\ call[o].pc = "sent" /\ m \in flight /\ Apply(m) /\ flight' = flight \ {m}
  /\ Goto(o, "verify")
  /\ UNCHANGED <<storeVars, req, closer, rest>>

\* OutcomeUnknown, Timeout or PersistenceFailed: the operation stays pending.
Unknown(o) ==
  /\ Event
  /\ call[o].pc = "sent" /\ Stop(o)
  /\ UNCHANGED <<storeVars, req, closer, own, flight, most>>

\* Any other error, of the route or of the owner, says that this request was
\* not applied.  The operation is cancelled, unless it is a project, which has
\* been marked attempted, or the save fails.
Refusal(o, again) ==
  \/ /\ o \in Creates /\ Cancel(o)
     /\ blind' = IF again THEN blind \cup {o} ELSE blind
  \/ /\ pend' = [pend EXCEPT ![o].attempted = TRUE]
     /\ UNCHANGED <<ws, blind>>
Refused(o) ==
  LET m == RequestOf(o, call[o].again) IN
  /\ Event
  /\ call[o].pc = "sent" /\ Stop(o)
  /\ call[o].again \/ m \in flight
  /\ flight' = flight \ {m}
  /\ Refusal(o, call[o].again)
  /\ UNCHANGED <<done, req, closer, own, known, shut, move>>

Unroutable(o) ==
  /\ call[o].pc = "send" /\ pend[o] # None /\ pend[o].node \notin known
  /\ Stop(o)
  /\ Refusal(o, pend[o].attempted)
  /\ UNCHANGED <<done, req, closer, own, flight, known, shut, move, events>>

\* The owner Workspace is read again before completion.
Verify(o) ==
  /\ call[o].pc = "verify" /\ pend[o].node \in known
  /\ Exists(pend[o].owner) /\ own[pend[o].owner].cwd = pend[o].cwd
  /\ Observe(o)
  /\ UNCHANGED <<storeVars, req, closer, own, flight, rest>>

\* complete_resource.
Place(g, n, m) ==
  [ws EXCEPT ![g].revision = IF ws[g].at[n] = None THEN @ + 1 ELSE @,
             ![g].at[n] = m]
\* Variant: whether the owner Workspace was linked meanwhile is not checked.
CompleteUnchecked(o) ==
  LET p == pend[o] IN
  /\ call[o].pc = "complete" /\ p # None /\ call[o].cwd = p.cwd /\ Live(p.g)
  /\ ws[p.g].at[p.node] # None => ws[p.g].at[p.node].owner = p.owner
  /\ ws' = Place(p.g, p.node, Mirror(p.owner, call[o].revision, p.cwd))
  /\ pend' = [pend EXCEPT ![o] = None]
  /\ done' = [done EXCEPT ![o] = p.g]
  /\ Stop(o)
  /\ UNCHANGED <<req, closer, own, flight, rest>>
Complete(o) ==
  LET p == pend[o] IN
  /\ call[o].pc = "complete" /\ p # None /\ call[o].cwd = p.cwd
  /\ ~LinkedBeyond(p.g, p.owner) /\ Live(p.g)
  /\ ws[p.g].at[p.node] # None => ws[p.g].at[p.node].owner = p.owner
  /\ ws' = Place(p.g, p.node, Mirror(p.owner, call[o].revision, p.cwd))
  /\ pend' = [pend EXCEPT ![o] = None]
  /\ done' = [done EXCEPT ![o] = p.g]
  /\ Stop(o)
  /\ UNCHANGED <<req, closer, own, flight, rest>>

\* A guard, a routed read or a save fails.  A project that was never attempted
\* is cancelled unless the error is ambiguous.
Fails(o) ==
  /\ Event
  /\ call[o].pc \notin {"idle", "sent"} /\ Stop(o)
  /\ \/ UNCHANGED <<ws, pend>>
     \/ o \in Projects /\ pend[o] # None /\ ~pend[o].attempted /\ Cancel(o)
  /\ UNCHANGED <<done, req, closer, own, flight, most>>

\* reconcile_pending_workspace_resources: an absent resource stays pending,
\* because its request may still be in flight.
ReconcileAbsent(o) ==
  /\ call[o].pc = "idle" /\ pend[o] # None
  /\ IF Present(o) THEN Observe(o) /\ UNCHANGED <<ws, pend>>
     ELSE Cancel(o) /\ UNCHANGED call
  /\ UNCHANGED <<done, req, closer, own, flight, rest>>
Reconcile(o) ==
  /\ call[o].pc = "idle" /\ pend[o] # None /\ Present(o) /\ Observe(o)
  /\ UNCHANGED <<storeVars, req, closer, own, flight, rest>>

\* create_local_global_workspace_shell, under the mutation and persistence
\* locks: owner Workspace, Shell and completion become durable together with
\* the journal record.  A first placement made meanwhile is adopted.
FirstMeanwhile(seen, now) ==
  /\ now.revision = seen.revision + 1 /\ now.closing = seen.closing
  /\ seen.at[Home] = None /\ now.at[Home] # None
  /\ \A n \in Nodes \ {Home} : now.at[n] = seen.at[n]
CreateLocally(o) ==
  LET g == req[o].g
      seen == call[o].seen
      first == Live(g) /\ FirstMeanwhile(seen, ws[g])
      cwd == IF first THEN ws[g].at[Home].cwd
             ELSE IF seen.at[Home] = None THEN Cwd0
             ELSE own[seen.at[Home].owner].cwd
      p == Prepared(o, cwd)
      m == [op |-> o, owner |-> p.owner, cwd |-> p.cwd, resource |-> o] IN
  /\ call[o].pc = "local" /\ pend[o] = None /\ Live(g)
  /\ Preparable(o, IF first THEN ws[g].revision ELSE req[o].expected)
  /\ Apply(m)
  /\ ws' = Place(g, Home, Mirror(p.owner, own'[p.owner].revision, p.cwd))
  /\ done' = [done EXCEPT ![o] = g]
  /\ Stop(o)
  /\ UNCHANGED <<pend, req, closer, flight, rest>>

-----------------------------------------------------------------------------
(* close_global_workspace.                                                 *)

\* The handler goes through the placements it has read here.
Closes(k, g) ==
  closer' = [closer EXCEPT ![k] = [NotClosing EXCEPT !.pc = "next", !.g = g,
    !.todo = [n \in Nodes |-> IF ws[g].at[n] = None THEN None
                              ELSE ws[g].at[n].owner]]]
BeginCloseBusy(k, g) ==
  /\ closer[k].pc = "idle" /\ Live(g) /\ ~ws[g].closing
  /\ ws' = [ws EXCEPT ![g].closing = TRUE, ![g].revision = @ + 1]
  /\ Closes(k, g)
  /\ UNCHANGED <<pend, done, req, call, own, flight, rest>>
BeginClose(k, g) ==
  /\ closer[k].pc = "idle" /\ Live(g) /\ NoPending(g) /\ ~ws[g].closing
  /\ ws' = [ws EXCEPT ![g].closing = TRUE, ![g].revision = @ + 1]
  /\ Closes(k, g)
  /\ UNCHANGED <<pend, done, req, call, own, flight, rest>>

RetryClose(k, g) ==
  /\ closer[k].pc = "idle" /\ Live(g) /\ ws[g].closing
  /\ Closes(k, g)
  /\ UNCHANGED <<storeVars, req, call, own, flight, rest>>

\* The end of the placements; confirm_empty_closed if there never was one.
EndClose(k) ==
  LET g == closer[k].g IN
  /\ closer[k].pc = "next" /\ \A n \in Nodes : closer[k].todo[n] = None
  /\ ws' = IF Live(g) /\ ws[g].closing /\ \A n \in Nodes : ws[g].at[n] = None
           THEN [ws EXCEPT ![g] = Gone] ELSE ws
  /\ closer' = [closer EXCEPT ![k] = NotClosing]
  /\ UNCHANGED <<pend, done, req, call, own, flight, rest>>

\* The owner's revision is read.  NotFound counts as closed, whether it is the
\* Workspace or the Node's registration that is missing.
ReadToClose(k, n) ==
  LET w == closer[k].todo[n] IN
  /\ closer[k].pc = "next" /\ w # None
  /\ closer' = [closer EXCEPT ![k] = [@ EXCEPT !.todo[n] = None, !.node = n,
       !.owner = w,
       !.revision = IF n \in known THEN own[w].revision ELSE 0,
       !.pc = IF n \in known /\ Exists(w) THEN "close" ELSE "confirm"]]
  /\ UNCHANGED <<storeVars, req, call, own, flight, rest>>

\* The owner cannot be read: the placement stays unresolved.
SkipToClose(k, n) ==
  /\ Event
  /\ closer[k].pc = "next" /\ closer[k].todo[n] # None
  /\ closer' = [closer EXCEPT ![k].todo[n] = None]
  /\ UNCHANGED <<storeVars, req, call, own, flight, most>>

\* On to the next placement.
Resume(k) ==
  closer' = [closer EXCEPT ![k] = [NotClosing EXCEPT !.pc = "next",
                               !.g = closer[k].g, !.todo = closer[k].todo]]

\* The guarded close at the owner.  Its answer may be lost, and the placement
\* is confirmed only by an answer, or by one that finds nothing to close.
CloseUnproven(k) ==
  LET x == closer[k] IN
  /\ x.pc = "close"
  /\ \/ /\ own[x.owner].revision = x.revision
        /\ own' = [own EXCEPT ![x.owner] = NoOwner]
        /\ shut' = shut \cup {x.owner}
     \/ UNCHANGED <<own, shut>>
  /\ closer' = [closer EXCEPT ![k].pc = "confirm"]
  /\ UNCHANGED <<storeVars, req, call, flight, known, blind, move, events>>
CloseOwner(k) ==
  LET x == closer[k] IN
  /\ x.pc = "close"
  /\ \/ /\ own[x.owner].revision = x.revision
        /\ own' = [own EXCEPT ![x.owner] = NoOwner]
        /\ shut' = shut \cup {x.owner}
     \/ UNCHANGED <<own, shut>>
  /\ \/ /\ own'[x.owner].revision = 0 \/ x.node \notin known
        /\ closer' = [closer EXCEPT ![k].pc = "confirm", ![k].revision = 0]
        /\ UNCHANGED events
     \/ Event /\ Resume(k)
  /\ UNCHANGED <<storeVars, req, call, flight, known, blind, move>>

\* confirm_closed: the last placement takes the Workspace with it.
Confirm(k) ==
  LET x == closer[k]
      g == x.g
      left == [n \in Nodes |-> IF n = x.node /\ ws[g].at[n] # None
                                    /\ ws[g].at[n].owner = x.owner
                               THEN None ELSE ws[g].at[n]] IN
  /\ x.pc = "confirm"
  /\ \/ /\ Live(g) /\ ws[g].closing
        /\ ws' = IF \A n \in Nodes : left[n] = None
                 THEN [ws EXCEPT ![g] = Gone]
                 ELSE [ws EXCEPT ![g].at = left, ![g].revision = @ + 1]
        /\ Resume(k)
        /\ UNCHANGED events
     \/ /\ Event /\ UNCHANGED ws
        /\ closer' = [closer EXCEPT ![k] = NotClosing]
  /\ UNCHANGED <<pend, done, req, call, own, flight, most>>

\* The coordinating daemon stops at any point; its requests may still arrive.
Crash ==
  /\ Event
  /\ call' = [o \in Ops |-> Idle]
  /\ closer' = [k \in Closers |-> NotClosing]
  /\ UNCHANGED <<storeVars, req, own, flight, most>>

-----------------------------------------------------------------------------
Init ==
  /\ ws = [g \in Ids |-> None]
  /\ pend = [o \in Ops |-> None] /\ done = [o \in Ops |-> None]
  /\ blind = {} /\ shut = {} /\ events = 0 /\ move = [o \in Moves |-> None]
  /\ req = [o \in Ops |-> None]
  /\ call = [o \in Ops |-> Idle]
  /\ closer = [k \in Closers |-> NotClosing]
  /\ own \in [Owners -> {NoOwner} \cup
                {[NoOwner EXCEPT !.node = n, !.revision = 1] : n \in Nodes}]
  /\ \A w \in Owners : (w \in Foreign) = (own[w] # NoOwner)
  /\ flight = {} /\ known = Nodes

Steps ==
  \/ \E g \in Ids :
       \/ Create(g) \/ Rename(g)
       \/ \E w \in Owners : Adopt(g, w) \/ Link(g, w)
       \/ \E o \in Ops, n \in Nodes : FirstCall(o, g, n)
       \/ \E k \in Closers : BeginClose(k, g) \/ RetryClose(k, g)
  \/ \E o \in Ops :
       \/ StartLocally(o) \/ PrepareProject(o) \/ DropProject(o) \/ Look(o)
       \/ Prepare(o) \/ Check(o) \/ Send(o) \/ Answered(o)
       \/ SendAgain(o) \/ Unknown(o) \/ Refused(o) \/ Unroutable(o) \/ Verify(o)
       \/ Complete(o) \/ Fails(o) \/ Reconcile(o) \/ CreateLocally(o)
  \/ \E k \in Closers :
       \/ EndClose(k) \/ CloseOwner(k) \/ Confirm(k)
       \/ \E n \in Nodes : ReadToClose(k, n) \/ SkipToClose(k, n)
  \/ \E m \in flight : AppliedLate(m)
  \/ \E w \in Owners : \/ \E d \in Cwds : OwnerSetsCwd(w, d)
                       \/ \E r \in Ops : OwnerDeletes(w, r)
                       \/ OwnerCloses(w)
  \/ \E n \in Nodes : Forget(n)

Next == Steps \/ Crash

Spec == Init /\ [][Next]_vars

-----------------------------------------------------------------------------
(* Properties.                                                             *)

\* Every record of the store, of a handler and of an owner is well formed, and
\* an operation is pending or completed, never both.
TypeOK ==
  /\ ws \in [Ids -> Workspace \cup {None, Gone}]
  /\ pend \in [Ops -> Pending \cup {None}]
  /\ done \in [Ops -> Ids \cup {None}]
  /\ move \in [Moves -> Move \cup {None}]
  /\ \A o \in Ops : pend[o] = None \/ done[o] = None
  /\ blind \subseteq Ops /\ shut \subseteq Owners /\ known \subseteq Nodes
  /\ flight \subseteq Request
  /\ req \in [Ops -> Demand \cup {None}]
  /\ call \in [Ops -> Call] /\ closer \in [Closers -> Close]
  /\ own \in [Owners -> OwnerWorkspace]

\* A resource that exists at its owner is accounted for: an operation that
\* asks for it is pending or completed, whatever was lost, delayed, retried or
\* interrupted; except that a refusal of the route cancels an operation
\* whose earlier request was not answered.
NothingOrphaned ==
  \A w \in Owners : \A r \in own[w].holds :
    \E o \in Ops : /\ o = r \/ {o, r} \subseteq Projects
                   /\ \/ done[o] # None \/ o \in blind
                      \/ pend[o] # None /\ pend[o].resource = r

\* Operations pending for one global Workspace and Node have agreed on one
\* owner Workspace, which is the placement's once there is one, and the
\* global Workspace is there.
OwnerShared ==
  \A o \in Ops : pend[o] # None =>
    /\ \A p \in Sharing(pend[o].g, pend[o].node) : pend[p].owner = pend[o].owner
    /\ Live(pend[o].g)
    /\ ws[pend[o].g].at[pend[o].node] # None =>
         ws[pend[o].g].at[pend[o].node].owner = pend[o].owner

\* No owner Workspace belongs to two global Workspaces, even if it was linked
\* to one while an operation for the other was still creating it.
LinkedOnce ==
  \A g \in Ids, n \in Nodes :
    Live(g) /\ ws[g].at[n] # None => ~LinkedBeyond(g, ws[g].at[n].owner)

\* One global Workspace at most has the name that the projects reserve, however
\* they are requested, joined, dropped, completed, closed and requested again.
NamedOnce == Cardinality({g \in Ids : Live(g) /\ ws[g].project}) <= 1

\* Nothing is pending for a global Workspace that is closing.
ClosingIsQuiet ==
  \A g \in Ids : Live(g) /\ ws[g].closing => NoPending(g)

\* A placement never shows a revision that its owner Workspace has not reached,
\* and at the owner's revision it shows the owner's directory; unless the
\* owner Workspace was closed and made once more.
MirrorHonest ==
  \A g \in Ids, n \in Nodes : Live(g) /\ ws[g].at[n] # None =>
    LET p == ws[g].at[n] IN
    p.owner \notin shut =>
      /\ p.revision <= own[p.owner].revision
      /\ p.revision = own[p.owner].revision => p.cwd = own[p.owner].cwd

\* A close drops a placement only after its owner Workspace has been closed
\* (a request given up on may have created it once more), or when its Node
\* has been forgotten.
ClosedIsGone ==
  [][\A g \in Ids, n \in Nodes :
       Live(g) /\ ws[g].at[n] # None
         /\ (~Live(g)' \/ ws'[g].at[n] = None) =>
         ws[g].at[n].owner \in shut \/ n \notin known]_vars
=============================================================================
