--------------------------- MODULE NodeProjection ---------------------------
(***************************************************************************)
(* The projection of a remote Node: NodeProjectionCache                    *)
(* (src/node_projection.rs), the worker that synchronises it               *)
(* (node_projection_worker in src/daemon.rs), and the registrations it     *)
(* composes with.  The owner is another daemon: it applies an Agent        *)
(* observation, publishes it as an event, and answers SyncNodeProjection   *)
(* with what it holds in memory and the events after a cursor.  A cache    *)
(* mutation is saved before memory changes, so cache stands for the file.  *)
(***************************************************************************)
EXTENDS NodeRegistration, Sequences, Functions

CONSTANTS
  MaxGeneration,  \* bound on cache generations, less its tombstone epoch
  MaxEvents       \* bound on events of an owner's stream

ASSUME ProjectionAssumption ==
  {MaxGeneration, MaxEvents} \subseteq Nat

VARIABLES
  cache,     \* CacheState.nodes; generation 0: no entry
  worker,    \* node_projection_worker threads
  starting,  \* Nodes whose add request has still to start the worker
  owner,     \* the remote daemons
  told,      \* the claims notified on their own, those notified again, and
             \* how often the claims each cache entry keeps were discarded
  crossed    \* Nodes whose admission closed since the worker observed it

projVars == <<cache, worker, starting, owner, told, crossed>>
vars == <<regVars, projVars>>

NoCursor == [stream |-> 0, id |-> 0]
NoEntry == [generation |-> 0, tombstone |-> 0, online |-> FALSE,
            cursor |-> NoCursor, shell |-> FALSE,
            claims |-> {}, dismissed |-> FALSE]
NoSync == [ok |-> FALSE, resumed |-> FALSE, cursor |-> NoCursor,
           agent |-> 0, shell |-> FALSE, changes |-> {}]
WorkerSteps == {"off", "top", "read", "observe", "fetch", "commit", "claim",
                "notify", "exiting"}
NoWorker == [pc |-> "off", at |-> IdleOp.at,
             generation |-> 0, after |-> NoCursor, epoch |-> 0,
             sync |-> NoSync, tell |-> {}]

\* cursor_and_generation, and the generation commit_projection and
\* mark_health compare: an entry of another tombstone epoch counts as none.
Generation(e, at) == IF e.tombstone = at.tombstone THEN e.generation ELSE 0

-----------------------------------------------------------------------------
(* The owner.                                                              *)

\* Only a fetch reads the owner, and nothing else of this daemon is read by
\* it: owner steps commute with all others and are taken during a fetch.
Asked(n) == worker[n].pc = "fetch"

\* MaxRestarts bounds the restarts of all daemons together, a stream each.
Restarts == restarts + SumFunction([n \in Nodes |-> owner[n].stream - 1])

\* MaxEvents is for the first stream; a later one gets fewer.
WithinEvents(n) == owner[n].stream + Len(owner[n].log) <= MaxEvents

\* Memory is ahead of the event stream until the state is persisted.
OwnerApplies(n) ==
  /\ Asked(n) /\ ~owner[n].ahead /\ WithinEvents(n)
  /\ owner' = [owner EXCEPT ![n].agent = @ + 1, ![n].ahead = TRUE]
  /\ UNCHANGED <<regVars, cache, worker, starting, told, crossed>>

OwnerPublishes(n) ==
  /\ Asked(n) /\ owner[n].ahead
  /\ owner' = [owner EXCEPT ![n].log = Append(@, owner[n].agent),
                            ![n].ahead = FALSE]
  /\ UNCHANGED <<regVars, cache, worker, starting, told, crossed>>

\* Another event of the same Agent with the same observation revision.
OwnerRepeats(n) ==
  /\ Asked(n) /\ ~owner[n].ahead /\ owner[n].agent > 0 /\ WithinEvents(n)
  /\ owner' = [owner EXCEPT ![n].log = Append(@, owner[n].agent)]
  /\ UNCHANGED <<regVars, cache, worker, starting, told, crossed>>

OwnerClosesShell(n) ==
  /\ Asked(n) /\ owner[n].shell
  /\ owner' = [owner EXCEPT ![n].shell = FALSE]
  /\ UNCHANGED <<regVars, cache, worker, starting, told, crossed>>

OwnerRestarts(n) ==
  /\ Asked(n) /\ Restarts < MaxRestarts
  /\ owner' = [owner EXCEPT ![n].stream = @ + 1, ![n].log = <<>>,
                 ![n].ahead = FALSE,
                 ![n].agent = IF owner[n].ahead THEN @ - 1 ELSE @]
  /\ UNCHANGED <<regVars, cache, worker, starting, told, crossed>>

\* node_projection_sync with projection_transitions: a cursor of this stream
\* resumes if the events after it are all retained and not too many; any
\* other gets a baseline without transitions.
Sync(w, o, retained) ==
  LET resumed == /\ w.after.stream = o.stream /\ w.after.id <= Len(o.log)
                 /\ w.after.id < Len(o.log) => retained IN
  [ok |-> TRUE, resumed |-> resumed,
   cursor |-> [stream |-> o.stream, id |-> Len(o.log)],
   agent |-> o.agent, shell |-> o.shell,
   changes |-> IF resumed
               THEN {o.log[i] : i \in (w.after.id + 1)..Len(o.log)} ELSE {}]

-----------------------------------------------------------------------------
(* node_projection_worker.  Each step is one lock taken and given back.    *)

WorkerInspect(n) ==
  /\ worker[n].pc = "top"
  /\ worker' = IF Registered(n)
               THEN [worker EXCEPT ![n] = [NoWorker EXCEPT !.pc = "read",
                                                           !.at = Snapshot(n)]]
               ELSE [worker EXCEPT ![n] = [NoWorker EXCEPT !.pc = "exiting"]]
  /\ UNCHANGED <<regVars, cache, starting, owner, told, crossed>>

WorkerExits(n) ==
  /\ worker[n].pc = "exiting"
  /\ worker' = [worker EXCEPT ![n].pc = "off"]
  /\ UNCHANGED <<regVars, cache, starting, owner, told, crossed>>

WorkerReadsCursor(n) ==
  LET w == worker[n] IN
  /\ w.pc = "read"
  /\ worker' = [worker EXCEPT ![n].pc = "observe",
       ![n].generation = Generation(cache[n], w.at),
       ![n].after = IF cache[n].tombstone = w.at.tombstone
                    THEN cache[n].cursor ELSE NoCursor]
  /\ UNCHANGED <<regVars, cache, starting, owner, told, crossed>>

\* observe: without a current, open registration the worker starts over.
WorkerObserves(n) ==
  LET w == worker[n]
      current == IsCurrent(Expired[n], w.at) /\ Expired[n].target = w.at.target
  IN
  /\ w.pc = "observe"
  /\ reg' = Expired
  /\ worker' = IF current
               THEN [worker EXCEPT ![n].pc = "fetch",
                                   ![n].epoch = Expired[n].epoch]
               ELSE [worker EXCEPT ![n] = [NoWorker EXCEPT !.pc = "top"]]
  /\ crossed' = crossed \ {n}
  /\ UNCHANGED <<revision, tombstone, op, edit, upgrade, restarts,
                 cache, starting, owner, told>>

\* fetch_node_projection: an answer, or an error with a health code.
WorkerFetches(n) ==
  /\ worker[n].pc = "fetch"
  /\ \E sync \in {Sync(worker[n], owner[n], TRUE),
                   Sync(worker[n], owner[n], FALSE), NoSync} :
       worker' = [worker EXCEPT ![n].pc = "commit", ![n].sync = sync,
                                ![n].after = NoCursor]
  /\ UNCHANGED <<regVars, cache, starting, owner, told, crossed>>

\* with_observation.
StillObserved(n) ==
  LET r == Expired[n]
      w == worker[n] IN
  IsCurrent(r, w.at) /\ r.target = w.at.target /\ r.epoch = w.epoch

\* commit_projection: the whole entry is replaced; claims and dismissals of
\* the same tombstone epoch are kept, the latter if their Shell is present.
CommitAll(e, w) ==
  [generation |-> w.generation + 1, tombstone |-> w.at.tombstone,
   online |-> TRUE, cursor |-> w.sync.cursor,
   shell |-> w.sync.shell, claims |-> e.claims, dismissed |-> FALSE]
CommitProjection(e, w) ==
  LET same == e.generation # 0 /\ e.tombstone = w.at.tombstone IN
  [generation |-> w.generation + 1, tombstone |-> w.at.tombstone,
   online |-> TRUE, cursor |-> w.sync.cursor,
   shell |-> w.sync.shell,
   claims |-> IF same THEN e.claims ELSE {},
   dismissed |-> same /\ e.dismissed /\ w.sync.shell]

\* mark_health: an entry of another tombstone epoch is kept and restamped.
MarkHealth(e, w) ==
  [e EXCEPT !.generation = w.generation + 1, !.tombstone = w.at.tombstone,
            !.online = FALSE]

\* remote_notification_candidates: transitions of a resumed stream whose
\* revision is the projected one; a claim names stream and revision.
Candidates(e, w) ==
  IF /\ w.sync.resumed /\ e.generation # 0 /\ e.tombstone = w.at.tombstone
     /\ e.cursor.stream = w.sync.cursor.stream
     /\ e.cursor.id <= w.sync.cursor.id
  THEN {<<w.sync.cursor.stream, r>> : r \in w.sync.changes \cap {w.sync.agent}}
  ELSE {}

Discarded(n) ==
  IF cache[n].claims = {} THEN told ELSE [told EXCEPT !.lives[n] = @ + 1]

\* The commit and the classification of its transitions.  After a stale or
\* unreachable health one digest replaces the individual notifications.
WorkerCommitsAnyEpoch(n) ==
  LET w == worker[n]
      ok == IsCurrent(Expired[n], w.at) /\ Expired[n].target = w.at.target
            /\ Generation(cache[n], w.at) = w.generation IN
  /\ w.pc = "commit" /\ w.generation + w.at.tombstone < MaxGeneration
  /\ reg' = Expired
  /\ cache' = IF ~ok THEN cache ELSE
       [cache EXCEPT ![n] = IF w.sync.ok THEN CommitProjection(@, w)
                            ELSE MarkHealth(@, w)]
  /\ worker' = [worker EXCEPT ![n] = [NoWorker EXCEPT !.pc = "top"]]
  /\ UNCHANGED <<revision, tombstone, op, edit, upgrade, restarts,
                 starting, owner, told, crossed>>
WorkerCommits(n) ==
  LET w == worker[n]
      ok == StillObserved(n) /\ Generation(cache[n], w.at) = w.generation
      candidates == IF ok /\ w.sync.ok THEN Candidates(cache[n], w) ELSE {} IN
  /\ w.pc = "commit" /\ w.generation + w.at.tombstone < MaxGeneration
  /\ reg' = Expired
  /\ cache' = IF ~ok THEN cache ELSE
       [cache EXCEPT ![n] = IF w.sync.ok THEN CommitProjection(@, w)
                            ELSE MarkHealth(@, w)]
  /\ worker' = IF candidates = {} \/ ~cache[n].online
               THEN [worker EXCEPT ![n] = [NoWorker EXCEPT !.pc = "top"]]
               ELSE [worker EXCEPT ![n].pc = "claim", ![n].tell = candidates,
                       ![n].sync = [NoSync EXCEPT !.cursor = w.sync.cursor]]
  /\ told' = IF ok /\ w.sync.ok /\ cache[n].tombstone # w.at.tombstone
             THEN Discarded(n) ELSE told
  /\ UNCHANGED <<revision, tombstone, op, edit, upgrade, restarts,
                 starting, owner, crossed>>

\* The cache could not be saved.
WorkerCommitFails(n) ==
  /\ worker[n].pc = "commit"
  /\ reg' = Expired
  /\ worker' = [worker EXCEPT ![n] = [NoWorker EXCEPT !.pc = "top"]]
  /\ UNCHANGED <<revision, tombstone, op, edit, upgrade, restarts,
                 cache, starting, owner, told, crossed>>

\* claim_notifications: claims are saved before anything is delivered.
WorkerClaimsAgain(n) ==
  LET w == worker[n] IN
  /\ w.pc = "claim"
  /\ reg' = Expired
  /\ worker' = [worker EXCEPT ![n].pc = "notify", ![n].tell =
                  {<<n, told.lives[n], c>> : c \in @}]
  /\ cache' = [cache EXCEPT ![n].claims = @ \cup w.tell]
  /\ UNCHANGED <<revision, tombstone, op, edit, upgrade, restarts,
                 starting, owner, told, crossed>>
WorkerClaims(n) ==
  LET w == worker[n]
      ok == /\ StillObserved(n) /\ cache[n].tombstone = w.at.tombstone
            /\ cache[n].cursor = w.sync.cursor IN
  /\ w.pc = "claim"
  /\ reg' = Expired
  /\ worker' = IF ok /\ w.tell \ cache[n].claims # {}
               THEN [worker EXCEPT ![n].pc = "notify", ![n].tell =
                       {<<n, told.lives[n], c>> : c \in @ \ cache[n].claims}]
               ELSE [worker EXCEPT ![n] = [NoWorker EXCEPT !.pc = "top"]]
  /\ cache' = IF ok THEN [cache EXCEPT ![n].claims = @ \cup w.tell] ELSE cache
  /\ UNCHANGED <<revision, tombstone, op, edit, upgrade, restarts,
                 starting, owner, told, crossed>>

WorkerNotifies(n) ==
  /\ worker[n].pc = "notify"
  /\ told' = [told EXCEPT !.once = @ \cup worker[n].tell,
                          !.again = @ \cup (told.once \cap worker[n].tell)]
  /\ worker' = [worker EXCEPT ![n] = [NoWorker EXCEPT !.pc = "top"]]
  /\ UNCHANGED <<regVars, cache, starting, owner, crossed>>

-----------------------------------------------------------------------------
(* The requests that touch the cache.                                      *)

\* dismiss_shell and restore_dismissed_shells, of a Node that is not online.
DismissShell(n) ==
  /\ Registered(n) /\ cache[n].tombstone = reg[n].tombstone
  /\ cache[n].generation # 0 /\ ~cache[n].online
  /\ cache[n].shell /\ ~cache[n].dismissed
  /\ cache' = [cache EXCEPT ![n].dismissed = TRUE]
  /\ UNCHANGED <<regVars, worker, starting, owner, told, crossed>>

RestoreShells(n) ==
  /\ Registered(n) /\ cache[n].tombstone = reg[n].tombstone
  /\ cache[n].dismissed
  /\ cache' = [cache EXCEPT ![n].dismissed = FALSE]
  /\ UNCHANGED <<regVars, worker, starting, owner, told, crossed>>

\* AddNodeRegistration: the registration, and then its worker.  A worker that
\* has not ended yet is taken for a running one.
AddNode(n, t) ==
  /\ Add(n, t) /\ n \notin starting
  /\ starting' = starting \cup {n}
  /\ UNCHANGED <<cache, worker, owner, told, crossed>>

StartWorker(n) ==
  /\ n \in starting
  /\ starting' = starting \ {n}
  /\ worker' = IF worker[n].pc = "off"
               THEN [worker EXCEPT ![n] = [NoWorker EXCEPT !.pc = "top"]]
               ELSE worker
  /\ UNCHANGED <<regVars, cache, owner, told, crossed>>

\* After retarget, forget and uninstall the handler removes the projection;
\* a removal that cannot be saved is only logged.
Removed(n) ==
  \/ /\ cache' = [cache EXCEPT ![n] = NoEntry]
     /\ told' = Discarded(n)
  \/ UNCHANGED <<cache, told>>
RemoveProjection ==
  /\ \/ \E e \in Editors : CleanedUp(e) /\ Removed(edit[e].node)
     \/ \E u \in Upgraders : UninstallCleanedUp(u) /\ Removed(upgrade[u].node)
  /\ UNCHANGED <<worker, starting, owner, crossed>>

\* A new daemon process: load_at marks every online entry stale, and
\* start_node_projection_workers starts a worker per registration.
DaemonRestarts ==
  /\ Restart /\ Restarts < MaxRestarts
  /\ cache' = [n \in Nodes |-> [cache[n] EXCEPT !.online = FALSE]]
  /\ worker' = [n \in Nodes |->
       [NoWorker EXCEPT !.pc = IF Registered(n) THEN "top" ELSE "off"]]
  /\ starting' = {}
  /\ UNCHANGED <<owner, told, crossed>>

\* A registration step under the worker's feet.
Registrations ==
  /\ RegistrationStep
  /\ crossed' = crossed \cup {n \in Nodes : reg[n].open /\ ~reg'[n].open}
  /\ UNCHANGED <<cache, worker, starting, owner, told>>

Init ==
  /\ RegistrationInit
  /\ cache = [n \in Nodes |-> NoEntry]
  /\ worker = [n \in Nodes |-> NoWorker]
  /\ starting = {} /\ crossed = {}
  /\ owner = [n \in Nodes |-> [stream |-> 1, log |-> <<>>, agent |-> 0,
                               ahead |-> FALSE, shell |-> TRUE]]
  /\ told = [once |-> {}, again |-> {}, lives |-> [n \in Nodes |-> 0]]

Next ==
  \/ Registrations \/ RemoveProjection \/ DaemonRestarts
  \/ \E n \in Nodes :
       \/ \E t \in Targets : AddNode(n, t)
       \/ StartWorker(n) \/ DismissShell(n) \/ RestoreShells(n)
       \/ OwnerApplies(n) \/ OwnerPublishes(n) \/ OwnerRepeats(n)
       \/ OwnerClosesShell(n) \/ OwnerRestarts(n)
       \/ WorkerInspect(n) \/ WorkerExits(n) \/ WorkerReadsCursor(n)
       \/ WorkerObserves(n) \/ WorkerFetches(n) \/ WorkerCommits(n)
       \/ WorkerCommitFails(n) \/ WorkerClaims(n) \/ WorkerNotifies(n)

Spec == Init /\ [][Next]_vars

-----------------------------------------------------------------------------
(* Properties.                                                             *)

\* The same for the cache, its workers and the owners.
TypeOK ==
  /\ RegistrationTypeOK
  /\ \A n \in Nodes :
       /\ {cache[n].generation, cache[n].tombstone} \subseteq Nat
       /\ worker[n].pc \in WorkerSteps /\ worker[n].at \in SnapshotType
       /\ {owner[n].agent, owner[n].stream} \subseteq Nat
       /\ Range(owner[n].log) \subseteq 1..owner[n].agent
  /\ starting \subseteq Nodes

\* Whatever Agent events the owner repeats and wherever either daemon
\* restarts, an Agent revision of one event stream is notified at most once
\* while the Node's cache entry, and with it the claims, is kept.
NotifiedOnce == told.again = {}

\* A projection or health read over the network is not committed when the
\* Node's admission has closed since the worker observed the registration,
\* even if it is open again: maintenance discards what it overlapped.
NothingCrosses ==
  [][\A n \in Nodes :
       cache'[n].generation > cache[n].generation => n \notin crossed]_vars

\* A dismissed Shell stays hidden while the owner still projects it: only a
\* restore, the owner closing it or the removal of the entry brings it back.
DismissedStaysHidden ==
  [][\A n \in Nodes :
       /\ cache[n].dismissed /\ cache'[n].generation # 0
       /\ cache'[n].tombstone = cache[n].tombstone
       /\ cache'[n].shell /\ ~cache'[n].dismissed
       => RestoreShells(n)]_vars
=============================================================================
