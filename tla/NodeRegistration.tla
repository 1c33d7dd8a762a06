-------------------------- MODULE NodeRegistration --------------------------
(***************************************************************************)
(* NodeRegistrationManager (src/node_registration.rs): the table of remote *)
(* Nodes one daemon routes to.  Routed requests reserve admission under    *)
(* the revision they inspected; retarget and forget close admission and    *)
(* wait on a condition variable for the reservations to be given back;     *)
(* upgrade and uninstall clients hold a maintenance lease that expires.    *)
(* Every method runs under one mutex, which only the two drain loops give  *)
(* up while they wait, so a method is one step and a drain is several.     *)
(* The file holds the snapshots only and is written before memory changes, *)
(* so the persisted part of reg stands for it as well.                     *)
(***************************************************************************)
EXTENDS Naturals, FiniteSets

CONSTANTS
  Nodes,         \* Node IDs that may be registered
  Targets,       \* SSH targets
  Operations,    \* handlers of routed requests
  Editors,       \* handlers of retarget and forget requests
  Upgraders,     \* upgrade and uninstall clients, each of which tries once
  NoOne,         \* no lease
  MaxRevision,   \* bound on registration revisions
  MaxTombstone,  \* bound on tombstone epochs
  MaxEpoch,      \* bound on the times one registration's admission closes
  MaxRestarts    \* bound on daemon restarts

ASSUME RegistrationAssumption ==
  /\ Nodes # {} /\ Targets # {} /\ NoOne \notin Upgraders
  /\ {MaxRevision, MaxTombstone, MaxEpoch, MaxRestarts} \subseteq Nat
  /\ IsFiniteSet(Operations)

VARIABLES
  reg,        \* RegistrationState.registrations; revision 0: not registered
  revision,   \* RegistrationState.revision
  tombstone,  \* RegistrationState.tombstone_epoch
  op,         \* routed requests
  edit,       \* retarget and forget requests
  upgrade,    \* upgrade and uninstall clients
  restarts

regVars == <<reg, revision, tombstone, op, edit, upgrade, restarts>>

Registration ==
  [target : Targets, revision : Nat, tombstone : Nat, open : BOOLEAN,
   epoch : Nat, admitted : Nat, lease : Upgraders \cup {NoOne},
   lapsed : BOOLEAN]

\* A routed request: "called" while its request may reach its target.
SnapshotType ==
  [node : Nodes, revision : Nat, tombstone : Nat, target : Targets]
OpSteps == {"idle", "inspected", "called", "released"}
EditKinds == {"retarget", "forget"}
EditSteps == {"idle", "waiting", "cleanup"}
UpgradeSteps == {"start", "waiting", "held", "cleanup", "done"}

Blank == [target |-> CHOOSE t \in Targets : TRUE, revision |-> 0,
          tombstone |-> 0, open |-> TRUE, epoch |-> 0, admitted |-> 0,
          lease |-> NoOne, lapsed |-> FALSE]

\* A request that has ended keeps nothing.
IdleOp == [pc |-> "idle", at |-> [node |-> CHOOSE n \in Nodes : TRUE,
             revision |-> 0, tombstone |-> 0, target |-> Blank.target]]
IdleEdit == [pc |-> "idle", node |-> CHOOSE n \in Nodes : TRUE,
             kind |-> "forget", target |-> Blank.target, revision |-> 0]
DoneUpgrade == [pc |-> "done", node |-> CHOOSE n \in Nodes : TRUE,
                revision |-> 0]

Registered(n) == reg[n].revision # 0

\* expire_maintenance, with which most methods begin.
ExpireOne(r) ==
  IF r.lease # NoOne /\ r.lapsed
  THEN [r EXCEPT !.lease = NoOne, !.lapsed = FALSE, !.open = TRUE] ELSE r
Expired == [n \in Nodes |-> ExpireOne(reg[n])]

\* The comparison admit, observe and with_current make with a snapshot.
IsCurrent(r, snapshot) ==
  r.revision = snapshot.revision /\ r.tombstone = snapshot.tombstone /\ r.open

Snapshot(n) == [node |-> n, revision |-> reg[n].revision,
                tombstone |-> reg[n].tombstone, target |-> reg[n].target]

-----------------------------------------------------------------------------
(* Routed requests: inspect, admit, the remote call, release, with_current.*)

Inspect(o, n) ==
  /\ op[o].pc = "idle" /\ Registered(n)
  /\ op' = [op EXCEPT ![o] = [pc |-> "inspected", at |-> Snapshot(n)]]
  /\ UNCHANGED <<reg, revision, tombstone, edit, upgrade, restarts>>

AdmitClosed(o) ==
  LET n == op[o].at.node
      r == Expired[n] IN
  /\ op[o].pc = "inspected"
  /\ reg' = [Expired EXCEPT ![n].admitted = @ + 1]
  /\ op' = [op EXCEPT ![o].pc = "called"]
  /\ r.revision = op[o].at.revision /\ r.tombstone = op[o].at.tombstone
  /\ UNCHANGED <<revision, tombstone, edit, upgrade, restarts>>
Admit(o) ==
  LET n == op[o].at.node IN
  /\ op[o].pc = "inspected"
  /\ IsCurrent(Expired[n], op[o].at)
  /\ reg' = [Expired EXCEPT ![n].admitted = @ + 1]
  /\ op' = [op EXCEPT ![o].pc = "called"]
  /\ UNCHANGED <<revision, tombstone, edit, upgrade, restarts>>

AdmitRefused(o) ==
  /\ op[o].pc = "inspected"
  /\ ~IsCurrent(Expired[op[o].at.node], op[o].at)
  /\ reg' = Expired
  /\ op' = [op EXCEPT ![o] = IdleOp]
  /\ UNCHANGED <<revision, tombstone, edit, upgrade, restarts>>

\* release: a registration whose revision has changed keeps the reservation.
Release(o) ==
  LET n == op[o].at.node IN
  /\ op[o].pc = "called"
  /\ reg' = IF Registered(n) /\ reg[n].revision = op[o].at.revision
                 /\ reg[n].admitted > 0
            THEN [reg EXCEPT ![n].admitted = @ - 1] ELSE reg
  /\ op' = [op EXCEPT ![o].pc = "released"]
  /\ UNCHANGED <<revision, tombstone, edit, upgrade, restarts>>

Revalidate(o) ==
  /\ op[o].pc = "released"
  /\ reg' = Expired
  /\ op' = [op EXCEPT ![o] = IdleOp]
  /\ UNCHANGED <<revision, tombstone, edit, upgrade, restarts>>

-----------------------------------------------------------------------------
(* add and rename.  A failed save leaves everything as it was.             *)

Add(n, t) ==
  /\ ~Registered(n) /\ revision < MaxRevision
  /\ \A m \in Nodes : Registered(m) => reg[m].target # t
  /\ reg' = [reg EXCEPT ![n] = [Blank EXCEPT !.target = t,
               !.revision = revision + 1, !.tombstone = tombstone]]
  /\ revision' = revision + 1
  /\ UNCHANGED <<tombstone, op, edit, upgrade, restarts>>

Rename(n) ==
  /\ Registered(n) /\ Expired[n].open /\ revision < MaxRevision
  /\ reg' = [Expired EXCEPT ![n].revision = revision + 1]
  /\ revision' = revision + 1
  /\ UNCHANGED <<tombstone, op, edit, upgrade, restarts>>

-----------------------------------------------------------------------------
(* prepare_drain_commit, for retarget and forget.                          *)

\* The admission a failed or finished drain leaves behind.
Reopened(r) == [r EXCEPT !.open = (r.lease = NoOne)]

\* The registrations after the mutate closure of edit request x: its target
\* may be the current one, or another registration's (TargetTaken).
TargetTaken(x) ==
  \E m \in Nodes \ {x.node} : Registered(m) /\ reg[m].target = x.target
Retargeted(f, x) ==
  LET r == f[x.node]
      moved == IF r.target = x.target THEN r
               ELSE [r EXCEPT !.target = x.target, !.revision = revision + 1]
  IN [f EXCEPT ![x.node] = Reopened(moved)]

\* The drain reached zero: mutate, save, and only then replace memory.
Commit(e, x, f) ==
  \/ /\ x.kind = "forget" /\ tombstone < MaxTombstone
     /\ reg' = [f EXCEPT ![x.node] = Blank]
     /\ tombstone' = tombstone + 1
     /\ edit' = [edit EXCEPT ![e] = [x EXCEPT !.pc = "cleanup"]]
     /\ UNCHANGED revision
  \/ /\ x.kind = "retarget" /\ ~TargetTaken(x) /\ revision < MaxRevision
     /\ reg' = Retargeted(f, x)
     /\ revision' = IF f[x.node].target = x.target THEN revision
                    ELSE revision + 1
     /\ edit' = [edit EXCEPT ![e] = [x EXCEPT !.pc = "cleanup"]]
     /\ UNCHANGED tombstone
  \/ \* the closure or the save failed
     /\ reg' = [f EXCEPT ![x.node] = Reopened(@)]
     /\ edit' = [edit EXCEPT ![e] = IdleEdit]
     /\ UNCHANGED <<revision, tombstone>>

\* A retarget finds admission open; a forget may also bypass a lease.
BeginEdit(e, n, kind, t) ==
  LET r == Expired[n]
      x == [pc |-> "waiting", node |-> n, kind |-> kind, target |-> t,
            revision |-> r.revision]
      f == [Expired EXCEPT ![n].open = FALSE, ![n].epoch = @ + 1] IN
  /\ edit[e].pc = "idle" /\ Registered(n) /\ r.epoch < MaxEpoch
  /\ r.open \/ (kind = "forget" /\ r.lease # NoOne)
  /\ IF r.admitted = 0 THEN Commit(e, x, f)
     ELSE /\ reg' = f
          /\ edit' = [edit EXCEPT ![e] = x]
          /\ UNCHANGED <<revision, tombstone>>
  /\ UNCHANGED <<op, upgrade, restarts>>

\* Woken: require_revision, then the count, then commit under the same lock.
WakeEditUnchecked(e) ==
  LET x == edit[e] IN
  /\ x.pc = "waiting"
  /\ IF reg[x.node].revision # x.revision
     THEN /\ edit' = [edit EXCEPT ![e] = IdleEdit]
          /\ UNCHANGED <<reg, revision, tombstone>>
     ELSE Commit(e, x, reg)
  /\ UNCHANGED <<op, upgrade, restarts>>
WakeEdit(e) ==
  LET x == edit[e] IN
  /\ x.pc = "waiting"
  /\ IF reg[x.node].revision # x.revision
     THEN /\ edit' = [edit EXCEPT ![e] = IdleEdit]
          /\ UNCHANGED <<reg, revision, tombstone>>
     ELSE reg[x.node].admitted = 0 /\ Commit(e, x, reg)
  /\ UNCHANGED <<op, upgrade, restarts>>

\* Timed out: admission is restored without another look at the revision.
TimeoutEditOpens(e) ==
  LET x == edit[e] IN
  /\ x.pc = "waiting"
  /\ reg' = [reg EXCEPT ![x.node].open = TRUE, ![x.node].lease = NoOne]
  /\ edit' = [edit EXCEPT ![e] = IdleEdit]
  /\ UNCHANGED <<revision, tombstone, op, upgrade, restarts>>
TimeoutEdit(e) ==
  LET x == edit[e] IN
  /\ x.pc = "waiting"
  /\ reg' = IF Registered(x.node) THEN [reg EXCEPT ![x.node] = Reopened(@)]
            ELSE reg
  /\ edit' = [edit EXCEPT ![e] = IdleEdit]
  /\ UNCHANGED <<revision, tombstone, op, upgrade, restarts>>

\* The request handler goes on to remove the disposable projection.
CleanedUp(e) ==
  /\ edit[e].pc = "cleanup"
  /\ edit' = [edit EXCEPT ![e] = IdleEdit]
  /\ UNCHANGED <<reg, revision, tombstone, op, upgrade, restarts>>

-----------------------------------------------------------------------------
(* Maintenance leases.                                                     *)

BeginUpgrade(u, n) ==
  LET r == Expired[n] IN
  /\ upgrade[u].pc = "start" /\ Registered(n) /\ r.open /\ r.epoch < MaxEpoch
  /\ reg' = [Expired EXCEPT ![n].open = FALSE, ![n].epoch = @ + 1,
                            ![n].lease = u, ![n].lapsed = FALSE]
  /\ upgrade' = [upgrade EXCEPT ![u] =
       [pc |-> IF r.admitted = 0 THEN "held" ELSE "waiting", node |-> n,
        revision |-> r.revision]]
  /\ UNCHANGED <<revision, tombstone, op, edit, restarts>>

\* The drain loop compares the revision and the count, not the lease.
WakeUpgrade(u) ==
  LET r == reg[upgrade[u].node] IN
  /\ upgrade[u].pc = "waiting"
  /\ r.revision # upgrade[u].revision \/ r.admitted = 0
  /\ upgrade' = [upgrade EXCEPT ![u] =
       IF r.revision # upgrade[u].revision THEN DoneUpgrade
       ELSE [@ EXCEPT !.pc = "held"]]
  /\ UNCHANGED <<reg, revision, tombstone, op, edit, restarts>>

\* Timed out: whatever registration the selector names now is opened and
\* whatever lease it has is dropped.
TimeoutUpgrade(u) ==
  LET n == upgrade[u].node IN
  /\ upgrade[u].pc = "waiting"
  /\ reg' = IF Registered(n)
            THEN [reg EXCEPT ![n].open = TRUE, ![n].lease = NoOne,
                             ![n].lapsed = FALSE]
            ELSE reg
  /\ upgrade' = [upgrade EXCEPT ![u] = DoneUpgrade]
  /\ UNCHANGED <<revision, tombstone, op, edit, restarts>>

Holds(u) == Expired[upgrade[u].node].lease = u

\* finish_upgrade_maintenance; a token that is not current changes nothing.
FinishUpgrade(u) ==
  LET n == upgrade[u].node IN
  /\ upgrade[u].pc = "held"
  /\ reg' = IF Holds(u)
            THEN [Expired EXCEPT ![n].open = TRUE, ![n].lease = NoOne]
            ELSE Expired
  /\ upgrade' = [upgrade EXCEPT ![u] = DoneUpgrade]
  /\ UNCHANGED <<revision, tombstone, op, edit, restarts>>

\* finish_uninstall_maintenance: the registration goes while admission is
\* still closed.
FinishUninstall(u) ==
  LET n == upgrade[u].node IN
  /\ upgrade[u].pc = "held" /\ Holds(u) /\ Expired[n].admitted = 0
  /\ tombstone < MaxTombstone
  /\ reg' = [Expired EXCEPT ![n] = Blank]
  /\ tombstone' = tombstone + 1
  /\ upgrade' = [upgrade EXCEPT ![u].pc = "cleanup"]
  /\ UNCHANGED <<revision, op, edit, restarts>>

UninstallCleanedUp(u) ==
  /\ upgrade[u].pc = "cleanup"
  /\ upgrade' = [upgrade EXCEPT ![u] = DoneUpgrade]
  /\ UNCHANGED <<reg, revision, tombstone, op, edit, restarts>>

\* renew_upgrade_maintenance; a client whose lease is gone gives up.
Renew(u) ==
  LET n == upgrade[u].node IN
  /\ upgrade[u].pc = "held"
  /\ reg' = IF Holds(u) THEN [Expired EXCEPT ![n].lapsed = FALSE] ELSE Expired
  /\ upgrade' = IF Holds(u) THEN upgrade
                ELSE [upgrade EXCEPT ![u] = DoneUpgrade]
  /\ UNCHANGED <<revision, tombstone, op, edit, restarts>>

\* A lease lasts ten minutes and the drain that begins it 250 ms, so a lease
\* lapses only after its client has been answered.
LeaseLapses(n) ==
  /\ reg[n].lease # NoOne /\ upgrade[reg[n].lease].pc # "waiting"
  /\ reg' = [reg EXCEPT ![n].lapsed = TRUE]
  /\ UNCHANGED <<revision, tombstone, op, edit, upgrade, restarts>>

\* has_active_upgrade_maintenance, and every method that expires leases and
\* then returns an error.
Sweep ==
  /\ reg' = Expired
  /\ UNCHANGED <<revision, tombstone, op, edit, upgrade, restarts>>

\* load_at in a new process: admission opens, counts and leases start over.
\* Clients of the old process have lost it.
Restart ==
  /\ restarts < MaxRestarts
  /\ restarts' = restarts + 1
  /\ reg' = [n \in Nodes |-> [Blank EXCEPT !.target = reg[n].target,
               !.revision = reg[n].revision, !.tombstone = reg[n].tombstone]]
  /\ op' = [o \in Operations |-> IdleOp]
  /\ edit' = [e \in Editors |-> IdleEdit]
  /\ upgrade' = [u \in Upgraders |->
       IF upgrade[u].pc = "start" THEN upgrade[u] ELSE DoneUpgrade]
  /\ UNCHANGED <<revision, tombstone>>

-----------------------------------------------------------------------------
RegistrationInit ==
  /\ reg = [m \in Nodes |-> Blank]
  /\ revision = 0 /\ tombstone = 0 /\ restarts = 0
  /\ op = [o \in Operations |-> IdleOp]
  /\ edit = [e \in Editors |-> IdleEdit]
  /\ upgrade = [u \in Upgraders |-> [DoneUpgrade EXCEPT !.pc = "start"]]

\* The steps that leave the projection cache alone.
RegistrationStep ==
  \/ \E o \in Operations : \/ \E n \in Nodes : Inspect(o, n)
                           \/ Admit(o) \/ AdmitRefused(o)
                           \/ Release(o) \/ Revalidate(o)
  \/ \E n \in Nodes : Rename(n) \/ LeaseLapses(n)
  \/ \E e \in Editors :
       \/ \E n \in Nodes, kind \in EditKinds, t \in Targets :
            BeginEdit(e, n, kind, t)
       \/ WakeEdit(e) \/ TimeoutEdit(e)
  \/ \E u \in Upgraders :
       \/ \E n \in Nodes : BeginUpgrade(u, n)
       \/ WakeUpgrade(u) \/ TimeoutUpgrade(u)
       \/ FinishUpgrade(u) \/ FinishUninstall(u) \/ Renew(u)
  \/ Sweep

RegistrationNext ==
  \/ RegistrationStep \/ Restart
  \/ \E n \in Nodes, t \in Targets : Add(n, t)
  \/ \E e \in Editors : CleanedUp(e)
  \/ \E u \in Upgraders : UninstallCleanedUp(u)

RegistrationSpec == RegistrationInit /\ [][RegistrationNext]_regVars

-----------------------------------------------------------------------------
(* Properties.                                                             *)

\* Every count and revision is a natural number, every reference a Node.
RegistrationTypeOK ==
  /\ reg \in [Nodes -> Registration]
  /\ revision \in Nat /\ tombstone \in Nat /\ restarts \in Nat
  /\ op \in [Operations -> [pc : OpSteps, at : SnapshotType]]
  /\ edit \in [Editors -> [pc : EditSteps, node : Nodes, kind : EditKinds,
                            target : Targets, revision : Nat]]
  /\ upgrade \in [Upgraders -> [pc : UpgradeSteps, node : Nodes,
                                 revision : Nat]]

\* While a routed request can still reach its target, its registration has
\* neither been retargeted nor forgotten: a retarget or forget commits only
\* once the drain has seen every reservation given back.
RouteDrained ==
  \A o \in Operations : op[o].pc = "called" =>
    /\ Registered(op[o].at.node)
    /\ reg[op[o].at.node].target = op[o].at.target
    /\ reg[op[o].at.node].tombstone = op[o].at.tombstone

\* Between the answer that granted a maintenance lease and the lease's end no
\* routed request is in flight to the Node, whatever renames, forgets, drains
\* that time out and lease expiries happen meanwhile.
UpgradeExclusive ==
  \A u \in Upgraders :
    upgrade[u].pc = "held" /\ reg[upgrade[u].node].lease = u =>
      /\ ~reg[upgrade[u].node].open
      /\ \A o \in Operations :
           op[o].at.node = upgrade[u].node => op[o].pc # "called"

\* A granted lease that has not lapsed is not taken from its client unless the
\* registration is forgotten, the daemon restarts, or the drain of a client
\* that was granted nothing times out late, which compares neither revision
\* nor lease: no expiry, failed edit or other client's answer drops it.
LeaseKept ==
  [][\A u \in Upgraders :
       LET n == upgrade[u].node IN
       upgrade[u].pc = "held" /\ Registered(n) /\ reg[n].lease = u
         /\ ~reg[n].lapsed =>
         \/ reg'[n].lease = u \/ upgrade'[u].pc # "held"
         \/ reg'[n].revision = 0
         \/ \E v \in Upgraders \ {u} : TimeoutUpgrade(v)]_regVars
=============================================================================
