----------------------- MODULE NodeRegistrationProofs -----------------------
(***************************************************************************)
(* Routing and maintenance exclusion of the registrations, for any Nodes,   *)
(* targets and clients, and any finite set of routed requests; and what the *)
(* projection workers that run beside them promise, for any owners, events  *)
(* and restarts.                                                            *)
(***************************************************************************)
EXTENDS NodeProjection, FiniteSetTheorems, TLAPS

\* The routed requests that hold a reservation of n.
Called(n) == {o \in Operations : op[o].pc = "called" /\ op[o].at.node = n}

\* A reservation is counted until its request gives it back; a rename may
\* leave more counted than are held, never fewer.
Counted == \A n \in Nodes : Cardinality(Called(n)) <= reg[n].admitted

\* A snapshot names one target for as long as its revision is the current one.
SnapshotFresh ==
  \A o \in Operations : op[o].pc \in {"inspected", "called"} =>
    /\ op[o].at.revision # 0 /\ op[o].at.revision <= revision
    /\ op[o].at.revision = reg[op[o].at.node].revision =>
         op[o].at.target = reg[op[o].at.node].target

RevisionsIssued == \A n \in Nodes : reg[n].revision <= revision

RouteInv == Counted /\ RouteDrained /\ SnapshotFresh /\ RevisionsIssued

\* A leased registration is closed, and a granted lease found it drained.
LeaseShut == \A n \in Nodes : reg[n].lease # NoOne => ~reg[n].open
HeldDrained ==
  \A u \in Upgraders :
    upgrade[u].pc = "held" /\ reg[upgrade[u].node].lease = u =>
      reg[upgrade[u].node].admitted = 0

LeaseInv == LeaseShut /\ HeldDrained

-----------------------------------------------------------------------------
(* What a step may do to one registration.                                  *)

SameRoute(n) ==
  /\ reg'[n].target = reg[n].target /\ reg'[n].revision = reg[n].revision
  /\ reg'[n].tombstone = reg[n].tombstone /\ reg'[n].admitted = reg[n].admitted
Renamed(n) ==
  /\ Registered(n)
  /\ reg'[n].target = reg[n].target /\ reg'[n].revision = revision + 1
  /\ reg'[n].tombstone = reg[n].tombstone /\ reg'[n].admitted = reg[n].admitted
Replaced(n) ==
  /\ reg[n].admitted = 0 \/ ~Registered(n)
  /\ reg'[n].revision \in {0, revision + 1}
RouteStep ==
  /\ op' = op /\ revision' >= revision
  /\ \A n \in Nodes :
       /\ SameRoute(n) \/ Renamed(n) \/ Replaced(n)
       /\ reg'[n].revision <= revision'

LEMMA BlankType == Blank \in Registration /\ Blank.target \in Targets
BY RegistrationAssumption DEF Blank, Registration

\* expire_maintenance touches no route and leaves no lease without a closed
\* admission.
LEMMA ExpiredFacts ==
  ASSUME RegistrationTypeOK
  PROVE  /\ Expired \in [Nodes -> Registration]
         /\ \A n \in Nodes :
              /\ Expired[n].target = reg[n].target
              /\ Expired[n].revision = reg[n].revision
              /\ Expired[n].tombstone = reg[n].tombstone
              /\ Expired[n].admitted = reg[n].admitted
              /\ Expired[n].lease \in {reg[n].lease, NoOne}
              /\ Expired[n].lease # NoOne => Expired[n].open = reg[n].open
<1>1. \A n \in Nodes : reg[n] \in Registration
  BY DEF RegistrationTypeOK
<1>2. \A n \in Nodes : ExpireOne(reg[n]) \in Registration
  BY <1>1 DEF ExpireOne, Registration
<1>3. Expired \in [Nodes -> Registration]
  BY <1>2 DEF Expired
<1>4. \A n \in Nodes : Expired[n] = ExpireOne(reg[n])
  BY DEF Expired
<1> QED
  BY <1>1, <1>3, <1>4 DEF ExpireOne, Registration

LEMMA CalledFinite ==
  \A n \in Nodes : IsFiniteSet(Called(n)) /\ Cardinality(Called(n)) \in Nat
<1> SUFFICES ASSUME NEW n \in Nodes
             PROVE  IsFiniteSet(Called(n)) /\ Cardinality(Called(n)) \in Nat
  OBVIOUS
<1>1. Called(n) \in SUBSET Operations
  BY DEF Called
<1> QED
  BY <1>1, FS_Subset, FS_CardinalityType, RegistrationAssumption

\* Nothing is in flight where nothing is counted.
LEMMA DrainedIsIdle ==
  ASSUME RegistrationTypeOK, Counted, NEW n \in Nodes, reg[n].admitted = 0
  PROVE  \A o \in Operations : op[o].at.node = n => op[o].pc # "called"
<1>1. Cardinality(Called(n)) = 0
  BY CalledFinite DEF Counted
<1>2. Called(n) = {}
  BY <1>1, CalledFinite, FS_EmptySet
<1> QED
  BY <1>2 DEF Called

\* The steps that leave the routed requests alone.
LEMMA RouteStepKeeps ==
  ASSUME RegistrationTypeOK, RegistrationTypeOK', RouteInv, RouteStep
  PROVE  RouteInv'
<1> DEFINE idle(n) == \A o \in Operations : op[o].at.node = n => op[o].pc # "called"
<1>1. \A n \in Nodes : reg[n] \in Registration /\ reg'[n] \in Registration
  BY DEF RegistrationTypeOK
<1>2. \A n \in Nodes : Replaced(n) => idle(n)
  <2> SUFFICES ASSUME NEW n \in Nodes, Replaced(n) PROVE idle(n)
    OBVIOUS
  <2>1. CASE reg[n].admitted = 0
    BY <2>1, DrainedIsIdle DEF RouteInv
  <2>2. CASE ~Registered(n)
    BY <2>2 DEF RouteInv, RouteDrained
  <2> QED BY <2>1, <2>2 DEF Replaced
<1>3. Counted'
  <2> SUFFICES ASSUME NEW n \in Nodes
               PROVE  Cardinality(Called(n)') <= reg'[n].admitted
    BY DEF Counted
  <2>1. Called(n)' = Called(n)
    BY DEF Called, RouteStep
  <2>2. CASE SameRoute(n) \/ Renamed(n)
    BY <2>1, <2>2 DEF RouteInv, Counted, SameRoute, Renamed
  <2>3. CASE Replaced(n)
    <3>1. Called(n) = {}
      BY <1>2, <2>3 DEF Called
    <3> QED
      BY <1>1, <2>1, <3>1, FS_EmptySet DEF Registration
  <2> QED BY <2>2, <2>3 DEF RouteStep
<1>4. RouteDrained'
  <2> SUFFICES ASSUME NEW o \in Operations, op[o].pc = "called"
               PROVE  /\ reg'[op[o].at.node].revision # 0
                      /\ reg'[op[o].at.node].target = op[o].at.target
                      /\ reg'[op[o].at.node].tombstone = op[o].at.tombstone
    BY DEF RouteDrained, Registered, RouteStep
  <2> DEFINE n == op[o].at.node
  <2>1. n \in Nodes
    BY DEF RegistrationTypeOK, SnapshotType
  <2>2. SameRoute(n) \/ Renamed(n)
    BY <1>2, <2>1 DEF RouteStep
  <2>3. /\ reg[n].revision # 0 /\ reg[n].target = op[o].at.target
        /\ reg[n].tombstone = op[o].at.tombstone
    BY DEF RouteInv, RouteDrained, Registered
  <2>4. revision \in Nat
    BY DEF RegistrationTypeOK
  <2> QED BY <2>2, <2>3, <2>4 DEF SameRoute, Renamed
<1>5. SnapshotFresh'
  <2> SUFFICES ASSUME NEW o \in Operations, op[o].pc \in {"inspected", "called"}
               PROVE  /\ op[o].at.revision # 0 /\ op[o].at.revision <= revision'
                      /\ op[o].at.revision = reg'[op[o].at.node].revision =>
                           op[o].at.target = reg'[op[o].at.node].target
    BY DEF SnapshotFresh, RouteStep
  <2> DEFINE n == op[o].at.node
  <2>1. n \in Nodes /\ op[o].at.revision \in Nat /\ revision \in Nat /\ revision' \in Nat
    BY DEF RegistrationTypeOK, SnapshotType
  <2>2. /\ op[o].at.revision # 0 /\ op[o].at.revision <= revision
        /\ op[o].at.revision = reg[n].revision => op[o].at.target = reg[n].target
    BY DEF RouteInv, SnapshotFresh
  <2>3. SameRoute(n) \/ Renamed(n) \/ Replaced(n)
    BY <2>1 DEF RouteStep
  <2> QED BY <2>1, <2>2, <2>3 DEF SameRoute, Renamed, Replaced, RouteStep
<1>6. RevisionsIssued'
  BY DEF RevisionsIssued, RouteStep
<1> QED BY <1>3, <1>4, <1>5, <1>6 DEF RouteInv

-----------------------------------------------------------------------------
(* Types, one lemma per group of methods.                                   *)

OpType == [pc : OpSteps, at : SnapshotType]
EditType == [pc : EditSteps, node : Nodes, kind : EditKinds,
             target : Targets, revision : Nat]
UpgradeType == [pc : UpgradeSteps, node : Nodes, revision : Nat]

LEMMA IdleTypes ==
  IdleOp \in OpType /\ IdleEdit \in EditType /\ DoneUpgrade \in UpgradeType
BY BlankType, RegistrationAssumption
DEF IdleOp, IdleEdit, DoneUpgrade, OpType, EditType, UpgradeType, SnapshotType,
    OpSteps, EditSteps, EditKinds, UpgradeSteps

LEMMA TypeParts ==
  ASSUME RegistrationTypeOK
  PROVE  /\ reg \in [Nodes -> Registration] /\ op \in [Operations -> OpType]
         /\ edit \in [Editors -> EditType] /\ upgrade \in [Upgraders -> UpgradeType]
         /\ revision \in Nat /\ tombstone \in Nat /\ restarts \in Nat
BY DEF RegistrationTypeOK, OpType, EditType, UpgradeType

\* The types of the next state, from those of its parts.
LEMMA TypeNext ==
  ASSUME reg' \in [Nodes -> Registration], op' \in [Operations -> OpType],
         edit' \in [Editors -> EditType], upgrade' \in [Upgraders -> UpgradeType],
         revision' \in Nat, tombstone' \in Nat, restarts' \in Nat
  PROVE  RegistrationTypeOK'
BY DEF RegistrationTypeOK, OpType, EditType, UpgradeType

LEMMA OpTypes ==
  ASSUME RegistrationTypeOK, NEW o \in Operations,
         \/ \E n \in Nodes : Inspect(o, n)
         \/ Admit(o) \/ AdmitRefused(o) \/ Release(o) \/ Revalidate(o)
  PROVE  RegistrationTypeOK'
<1> USE TypeParts, ExpiredFacts
<1>0. op[o] \in OpType /\ op[o].at.node \in Nodes
  BY DEF OpType, SnapshotType
<1>1. CASE \E n \in Nodes : Inspect(o, n)
  <2> PICK n \in Nodes : Inspect(o, n) BY <1>1
  <2>1. reg[n] \in Registration OBVIOUS
  <2>2. Snapshot(n) \in SnapshotType
    BY <2>1 DEF Snapshot, SnapshotType, Registration
  <2>3. [pc |-> "inspected", at |-> Snapshot(n)] \in OpType
    BY <2>2 DEF OpType, OpSteps
  <2>4. op' \in [Operations -> OpType]
    BY <2>3 DEF Inspect
  <2> QED BY <2>4, TypeNext DEF Inspect
<1>2. CASE Admit(o)
  <2> DEFINE n == op[o].at.node
  <2>1. Expired[n] \in Registration
    BY <1>0
  <2>a. Expired[n].admitted + 1 \in Nat
    BY <2>1 DEF Registration
  <2>b. \A k \in Nat : [Expired[n] EXCEPT !.admitted = k] \in Registration
    BY <2>1 DEF Registration
  <2>2. [Expired[n] EXCEPT !.admitted = @ + 1] \in Registration
    BY <2>a, <2>b
  <2>3. reg' \in [Nodes -> Registration]
    BY <1>2, <2>2 DEF Admit
  <2>4. [op[o] EXCEPT !.pc = "called"] \in OpType
    BY <1>0 DEF OpType, OpSteps
  <2>5. op' \in [Operations -> OpType]
    BY <1>2, <2>4 DEF Admit
  <2> QED BY <1>2, <2>3, <2>5, TypeNext DEF Admit
<1>3. CASE AdmitRefused(o)
  <2>1. op' \in [Operations -> OpType]
    BY <1>3, IdleTypes DEF AdmitRefused
  <2> QED BY <1>3, <2>1, TypeNext DEF AdmitRefused
<1>4. CASE Release(o)
  <2> DEFINE n == op[o].at.node
  <2>1. reg[n] \in Registration
    BY <1>0
  <2>a. reg[n].admitted > 0 => reg[n].admitted - 1 \in Nat
    BY <2>1 DEF Registration
  <2>b. \A k \in Nat : [reg[n] EXCEPT !.admitted = k] \in Registration
    BY <2>1 DEF Registration
  <2>2. reg[n].admitted > 0 => [reg[n] EXCEPT !.admitted = @ - 1] \in Registration
    BY <2>a, <2>b
  <2>3. reg' \in [Nodes -> Registration]
    BY <1>4, <2>2 DEF Release
  <2>4. [op[o] EXCEPT !.pc = "released"] \in OpType
    BY <1>0 DEF OpType, OpSteps
  <2>5. op' \in [Operations -> OpType]
    BY <1>4, <2>4 DEF Release
  <2> QED BY <1>4, <2>3, <2>5, TypeNext DEF Release
<1>5. CASE Revalidate(o)
  <2>1. op' \in [Operations -> OpType]
    BY <1>5, IdleTypes DEF Revalidate
  <2> QED BY <1>5, <2>1, TypeNext DEF Revalidate
<1> QED BY <1>1, <1>2, <1>3, <1>4, <1>5

\* The registrations a drain starts from, whatever it has changed before.
Drained(f) ==
  /\ f \in [Nodes -> Registration]
  /\ \A n \in Nodes :
       /\ f[n].target = reg[n].target /\ f[n].revision = reg[n].revision
       /\ f[n].tombstone = reg[n].tombstone /\ f[n].admitted = reg[n].admitted
       /\ f[n].lease \in {reg[n].lease, NoOne}
       /\ f[n].lease # NoOne => ~f[n].open

\* What a step may do to leases and their clients, the grant of one excepted.
LeaseStep ==
  /\ \A n \in Nodes :
       /\ reg'[n].lease \in {reg[n].lease, NoOne}
       /\ reg'[n].lease # NoOne => ~reg'[n].open /\ reg'[n].admitted <= reg[n].admitted
  /\ \A u \in Upgraders :
       upgrade'[u].pc = "held" =>
         upgrade[u].pc = "held" /\ upgrade'[u].node = upgrade[u].node

LEMMA LeaseStepKeeps ==
  ASSUME RegistrationTypeOK, RegistrationTypeOK', LeaseInv, LeaseStep
  PROVE  LeaseInv'
<1>1. \A n \in Nodes : reg[n].admitted \in Nat /\ reg'[n].admitted \in Nat
  BY DEF RegistrationTypeOK, Registration
<1>2. \A u \in Upgraders : upgrade[u].node \in Nodes /\ u # NoOne
  BY RegistrationAssumption DEF RegistrationTypeOK
<1>3. LeaseShut'
  BY DEF LeaseShut, LeaseStep
<1>4. HeldDrained'
  <2> SUFFICES ASSUME NEW u \in Upgraders, upgrade'[u].pc = "held",
                      reg'[upgrade'[u].node].lease = u
               PROVE  reg'[upgrade'[u].node].admitted = 0
    BY DEF HeldDrained
  <2> DEFINE n == upgrade[u].node
  <2>1. upgrade[u].pc = "held" /\ upgrade'[u].node = n /\ n \in Nodes
    BY <1>2 DEF LeaseStep
  <2>2. reg[n].lease = u /\ reg'[n].admitted <= reg[n].admitted
    BY <1>2, <2>1 DEF LeaseStep
  <2>3. reg[n].admitted = 0
    BY <2>1, <2>2 DEF LeaseInv, HeldDrained
  <2> QED BY <1>1, <2>1, <2>2, <2>3
<1> QED BY <1>3, <1>4 DEF LeaseInv

-----------------------------------------------------------------------------
(* prepare_drain_commit.                                                    *)

\* The next state of an edit request's step, in terms of both invariants.
Preserved == RegistrationTypeOK' /\ RouteStep /\ LeaseStep

LEMMA ReopenedFacts ==
  ASSUME NEW r \in Registration
  PROVE  /\ Reopened(r) \in Registration
         /\ Reopened(r).target = r.target /\ Reopened(r).revision = r.revision
         /\ Reopened(r).tombstone = r.tombstone /\ Reopened(r).admitted = r.admitted
         /\ Reopened(r).lease = r.lease /\ (r.lease # NoOne => ~Reopened(r).open)
BY DEF Reopened, Registration

LEMMA RetargetedFacts ==
  ASSUME RegistrationTypeOK, NEW f, Drained(f), NEW x \in EditType
  PROVE  LET r == Retargeted(f, x)[x.node] IN
         /\ Retargeted(f, x) = [f EXCEPT ![x.node] = r] /\ r \in Registration
         /\ r.lease = f[x.node].lease /\ (r.lease # NoOne => ~r.open)
         /\ r.admitted = f[x.node].admitted /\ r.tombstone = f[x.node].tombstone
         /\ IF f[x.node].target = x.target
            THEN r.target = f[x.node].target /\ r.revision = f[x.node].revision
            ELSE r.revision = revision + 1
<1> DEFINE r == f[x.node]
           moved == [r EXCEPT !.target = x.target, !.revision = revision + 1]
<1>1. x.node \in Nodes /\ x.target \in Targets /\ revision \in Nat
  BY DEF EditType, RegistrationTypeOK
<1>2. r \in Registration
  BY <1>1 DEF Drained
<1>3. /\ moved \in Registration /\ moved.lease = r.lease
      /\ moved.admitted = r.admitted /\ moved.tombstone = r.tombstone
      /\ moved.revision = revision + 1
  <2>1. revision + 1 \in Nat
    BY <1>1
  <2>2. \A k \in Nat : [r EXCEPT !.target = x.target, !.revision = k] \in Registration
    BY <1>1, <1>2 DEF Registration
  <2>3. moved \in Registration
    BY <2>1, <2>2
  <2> QED BY <1>2, <2>3 DEF Registration
<1>4. DOMAIN f = Nodes
  BY DEF Drained
<1>5. CASE r.target = x.target
  <2>1. Retargeted(f, x) = [f EXCEPT ![x.node] = Reopened(r)]
    BY <1>5 DEF Retargeted
  <2>2. Retargeted(f, x)[x.node] = Reopened(r)
    BY <1>1, <1>4, <2>1
  <2> QED BY <1>2, <1>5, <2>1, <2>2, ReopenedFacts, ZenonT(90)
<1>6. CASE r.target # x.target
  <2>1. Retargeted(f, x) = [f EXCEPT ![x.node] = Reopened(moved)]
    BY <1>6 DEF Retargeted
  <2>2. Retargeted(f, x)[x.node] = Reopened(moved)
    BY <1>1, <1>4, <2>1
  <2> HIDE DEF moved
  <2> QED BY <1>3, <1>6, <2>1, <2>2, ReopenedFacts
<1> QED BY <1>5, <1>6

LEMMA CommitKeeps ==
  ASSUME RegistrationTypeOK, RouteInv, NEW e \in Editors, NEW x \in EditType,
         NEW f, Drained(f), reg[x.node].admitted = 0, Commit(e, x, f),
         UNCHANGED <<op, upgrade, restarts>>
  PROVE  Preserved
<1> USE TypeParts
<1> DEFINE n == x.node
<1>0. /\ n \in Nodes /\ f[n] \in Registration /\ DOMAIN f = Nodes
      /\ \A m \in Nodes : f[m] \in Registration
      /\ \A m \in Nodes : reg[m].revision <= revision
      /\ \A m \in Nodes : reg[m].admitted \in Nat /\ reg[m].revision \in Nat
      /\ revision \in Nat
  BY DEF EditType, Drained, RouteInv, RevisionsIssued, Registration
<1>1. [x EXCEPT !.pc = "cleanup"] \in EditType /\ IdleEdit \in EditType
  BY IdleTypes DEF EditType, EditSteps
<1>2. CASE /\ x.kind = "forget" /\ reg' = [f EXCEPT ![n] = Blank]
           /\ tombstone' = tombstone + 1
           /\ edit' = [edit EXCEPT ![e] = [x EXCEPT !.pc = "cleanup"]]
           /\ UNCHANGED revision
  <2>1. RegistrationTypeOK'
    <3>1. reg' \in [Nodes -> Registration]
      BY <1>0, <1>2, BlankType DEF Drained
    <3>2. edit' \in [Editors -> EditType]
      BY <1>1, <1>2
    <3> QED BY <1>2, <3>1, <3>2, TypeNext
  <2>2. reg'[n] = Blank /\ \A m \in Nodes : m # n => reg'[m] = f[m]
    BY <1>0, <1>2
  <2>3. RouteStep
    BY <1>0, <1>2, <2>2
    DEF RouteStep, SameRoute, Replaced, Drained, Blank
  <2>4. LeaseStep
    BY <1>0, <1>2, <2>2 DEF LeaseStep, Drained, Blank
  <2> QED BY <2>1, <2>3, <2>4 DEF Preserved
<1>3. CASE /\ reg' = Retargeted(f, x)
           /\ revision' = IF f[n].target = x.target THEN revision ELSE revision + 1
           /\ edit' = [edit EXCEPT ![e] = [x EXCEPT !.pc = "cleanup"]]
           /\ UNCHANGED tombstone
  <2> DEFINE r == Retargeted(f, x)[n]
  <2>0. /\ Retargeted(f, x) = [f EXCEPT ![n] = r] /\ r \in Registration
        /\ r.lease = f[n].lease /\ (r.lease # NoOne => ~r.open)
        /\ r.admitted = f[n].admitted /\ r.tombstone = f[n].tombstone
        /\ IF f[n].target = x.target
           THEN r.target = f[n].target /\ r.revision = f[n].revision
           ELSE r.revision = revision + 1
    BY RetargetedFacts
  <2> HIDE DEF r
  <2>1. RegistrationTypeOK'
    <3>1. reg' \in [Nodes -> Registration]
      BY <1>0, <1>3, <2>0 DEF Drained
    <3>2. edit' \in [Editors -> EditType]
      BY <1>1, <1>3
    <3>3. revision' \in Nat
      BY <1>0, <1>3
    <3> QED BY <1>3, <3>1, <3>2, <3>3, TypeNext
  <2>2. reg'[n] = r /\ \A m \in Nodes : m # n => reg'[m] = f[m]
    BY <1>0, <1>3, <2>0
  <2>3. RouteStep
    <3>1. \A m \in Nodes : m # n => SameRoute(m)
      BY <2>2 DEF Drained, SameRoute
    <3>2. SameRoute(n) \/ Replaced(n)
      BY <1>0, <2>0, <2>2 DEF Drained, SameRoute, Replaced
    <3>3. revision' \in {revision, revision + 1}
          /\ (reg'[n].revision = revision + 1 => revision' >= reg'[n].revision)
      BY <1>0, <1>3, <2>0, <2>2 DEF Drained
    <3>4. \A m \in Nodes : reg'[m].revision <= revision'
      BY <1>0, <1>3, <2>0, <2>2, <3>3 DEF Drained
    <3> QED BY <1>0, <3>1, <3>2, <3>3, <3>4 DEF RouteStep
  <2>4. LeaseStep
    BY <1>0, <1>3, <2>0, <2>2 DEF LeaseStep, Drained
  <2> QED BY <2>1, <2>3, <2>4 DEF Preserved
<1>4. CASE /\ reg' = [f EXCEPT ![n] = Reopened(@)]
           /\ edit' = [edit EXCEPT ![e] = IdleEdit]
           /\ UNCHANGED <<revision, tombstone>>
  <2> DEFINE r == Reopened(f[n])
  <2>0. /\ reg' = [f EXCEPT ![n] = r] /\ r \in Registration
        /\ r.target = f[n].target /\ r.revision = f[n].revision
        /\ r.tombstone = f[n].tombstone /\ r.admitted = f[n].admitted
        /\ r.lease = f[n].lease /\ (r.lease # NoOne => ~r.open)
    BY <1>0, <1>4, ReopenedFacts
  <2> HIDE DEF r
  <2>1. RegistrationTypeOK'
    <3>1. reg' \in [Nodes -> Registration]
      BY <1>0, <2>0 DEF Drained
    <3>2. edit' \in [Editors -> EditType]
      BY <1>1, <1>4
    <3> QED BY <1>4, <3>1, <3>2, TypeNext
  <2>2. reg'[n] = r /\ \A m \in Nodes : m # n => reg'[m] = f[m]
    BY <1>0, <2>0
  <2>3. \A m \in Nodes : SameRoute(m)
    BY <1>0, <2>0, <2>2 DEF SameRoute, Drained
  <2>4. RouteStep
    BY <1>0, <1>4, <2>3 DEF RouteStep, SameRoute
  <2>5. LeaseStep
    BY <1>0, <1>4, <2>0, <2>2 DEF LeaseStep, Drained
  <2> QED BY <2>1, <2>4, <2>5 DEF Preserved
<1> QED BY <1>2, <1>3, <1>4 DEF Commit

LEMMA EditKeeps ==
  ASSUME RegistrationTypeOK, RouteInv, LeaseInv, NEW e \in Editors,
         \/ \E n \in Nodes, kind \in EditKinds, t \in Targets :
              BeginEdit(e, n, kind, t)
         \/ WakeEdit(e) \/ TimeoutEdit(e) \/ CleanedUp(e)
  PROVE  Preserved
<1> USE TypeParts
<1>0. /\ edit[e] \in EditType /\ edit[e].node \in Nodes /\ revision \in Nat
      /\ \A m \in Nodes : reg[m] \in Registration
      /\ \A m \in Nodes : reg[m].revision <= revision
      /\ \A m \in Nodes : reg[m].admitted \in Nat /\ reg[m].revision \in Nat
      /\ \A m \in Nodes : reg[m].lease # NoOne => ~reg[m].open
  BY DEF EditType, RouteInv, RevisionsIssued, Registration, LeaseInv, LeaseShut
<1>1. CASE \E n \in Nodes, kind \in EditKinds, t \in Targets : BeginEdit(e, n, kind, t)
  <2> PICK n \in Nodes, kind \in EditKinds, t \in Targets : BeginEdit(e, n, kind, t)
    BY <1>1
  <2> DEFINE r == Expired[n]
             x == [pc |-> "waiting", node |-> n, kind |-> kind, target |-> t,
                   revision |-> r.revision]
             closed == [r EXCEPT !.open = FALSE, !.epoch = @ + 1]
             f == [Expired EXCEPT ![n].open = FALSE, ![n].epoch = @ + 1]
  <2>1. r \in Registration /\ Expired \in [Nodes -> Registration]
    BY ExpiredFacts
  <2>2. x \in EditType /\ x.node = n
    BY <2>1 DEF EditType, EditSteps, Registration
  <2>3. /\ closed \in Registration /\ closed.target = r.target
        /\ closed.revision = r.revision /\ closed.tombstone = r.tombstone
        /\ closed.admitted = r.admitted /\ closed.lease = r.lease /\ ~closed.open
    <3>1. r.epoch + 1 \in Nat
      BY <2>1 DEF Registration
    <3>2. \A k \in Nat : [r EXCEPT !.open = FALSE, !.epoch = k] \in Registration
      BY <2>1 DEF Registration
    <3>3. closed = [r EXCEPT !.open = FALSE, !.epoch = r.epoch + 1]
      OBVIOUS
    <3>4. closed \in Registration
      BY <3>1, <3>2, <3>3
    <3> QED BY <2>1, <3>3, <3>4 DEF Registration
  <2>4. f = [Expired EXCEPT ![n] = closed]
    BY <2>1
  <2> HIDE DEF closed
  <2>5. f[n] = closed /\ \A m \in Nodes : m # n => f[m] = Expired[m]
    BY <2>1, <2>4
  <2>6. Drained(f)
    BY <1>0, <2>1, <2>3, <2>4, <2>5, ExpiredFacts DEF Drained
  <2>7. CASE r.admitted = 0
    <3>1. Commit(e, x, f)
      BY <2>7 DEF BeginEdit
    <3>2. UNCHANGED <<op, upgrade, restarts>>
      BY DEF BeginEdit
    <3>3. reg[x.node].admitted = 0
      BY <2>2, <2>7, ExpiredFacts
    <3> HIDE DEF f, x
    <3> QED BY <2>2, <2>6, <3>1, <3>2, <3>3, CommitKeeps
  <2>8. CASE r.admitted # 0
    <3>1. /\ reg' = f /\ edit' = [edit EXCEPT ![e] = x]
          /\ UNCHANGED <<revision, tombstone, op, upgrade, restarts>>
      BY <2>8 DEF BeginEdit
    <3> HIDE DEF f, x
    <3>2. RegistrationTypeOK'
      <4>1. reg' \in [Nodes -> Registration] BY <2>6, <3>1 DEF Drained
      <4>2. edit' \in [Editors -> EditType] BY <2>2, <3>1
      <4> QED BY <3>1, <4>1, <4>2, TypeNext
    <3>3. RouteStep
      BY <1>0, <2>6, <3>1 DEF Drained, RouteStep, SameRoute
    <3>4. LeaseStep
      BY <1>0, <2>6, <3>1 DEF Drained, LeaseStep
    <3> QED BY <3>2, <3>3, <3>4 DEF Preserved
  <2> QED BY <2>7, <2>8
<1>2. CASE WakeEdit(e)
  <2> DEFINE x == edit[e]
  <2>1. CASE reg[x.node].revision # x.revision
    <3>1. /\ edit' = [edit EXCEPT ![e] = IdleEdit]
          /\ UNCHANGED <<reg, revision, tombstone, op, upgrade, restarts>>
      BY <1>2, <2>1 DEF WakeEdit
    <3>2. RegistrationTypeOK'
      <4>1. edit' \in [Editors -> EditType] BY <3>1, IdleTypes
      <4> QED BY <3>1, <4>1, TypeNext
    <3>3. RouteStep
      BY <1>0, <3>1 DEF RouteStep, SameRoute
    <3>4. LeaseStep
      BY <1>0, <3>1 DEF LeaseStep
    <3> QED BY <3>2, <3>3, <3>4 DEF Preserved
  <2>2. CASE reg[x.node].revision = x.revision
    <3>1. /\ reg[x.node].admitted = 0 /\ Commit(e, x, reg)
          /\ UNCHANGED <<op, upgrade, restarts>>
      BY <1>2, <2>2 DEF WakeEdit
    <3>2. Drained(reg)
      BY <1>0 DEF Drained
    <3> QED BY <1>0, <3>1, <3>2, CommitKeeps
  <2> QED BY <2>1, <2>2
<1>3. CASE TimeoutEdit(e)
  <2> DEFINE n == edit[e].node
             r == Reopened(reg[n])
  <2>0. /\ r \in Registration /\ r.target = reg[n].target
        /\ r.revision = reg[n].revision /\ r.tombstone = reg[n].tombstone
        /\ r.admitted = reg[n].admitted /\ r.lease = reg[n].lease
        /\ (r.lease # NoOne => ~r.open)
    BY <1>0, ReopenedFacts
  <2>1. /\ reg' = reg \/ reg' = [reg EXCEPT ![n] = r]
        /\ edit' = [edit EXCEPT ![e] = IdleEdit]
        /\ UNCHANGED <<revision, tombstone, op, upgrade, restarts>>
    BY <1>3 DEF TimeoutEdit
  <2> HIDE DEF r
  <2>2. RegistrationTypeOK'
    <3>1. reg' \in [Nodes -> Registration] BY <1>0, <2>0, <2>1
    <3>2. edit' \in [Editors -> EditType] BY <2>1, IdleTypes
    <3> QED BY <2>1, <3>1, <3>2, TypeNext
  <2>3. /\ reg'[n] \in {r, reg[n]}
        /\ \A m \in Nodes : m # n => reg'[m] = reg[m]
    BY <1>0, <2>1
  <2>4. \A m \in Nodes : SameRoute(m)
    BY <2>0, <2>3 DEF SameRoute
  <2>5. RouteStep
    BY <1>0, <2>1, <2>4 DEF RouteStep, SameRoute
  <2>6. LeaseStep
    BY <1>0, <2>0, <2>1, <2>3 DEF LeaseStep
  <2> QED BY <2>2, <2>5, <2>6 DEF Preserved
<1>4. CASE CleanedUp(e)
  <2>1. /\ edit' = [edit EXCEPT ![e] = IdleEdit]
        /\ UNCHANGED <<reg, revision, tombstone, op, upgrade, restarts>>
    BY <1>4 DEF CleanedUp
  <2>2. RegistrationTypeOK'
    <3>1. edit' \in [Editors -> EditType] BY <2>1, IdleTypes
    <3> QED BY <2>1, <3>1, TypeNext
  <2>3. RouteStep
    BY <1>0, <2>1 DEF RouteStep, SameRoute
  <2>4. LeaseStep
    BY <1>0, <2>1 DEF LeaseStep
  <2> QED BY <2>2, <2>3, <2>4 DEF Preserved
<1> QED BY <1>1, <1>2, <1>3, <1>4

LEMMA TableKeeps ==
  ASSUME RegistrationTypeOK, RouteInv, LeaseInv,
         \/ \E n \in Nodes : Rename(n) \/ LeaseLapses(n)
         \/ \E n \in Nodes, t \in Targets : Add(n, t)
         \/ Sweep
  PROVE  Preserved
<1> USE TypeParts
<1>0. /\ revision \in Nat /\ Blank \in Registration
      /\ \A m \in Nodes : reg[m] \in Registration
      /\ \A m \in Nodes : reg[m].revision <= revision
      /\ \A m \in Nodes : reg[m].admitted \in Nat /\ reg[m].revision \in Nat
      /\ \A m \in Nodes : reg[m].lease # NoOne => ~reg[m].open
  BY BlankType DEF RouteInv, RevisionsIssued, Registration, LeaseInv, LeaseShut
<1>a. /\ Expired \in [Nodes -> Registration]
      /\ \A m \in Nodes : Expired[m].lease # NoOne => ~Expired[m].open
  BY <1>0, ExpiredFacts
<1>1. ASSUME NEW n \in Nodes, Rename(n) PROVE Preserved
  <2> DEFINE r == [Expired[n] EXCEPT !.revision = revision + 1]
  <2>0. /\ r \in Registration /\ r.revision = revision + 1
        /\ r.target = reg[n].target /\ r.tombstone = reg[n].tombstone
        /\ r.admitted = reg[n].admitted /\ r.lease = Expired[n].lease
        /\ r.open = Expired[n].open
    <3>1. Expired[n] \in Registration /\ revision + 1 \in Nat BY <1>0, <1>a
    <3>2. r \in Registration BY <3>1 DEF Registration
    <3> QED BY <3>1, <3>2, ExpiredFacts DEF Registration
  <2>1. /\ reg' = [Expired EXCEPT ![n] = r] /\ revision' = revision + 1
        /\ Registered(n) /\ UNCHANGED <<tombstone, op, edit, upgrade, restarts>>
    BY <1>1, <1>a DEF Rename
  <2> HIDE DEF r
  <2>2. reg'[n] = r /\ \A m \in Nodes : m # n => reg'[m] = Expired[m]
    BY <1>a, <2>1
  <2>3. RegistrationTypeOK'
    BY <1>0, <1>a, <2>0, <2>1, TypeNext
  <2>4. RouteStep
    BY <1>0, <2>0, <2>1, <2>2, ExpiredFacts DEF RouteStep, SameRoute, Renamed
  <2>5. LeaseStep
    BY <1>0, <1>a, <2>0, <2>1, <2>2, ExpiredFacts DEF LeaseStep
  <2> QED BY <2>3, <2>4, <2>5 DEF Preserved
<1>2. ASSUME NEW n \in Nodes, LeaseLapses(n) PROVE Preserved
  <2> DEFINE r == [reg[n] EXCEPT !.lapsed = TRUE]
  <2>0. /\ r \in Registration /\ r.revision = reg[n].revision
        /\ r.target = reg[n].target /\ r.tombstone = reg[n].tombstone
        /\ r.admitted = reg[n].admitted /\ r.lease = reg[n].lease
        /\ r.open = reg[n].open
    BY <1>0 DEF Registration
  <2>1. /\ reg' = [reg EXCEPT ![n] = r]
        /\ UNCHANGED <<revision, tombstone, op, edit, upgrade, restarts>>
    BY <1>2 DEF LeaseLapses
  <2> HIDE DEF r
  <2>2. reg'[n] = r /\ \A m \in Nodes : m # n => reg'[m] = reg[m]
    BY <1>0, <2>1
  <2>3. RegistrationTypeOK'
    BY <1>0, <2>0, <2>1, TypeNext
  <2>4. RouteStep
    BY <1>0, <2>0, <2>1, <2>2 DEF RouteStep, SameRoute
  <2>5. LeaseStep
    BY <1>0, <2>0, <2>1, <2>2 DEF LeaseStep
  <2> QED BY <2>3, <2>4, <2>5 DEF Preserved
<1>3. ASSUME NEW n \in Nodes, NEW t \in Targets, Add(n, t) PROVE Preserved
  <2> DEFINE r == [Blank EXCEPT !.target = t, !.revision = revision + 1,
                                !.tombstone = tombstone]
  <2>0. /\ r \in Registration /\ r.revision = revision + 1 /\ r.lease = NoOne
    <3>1. revision + 1 \in Nat /\ tombstone \in Nat
      BY <1>0
    <3>2. \A k, l \in Nat : [Blank EXCEPT !.target = t, !.revision = k, !.tombstone = l]
                             \in Registration
      BY <1>0 DEF Registration
    <3>3. r \in Registration
      BY <3>1, <3>2
    <3>4. Blank.lease = NoOne
      BY DEF Blank
    <3> QED BY <1>0, <3>3, <3>4 DEF Registration
  <2>1. /\ reg' = [reg EXCEPT ![n] = r] /\ revision' = revision + 1
        /\ ~Registered(n) /\ UNCHANGED <<tombstone, op, edit, upgrade, restarts>>
    BY <1>3 DEF Add
  <2> HIDE DEF r
  <2>2. reg'[n] = r /\ \A m \in Nodes : m # n => reg'[m] = reg[m]
    BY <1>0, <2>1
  <2>3. RegistrationTypeOK'
    BY <1>0, <2>0, <2>1, TypeNext
  <2>4. RouteStep
    BY <1>0, <2>0, <2>1, <2>2 DEF RouteStep, SameRoute, Replaced
  <2>5. LeaseStep
    BY <1>0, <2>0, <2>1, <2>2 DEF LeaseStep
  <2> QED BY <2>3, <2>4, <2>5 DEF Preserved
<1>4. CASE Sweep
  <2>1. reg' = Expired /\ UNCHANGED <<revision, tombstone, op, edit, upgrade, restarts>>
    BY <1>4 DEF Sweep
  <2>2. RegistrationTypeOK'
    BY <1>a, <2>1, TypeNext
  <2>3. RouteStep
    BY <1>0, <2>1, ExpiredFacts DEF RouteStep, SameRoute
  <2>4. LeaseStep
    BY <1>0, <1>a, <2>1, ExpiredFacts DEF LeaseStep
  <2> QED BY <2>2, <2>3, <2>4 DEF Preserved
<1> QED BY <1>1, <1>2, <1>3, <1>4

-----------------------------------------------------------------------------
(* Maintenance leases.                                                      *)

LEMMA UpgradeKeeps ==
  ASSUME RegistrationTypeOK, RouteInv, LeaseInv, NEW u \in Upgraders,
         \/ TimeoutUpgrade(u) \/ FinishUpgrade(u) \/ FinishUninstall(u)
         \/ Renew(u) \/ UninstallCleanedUp(u)
  PROVE  Preserved
<1> USE TypeParts
<1> DEFINE n == upgrade[u].node
<1>0. /\ upgrade[u] \in UpgradeType /\ n \in Nodes /\ revision \in Nat
      /\ \A m \in Nodes : reg[m] \in Registration
      /\ \A m \in Nodes : reg[m].revision <= revision
      /\ \A m \in Nodes : reg[m].admitted \in Nat /\ reg[m].revision \in Nat
      /\ \A m \in Nodes : reg[m].lease # NoOne => ~reg[m].open
  BY DEF UpgradeType, RouteInv, RevisionsIssued, Registration, LeaseInv, LeaseShut
<1>a. /\ Expired \in [Nodes -> Registration] /\ Expired[n] \in Registration
      /\ \A m \in Nodes : Expired[m].lease # NoOne => ~Expired[m].open
  BY <1>0, ExpiredFacts
<1>b. /\ DoneUpgrade \in UpgradeType /\ DoneUpgrade.pc # "held"
      /\ [upgrade[u] EXCEPT !.pc = "cleanup"] \in UpgradeType
      /\ [upgrade[u] EXCEPT !.pc = "cleanup"].pc # "held"
  BY <1>0, IdleTypes DEF DoneUpgrade, UpgradeType, UpgradeSteps
\* The step's effect on the table, and that of the client's answer.
<1> DEFINE table(f, r) ==
             \/ reg' = f \/ reg' = [f EXCEPT ![n] = r]
           answer ==
             \/ upgrade' = upgrade
             \/ upgrade' = [upgrade EXCEPT ![u] = DoneUpgrade]
             \/ upgrade' = [upgrade EXCEPT ![u].pc = "cleanup"]
<1>c. ASSUME answer
      PROVE  /\ upgrade' \in [Upgraders -> UpgradeType]
             /\ \A v \in Upgraders : upgrade'[v].pc = "held" =>
                  upgrade[v].pc = "held" /\ upgrade'[v].node = upgrade[v].node
  <2>1. CASE upgrade' = upgrade
    BY <2>1
  <2>2. CASE upgrade' = [upgrade EXCEPT ![u] = DoneUpgrade]
    BY <1>b, <2>2
  <2>3. CASE upgrade' = [upgrade EXCEPT ![u].pc = "cleanup"]
    <3>1. upgrade' = [upgrade EXCEPT ![u] = [upgrade[u] EXCEPT !.pc = "cleanup"]]
      BY <2>3
    <3> QED BY <1>b, <3>1
  <2> QED BY <1>c, <2>1, <2>2, <2>3
<1>d. ASSUME answer, NEW f, Drained(f), NEW r \in Registration, table(f, r),
             r.lease = NoOne \/ (r.lease = f[n].lease /\ ~r.open),
             \/ /\ r.target = f[n].target /\ r.revision = f[n].revision
                /\ r.tombstone = f[n].tombstone /\ r.admitted = f[n].admitted
             \/ r.revision = 0 /\ f[n].admitted = 0 /\ r.lease = NoOne,
             revision' = revision, tombstone' \in Nat,
             UNCHANGED <<op, edit, restarts>>
      PROVE  Preserved
  <2>1. reg' \in [Nodes -> Registration] /\ reg'[n] \in {r, f[n]}
        /\ \A m \in Nodes : m # n => reg'[m] = f[m]
    BY <1>0, <1>d DEF Drained
  <2>2. RegistrationTypeOK'
    BY <1>c, <1>d, <2>1, TypeNext
  <2>3. \A m \in Nodes : SameRoute(m) \/ Replaced(m)
    BY <1>0, <1>d, <2>1 DEF Drained, SameRoute, Replaced
  <2>4. \A m \in Nodes : reg'[m].revision <= revision'
    BY <1>0, <1>d, <2>1 DEF Drained
  <2>5. RouteStep
    BY <1>0, <1>d, <2>3, <2>4 DEF RouteStep
  <2>6. \A m \in Nodes :
          /\ reg'[m].lease \in {reg[m].lease, NoOne}
          /\ reg'[m].lease # NoOne => ~reg'[m].open /\ reg'[m].admitted = reg[m].admitted
    BY <1>0, <1>d, <2>1 DEF Drained
  <2>7. LeaseStep
    BY <1>0, <1>c, <1>d, <2>6 DEF LeaseStep
  <2> QED BY <2>2, <2>5, <2>7 DEF Preserved
<1>e. Drained(reg) /\ Drained(Expired)
  BY <1>0, <1>a, ExpiredFacts DEF Drained
<1>1. CASE TimeoutUpgrade(u)
  <2> DEFINE r == [reg[n] EXCEPT !.open = TRUE, !.lease = NoOne, !.lapsed = FALSE]
  <2>1. /\ r \in Registration /\ r.lease = NoOne /\ r.target = reg[n].target
        /\ r.revision = reg[n].revision /\ r.tombstone = reg[n].tombstone
        /\ r.admitted = reg[n].admitted
    BY <1>0, ZenonT(90) DEF Registration
  <2>2. /\ table(reg, r) /\ answer
        /\ UNCHANGED <<revision, tombstone, op, edit, restarts>>
    BY <1>1 DEF TimeoutUpgrade
  <2> HIDE DEF r
  <2> QED BY <1>d, <1>e, <2>1, <2>2
<1>2. CASE FinishUpgrade(u)
  <2> DEFINE r == [Expired[n] EXCEPT !.open = TRUE, !.lease = NoOne]
  <2>1. /\ r \in Registration /\ r.lease = NoOne /\ r.target = Expired[n].target
        /\ r.revision = Expired[n].revision /\ r.tombstone = Expired[n].tombstone
        /\ r.admitted = Expired[n].admitted
    BY <1>a DEF Registration
  <2>2. /\ table(Expired, r) /\ answer
        /\ UNCHANGED <<revision, tombstone, op, edit, restarts>>
    BY <1>2, <1>a DEF FinishUpgrade
  <2> HIDE DEF r
  <2> QED BY <1>d, <1>e, <2>1, <2>2
<1>3. CASE FinishUninstall(u)
  <2>1. Blank \in Registration /\ Blank.lease = NoOne /\ Blank.revision = 0
    BY BlankType DEF Blank
  <2>2. /\ table(Expired, Blank) /\ answer /\ Expired[n].admitted = 0
        /\ tombstone' = tombstone + 1 /\ UNCHANGED <<revision, op, edit, restarts>>
    BY <1>3 DEF FinishUninstall
  <2>3. tombstone' \in Nat
    BY <2>2
  <2> QED BY <1>d, <1>e, <2>1, <2>2, <2>3
<1>4. CASE Renew(u)
  <2> DEFINE r == [Expired[n] EXCEPT !.lapsed = FALSE]
  <2>1. /\ r \in Registration /\ r.lease = Expired[n].lease
        /\ r.target = Expired[n].target /\ r.open = Expired[n].open
        /\ r.revision = Expired[n].revision /\ r.tombstone = Expired[n].tombstone
        /\ r.admitted = Expired[n].admitted
    BY <1>a DEF Registration
  <2>2. /\ table(Expired, r) /\ answer
        /\ UNCHANGED <<revision, tombstone, op, edit, restarts>>
    BY <1>4, <1>a DEF Renew
  <2> HIDE DEF r
  <2> QED BY <1>a, <1>0, <1>d, <1>e, <2>1, <2>2
<1>5. CASE UninstallCleanedUp(u)
  <2>1. /\ table(reg, Blank) /\ answer /\ reg' = reg
        /\ UNCHANGED <<revision, tombstone, op, edit, restarts>>
    BY <1>5 DEF UninstallCleanedUp
  <2>2. /\ table(reg, reg[n]) /\ reg[n] \in Registration
        /\ reg[n].lease = NoOne \/ ~reg[n].open
    BY <1>0, <2>1
  <2> QED BY <1>d, <1>e, <2>1, <2>2
<1> QED BY <1>1, <1>2, <1>3, <1>4, <1>5

\* A lease is granted by BeginUpgrade at once or by WakeUpgrade after a drain.
LEMMA GrantKeeps ==
  ASSUME RegistrationTypeOK, RouteInv, LeaseInv, NEW u \in Upgraders,
         WakeUpgrade(u) \/ \E n \in Nodes : BeginUpgrade(u, n)
  PROVE  RegistrationTypeOK' /\ RouteStep /\ LeaseInv'
<1> USE TypeParts
<1>0. /\ upgrade[u] \in UpgradeType /\ revision \in Nat /\ u # NoOne
      /\ \A v \in Upgraders : upgrade[v].node \in Nodes
      /\ \A m \in Nodes : reg[m] \in Registration
      /\ \A m \in Nodes : reg[m].revision <= revision
      /\ \A m \in Nodes : reg[m].admitted \in Nat /\ reg[m].revision \in Nat
      /\ \A m \in Nodes : reg[m].lease # NoOne => ~reg[m].open
  BY RegistrationAssumption
  DEF UpgradeType, RouteInv, RevisionsIssued, Registration, LeaseInv, LeaseShut
<1>1. CASE WakeUpgrade(u)
  <2> DEFINE w == IF reg[upgrade[u].node].revision # upgrade[u].revision
                  THEN DoneUpgrade ELSE [upgrade[u] EXCEPT !.pc = "held"]
  <2>1. /\ upgrade' = [upgrade EXCEPT ![u] = w]
        /\ UNCHANGED <<reg, revision, tombstone, op, edit, restarts>>
    BY <1>1 DEF WakeUpgrade
  <2>2. w \in UpgradeType
    BY <1>0, IdleTypes DEF UpgradeType, UpgradeSteps
  <2>3. w.pc = "held" => w.node = upgrade[u].node /\ reg[w.node].admitted = 0
    BY <1>0, <1>1 DEF WakeUpgrade, DoneUpgrade, UpgradeType
  <2> HIDE DEF w
  <2>4. RegistrationTypeOK'
    BY <2>1, <2>2, TypeNext
  <2>5. RouteStep
    BY <1>0, <2>1 DEF RouteStep, SameRoute
  <2>6. LeaseInv'
    BY <2>1, <2>3 DEF LeaseInv, LeaseShut, HeldDrained
  <2> QED BY <2>4, <2>5, <2>6
<1>2. ASSUME NEW n \in Nodes, BeginUpgrade(u, n)
      PROVE  RegistrationTypeOK' /\ RouteStep /\ LeaseInv'
  <2> DEFINE r == [Expired[n] EXCEPT !.open = FALSE, !.epoch = Expired[n].epoch + 1,
                                     !.lease = u, !.lapsed = FALSE]
             w == [pc |-> IF Expired[n].admitted = 0 THEN "held" ELSE "waiting",
                   node |-> n, revision |-> Expired[n].revision]
  <2>1. /\ Expired \in [Nodes -> Registration] /\ Expired[n] \in Registration
        /\ \A m \in Nodes : Expired[m].lease # NoOne => ~Expired[m].open
    BY <1>0, ExpiredFacts
  <2>2. /\ r \in Registration /\ r.target = reg[n].target
        /\ r.revision = reg[n].revision /\ r.tombstone = reg[n].tombstone
        /\ r.admitted = reg[n].admitted /\ r.lease = u /\ ~r.open
    <3>1. Expired[n].epoch + 1 \in Nat
      BY <2>1 DEF Registration
    <3>2. \A k \in Nat : [Expired[n] EXCEPT !.open = FALSE, !.epoch = k,
                            !.lease = u, !.lapsed = FALSE] \in Registration
      BY <2>1 DEF Registration
    <3>3. r \in Registration
      BY <3>1, <3>2
    <3> QED BY <2>1, <3>3, ExpiredFacts DEF Registration
  <2>3. w \in UpgradeType /\ w.node = n /\ (w.pc = "held" => reg[n].admitted = 0)
    BY <2>1, ExpiredFacts DEF UpgradeType, UpgradeSteps, Registration
  <2>4. reg' = [Expired EXCEPT ![n] = r]
    BY <1>2, <2>1, ZenonT(90) DEF BeginUpgrade
  <2>5. /\ upgrade' = [upgrade EXCEPT ![u] = w]
        /\ UNCHANGED <<revision, tombstone, op, edit, restarts>>
    BY <1>2 DEF BeginUpgrade
  <2> HIDE DEF r, w
  <2>6. reg'[n] = r /\ \A m \in Nodes : m # n => reg'[m] = Expired[m]
    BY <2>1, <2>4
  <2>7. RegistrationTypeOK'
    BY <2>1, <2>2, <2>3, <2>4, <2>5, TypeNext
  <2>8. RouteStep
    BY <1>0, <2>2, <2>5, <2>6, ExpiredFacts DEF RouteStep, SameRoute
  <2>9. LeaseShut'
    BY <2>1, <2>2, <2>6 DEF LeaseShut
  <2>10. HeldDrained'
    <3> SUFFICES ASSUME NEW v \in Upgraders, upgrade'[v].pc = "held",
                        reg'[upgrade'[v].node].lease = v
                 PROVE  reg'[upgrade'[v].node].admitted = 0
      BY DEF HeldDrained
    <3>1. CASE v = u
      BY <2>2, <2>3, <2>5, <2>6, <3>1
    <3>2. CASE v # u
      <4> DEFINE k == upgrade[v].node
      <4>1. upgrade'[v] = upgrade[v] /\ k \in Nodes /\ v # NoOne
        BY <1>0, <2>5, <3>2, RegistrationAssumption
      <4>2. k # n
        BY <2>2, <2>6, <3>2, <4>1
      <4>3. reg[k].lease = v
        BY <2>6, <4>1, <4>2, ExpiredFacts
      <4>4. reg'[k].admitted = reg[k].admitted
        BY <2>6, <4>1, <4>2, ExpiredFacts
      <4> QED BY <4>1, <4>3, <4>4 DEF LeaseInv, HeldDrained
    <3> QED BY <3>1, <3>2
  <2> QED BY <2>7, <2>8, <2>9, <2>10 DEF LeaseInv
<1> QED BY <1>1, <1>2

-----------------------------------------------------------------------------
(* Routed requests.                                                         *)

LEMMA OpKeeps ==
  ASSUME RegistrationTypeOK, RegistrationTypeOK', RouteInv, LeaseInv,
         NEW o \in Operations,
         \/ \E n \in Nodes : Inspect(o, n)
         \/ Admit(o) \/ AdmitRefused(o) \/ Release(o) \/ Revalidate(o)
  PROVE  RouteInv' /\ LeaseStep
<1> USE TypeParts
<1> DEFINE n == op[o].at.node
<1>0. /\ op[o] \in OpType /\ n \in Nodes /\ revision \in Nat
      /\ \A p \in Operations : op[p].at.node \in Nodes
      /\ \A m \in Nodes : reg[m] \in Registration
      /\ \A m \in Nodes : reg[m].revision <= revision
      /\ \A m \in Nodes : reg[m].admitted \in Nat /\ reg[m].revision \in Nat
      /\ \A m \in Nodes : reg[m].lease # NoOne => ~reg[m].open
  BY DEF OpType, SnapshotType, RouteInv, RevisionsIssued, Registration, LeaseInv, LeaseShut
<1>a. /\ Expired \in [Nodes -> Registration] /\ Expired[n] \in Registration
      /\ \A m \in Nodes : Expired[m].lease # NoOne => ~Expired[m].open
  BY <1>0, ExpiredFacts
\* A step that ends the request's claim on its registration, or makes none.
<1>b. ASSUME NEW x \in OpType, op' = [op EXCEPT ![o] = x], x.pc # "called",
             revision' = revision,
             \A m \in Nodes :
               /\ reg'[m].target = reg[m].target /\ reg'[m].revision = reg[m].revision
               /\ reg'[m].tombstone = reg[m].tombstone
               /\ Cardinality(Called(m)') <= reg'[m].admitted,
             x.pc = "inspected" =>
               /\ x.at.node \in Nodes /\ x.at.revision = reg[x.at.node].revision
               /\ x.at.revision # 0 /\ x.at.target = reg[x.at.node].target
      PROVE  RouteInv'
  <2>1. op'[o] = x /\ \A p \in Operations : p # o => op'[p] = op[p]
    BY <1>b
  <2>2. Counted'
    BY <1>b DEF Counted
  <2>3. RouteDrained'
    BY <1>0, <1>b, <2>1 DEF RouteInv, RouteDrained, Registered
  <2>4. SnapshotFresh'
    <3> SUFFICES ASSUME NEW p \in Operations, op'[p].pc \in {"inspected", "called"}
                 PROVE  /\ op'[p].at.revision # 0 /\ op'[p].at.revision <= revision'
                        /\ op'[p].at.revision = reg'[op'[p].at.node].revision =>
                             op'[p].at.target = reg'[op'[p].at.node].target
      BY DEF SnapshotFresh
    <3>1. CASE p = o
      BY <1>0, <1>b, <2>1, <3>1
    <3>2. CASE p # o
      BY <1>0, <1>b, <2>1, <3>2 DEF RouteInv, SnapshotFresh
    <3> QED BY <3>1, <3>2
  <2>5. RevisionsIssued'
    BY <1>0, <1>b DEF RevisionsIssued
  <2> QED BY <2>2, <2>3, <2>4, <2>5 DEF RouteInv
<1>c. \A m \in Nodes : Cardinality(Called(m)) \in Nat /\ Cardinality(Called(m)) <= reg[m].admitted
  BY CalledFinite DEF RouteInv, Counted
<1>d. ASSUME NEW x \in OpType, op' = [op EXCEPT ![o] = x], x.pc # "called",
             NEW m \in Nodes
      PROVE  Cardinality(Called(m)') <= reg[m].admitted
  <2>1. Called(m)' \in SUBSET Called(m)
    BY <1>d DEF Called
  <2>2. IsFiniteSet(Called(m)') /\ Cardinality(Called(m)') <= Cardinality(Called(m))
    BY <2>1, CalledFinite, FS_Subset
  <2>3. Cardinality(Called(m)') \in Nat
    BY <2>2, FS_CardinalityType
  <2> QED BY <1>0, <1>c, <2>2, <2>3
<1>1. CASE \E k \in Nodes : Inspect(o, k)
  <2> PICK k \in Nodes : Inspect(o, k) BY <1>1
  <2> DEFINE x == [pc |-> "inspected", at |-> Snapshot(k)]
  <2>1. /\ op' = [op EXCEPT ![o] = x] /\ Registered(k)
        /\ UNCHANGED <<reg, revision, tombstone, edit, upgrade, restarts>>
    BY DEF Inspect
  <2>2. /\ x \in OpType /\ x.pc = "inspected" /\ x.at.node = k
        /\ x.at.revision = reg[k].revision /\ x.at.target = reg[k].target
    BY <1>0 DEF Snapshot, OpType, OpSteps, SnapshotType, Registration
  <2> HIDE DEF x
  <2>3. \A m \in Nodes : Cardinality(Called(m)') <= reg'[m].admitted
    BY <1>d, <2>1, <2>2
  <2>4. RouteInv'
    BY <1>b, <2>1, <2>2, <2>3 DEF Registered
  <2>5. LeaseStep
    BY <1>0, <2>1 DEF LeaseStep
  <2> QED BY <2>4, <2>5
<1>2. ASSUME reg' = Expired, op' = [op EXCEPT ![o] = IdleOp],
             UNCHANGED <<revision, tombstone, edit, upgrade, restarts>>
      PROVE  RouteInv' /\ LeaseStep
  <2>1. IdleOp \in OpType /\ IdleOp.pc = "idle"
    BY IdleTypes DEF IdleOp
  <2>2. \A m \in Nodes : Cardinality(Called(m)') <= reg'[m].admitted
    BY <1>d, <1>2, <2>1, ExpiredFacts
  <2>3. RouteInv'
    BY <1>b, <1>2, <2>1, <2>2, ExpiredFacts
  <2>4. LeaseStep
    BY <1>0, <1>2, <1>a, ExpiredFacts DEF LeaseStep
  <2> QED BY <2>3, <2>4
<1>3. CASE AdmitRefused(o) \/ Revalidate(o)
  BY <1>2, <1>3 DEF AdmitRefused, Revalidate
<1>4. CASE Release(o)
  <2> DEFINE x == [op[o] EXCEPT !.pc = "released"]
             r == [reg[n] EXCEPT !.admitted = reg[n].admitted - 1]
  <2>1. x \in OpType /\ x.pc = "released"
    BY <1>0 DEF OpType, OpSteps
  <2>2. /\ op' = [op EXCEPT ![o] = x] /\ op[o].pc = "called"
        /\ reg' = reg \/ (reg[n].admitted > 0 /\ reg' = [reg EXCEPT ![n] = r])
        /\ UNCHANGED <<revision, tombstone, edit, upgrade, restarts>>
    BY <1>4 DEF Release
  <2>3. /\ r.target = reg[n].target /\ r.revision = reg[n].revision
        /\ r.tombstone = reg[n].tombstone /\ r.admitted = reg[n].admitted - 1
        /\ r.lease = reg[n].lease /\ r.open = reg[n].open
    BY <1>0 DEF Registration
  <2> HIDE DEF x, r
  <2>4. /\ reg'[n] = reg[n] \/ (reg[n].admitted > 0 /\ reg'[n] = r)
        /\ \A m \in Nodes : m # n => reg'[m] = reg[m]
    BY <1>0, <2>2
  <2> PICK k \in Nodes : k = n BY <1>0
  <2>5. Cardinality(Called(k)') <= reg[k].admitted - 1
    <3>1. Called(k)' = Called(k) \ {o} /\ o \in Called(k)
      BY <2>1, <2>2 DEF Called
    <3>2. Cardinality(Called(k)') = Cardinality(Called(k)) - 1
      <4>1. Cardinality(Called(k) \ {o}) =
              IF o \in Called(k) THEN Cardinality(Called(k)) - 1 ELSE Cardinality(Called(k))
        BY CalledFinite, FS_RemoveElement
      <4> QED BY <3>1, <4>1
    <3> QED BY <1>0, <1>c, <3>2
  <2>6. \A m \in Nodes : Cardinality(Called(m)') <= reg[m].admitted
    BY <1>d, <2>1, <2>2
  <2>7. \A m \in Nodes : Cardinality(Called(m)') <= reg'[m].admitted
    BY <2>3, <2>4, <2>5, <2>6
  <2>8. RouteInv'
    BY <1>b, <2>1, <2>2, <2>3, <2>4, <2>7
  <2>9. LeaseStep
    BY <1>0, <2>2, <2>3, <2>4 DEF LeaseStep
  <2> QED BY <2>8, <2>9
<1>5. CASE Admit(o)
  <2> DEFINE x == [op[o] EXCEPT !.pc = "called"]
             r == [Expired[n] EXCEPT !.admitted = reg[n].admitted + 1]
  <2>1. x \in OpType /\ x.pc = "called" /\ x.at = op[o].at
    BY <1>0 DEF OpType, OpSteps
  <2>2. /\ op' = [op EXCEPT ![o] = x] /\ op[o].pc = "inspected"
        /\ reg' = [Expired EXCEPT ![n] = r]
        /\ Expired[n].revision = op[o].at.revision
        /\ Expired[n].tombstone = op[o].at.tombstone /\ Expired[n].open
        /\ UNCHANGED <<revision, tombstone, edit, upgrade, restarts>>
    BY <1>0, <1>5, <1>a, ExpiredFacts DEF Admit, IsCurrent
  <2>3. /\ r.target = reg[n].target /\ r.revision = reg[n].revision
        /\ r.tombstone = reg[n].tombstone /\ r.admitted = reg[n].admitted + 1
        /\ r.lease = Expired[n].lease /\ r.open = Expired[n].open
    BY <1>0, <1>a, ExpiredFacts DEF Registration
  <2> HIDE DEF x, r
  <2>4. reg'[n] = r /\ \A m \in Nodes : m # n => reg'[m] = Expired[m]
    BY <1>0, <1>a, <2>2
  <2>5. op'[o] = x /\ \A p \in Operations : p # o => op'[p] = op[p]
    BY <2>2
  <2>6. Counted'
    <3> SUFFICES ASSUME NEW m \in Nodes
                 PROVE  Cardinality(Called(m)') <= reg'[m].admitted
      BY DEF Counted
    <3>1. CASE m = n
      <4>1. Called(m)' = Called(m) \cup {o} /\ o \notin Called(m)
        BY <2>1, <2>2, <2>5, <3>1 DEF Called
      <4>2. Cardinality(Called(m)') = Cardinality(Called(m)) + 1
        BY <4>1, CalledFinite, FS_AddElement
      <4>3. reg'[m].admitted = reg[m].admitted + 1
        BY <2>3, <2>4, <3>1
      <4> QED BY <1>0, <1>c, <4>2, <4>3
    <3>2. CASE m # n
      <4>1. Called(m)' = Called(m)
        BY <2>1, <2>2, <2>5, <3>2 DEF Called
      <4> QED BY <1>c, <2>4, <3>2, <4>1, ExpiredFacts
    <3> QED BY <3>1, <3>2
  <2>7. op[o].at.revision # 0 /\ op[o].at.target = reg[n].target
    BY <1>0, <2>2, ExpiredFacts DEF RouteInv, SnapshotFresh
  <2>8. \A m \in Nodes :
          /\ reg'[m].target = reg[m].target /\ reg'[m].revision = reg[m].revision
          /\ reg'[m].tombstone = reg[m].tombstone
    BY <2>3, <2>4, ExpiredFacts
  <2>9. RouteDrained'
    BY <1>0, <2>1, <2>2, <2>5, <2>7, <2>8, ExpiredFacts, SMTT(60) DEF RouteInv, RouteDrained, Registered
  <2>10. SnapshotFresh'
    BY <1>0, <2>1, <2>2, <2>5, <2>8 DEF RouteInv, SnapshotFresh
  <2>11. RevisionsIssued'
    BY <1>0, <2>2, <2>8 DEF RevisionsIssued
  <2>12. LeaseStep
    BY <1>0, <1>a, <2>2, <2>3, <2>4, ExpiredFacts, SMTT(60) DEF LeaseStep
  <2> QED BY <2>6, <2>9, <2>10, <2>11, <2>12 DEF RouteInv
<1> QED BY <1>1, <1>3, <1>4, <1>5

\* A new process starts from the file, without requests or leases.
LEMMA RestartKeeps ==
  ASSUME RegistrationTypeOK, RouteInv, LeaseInv, Restart
  PROVE  RegistrationTypeOK' /\ RouteInv' /\ LeaseInv'
<1> USE TypeParts
<1> DEFINE fresh(m) == [Blank EXCEPT !.target = reg[m].target,
                          !.revision = reg[m].revision, !.tombstone = reg[m].tombstone]
<1>0. /\ \A m \in Nodes : reg[m] \in Registration
      /\ Blank \in Registration /\ Blank.lease = NoOne /\ Blank.admitted = 0
      /\ IdleOp \in OpType /\ IdleOp.pc = "idle" /\ IdleEdit \in EditType
      /\ DoneUpgrade \in UpgradeType /\ DoneUpgrade.pc = "done"
  BY BlankType, IdleTypes DEF Blank, IdleOp, DoneUpgrade
<1>1. \A m \in Nodes :
        /\ fresh(m) \in Registration /\ fresh(m).revision = reg[m].revision
        /\ fresh(m).lease = NoOne /\ fresh(m).admitted = 0
  <2> SUFFICES ASSUME NEW m \in Nodes
               PROVE  /\ fresh(m) \in Registration /\ fresh(m).revision = reg[m].revision
                      /\ fresh(m).lease = NoOne /\ fresh(m).admitted = 0
    OBVIOUS
  <2>1. reg[m].target \in Targets /\ reg[m].revision \in Nat /\ reg[m].tombstone \in Nat
    BY <1>0 DEF Registration
  <2>2. fresh(m) \in Registration
    BY <1>0, <2>1 DEF Registration
  <2> QED BY <1>0, <2>1, <2>2 DEF Registration
<1>2. /\ reg' = [m \in Nodes |-> fresh(m)] /\ op' = [o \in Operations |-> IdleOp]
      /\ edit' = [e \in Editors |-> IdleEdit] /\ restarts' = restarts + 1
      /\ upgrade' = [u \in Upgraders |->
           IF upgrade[u].pc = "start" THEN upgrade[u] ELSE DoneUpgrade]
      /\ UNCHANGED <<revision, tombstone>>
  BY DEF Restart
<1> HIDE DEF fresh
<1>3. RegistrationTypeOK'
  <2>1. reg' \in [Nodes -> Registration] BY <1>1, <1>2
  <2>2. op' \in [Operations -> OpType] BY <1>0, <1>2
  <2>3. edit' \in [Editors -> EditType] BY <1>0, <1>2
  <2>4. upgrade' \in [Upgraders -> UpgradeType] BY <1>0, <1>2
  <2>5. restarts' \in Nat BY <1>2
  <2> QED BY <1>2, <2>1, <2>2, <2>3, <2>4, <2>5, TypeNext
<1>4. \A o \in Operations : op'[o].pc = "idle"
  BY <1>0, <1>2
<1>5. Counted'
  <2> SUFFICES ASSUME NEW m \in Nodes
               PROVE  Cardinality(Called(m)') <= reg'[m].admitted
    BY DEF Counted
  <2>1. Called(m)' = {}
    BY <1>4 DEF Called
  <2>2. Cardinality(Called(m)') = 0
    BY <2>1, FS_EmptySet
  <2>3. reg'[m].admitted = 0
    BY <1>1, <1>2
  <2> QED BY <2>2, <2>3
<1>6. RouteDrained' /\ SnapshotFresh'
  BY <1>4 DEF RouteDrained, SnapshotFresh
<1>7. RevisionsIssued'
  BY <1>1, <1>2 DEF RouteInv, RevisionsIssued
<1>8. LeaseInv'
  <2>1. \A m \in Nodes : reg'[m].lease = NoOne
    BY <1>1, <1>2
  <2>2. \A u \in Upgraders : upgrade'[u].pc # "held"
    BY <1>0, <1>2
  <2> QED BY <2>1, <2>2 DEF LeaseInv, LeaseShut, HeldDrained
<1> QED BY <1>3, <1>5, <1>6, <1>7, <1>8 DEF RouteInv

-----------------------------------------------------------------------------
RegistrationInv == RegistrationTypeOK /\ RouteInv /\ LeaseInv

LEMMA InitHolds == RegistrationInit => RegistrationInv
<1> SUFFICES ASSUME RegistrationInit PROVE RegistrationInv
  OBVIOUS
<1>0. /\ Blank \in Registration /\ Blank.lease = NoOne /\ Blank.admitted = 0
      /\ Blank.revision = 0 /\ IdleOp \in OpType /\ IdleOp.pc = "idle"
      /\ IdleEdit \in EditType /\ DoneUpgrade \in UpgradeType
  BY BlankType, IdleTypes DEF Blank, IdleOp
<1>1. /\ reg = [m \in Nodes |-> Blank] /\ op = [o \in Operations |-> IdleOp]
      /\ edit = [e \in Editors |-> IdleEdit]
      /\ upgrade = [u \in Upgraders |-> [DoneUpgrade EXCEPT !.pc = "start"]]
      /\ revision = 0 /\ tombstone = 0 /\ restarts = 0
  BY DEF RegistrationInit
<1>2. /\ [DoneUpgrade EXCEPT !.pc = "start"] \in UpgradeType
      /\ [DoneUpgrade EXCEPT !.pc = "start"].pc = "start"
  BY <1>0 DEF UpgradeType, UpgradeSteps
<1>3. RegistrationTypeOK
  <2>1. reg \in [Nodes -> Registration] BY <1>0, <1>1
  <2>2. op \in [Operations -> OpType] BY <1>0, <1>1
  <2>3. edit \in [Editors -> EditType] BY <1>0, <1>1
  <2>4. upgrade \in [Upgraders -> UpgradeType] BY <1>1, <1>2
  <2> QED BY <1>1, <2>1, <2>2, <2>3, <2>4
      DEF RegistrationTypeOK, OpType, EditType, UpgradeType
<1>4. \A o \in Operations : op[o].pc = "idle"
  BY <1>0, <1>1
<1>5. Counted
  <2> SUFFICES ASSUME NEW m \in Nodes PROVE Cardinality(Called(m)) <= reg[m].admitted
    BY DEF Counted
  <2>1. Called(m) = {}
    BY <1>4 DEF Called
  <2> QED BY <1>0, <1>1, <2>1, FS_EmptySet
<1>6. RouteDrained /\ SnapshotFresh /\ RevisionsIssued
  BY <1>0, <1>1, <1>4 DEF RouteDrained, SnapshotFresh, RevisionsIssued
<1>7. LeaseInv
  BY <1>0, <1>1, <1>2 DEF LeaseInv, LeaseShut, HeldDrained
<1> QED BY <1>3, <1>5, <1>6, <1>7 DEF RegistrationInv, RouteInv

LEMMA NextKeeps == RegistrationInv /\ [RegistrationNext]_regVars => RegistrationInv'
<1> SUFFICES ASSUME RegistrationTypeOK, RouteInv, LeaseInv, [RegistrationNext]_regVars
             PROVE  RegistrationInv'
  BY DEF RegistrationInv
<1>1. ASSUME Preserved PROVE RegistrationInv'
  BY <1>1, RouteStepKeeps, LeaseStepKeeps DEF Preserved, RegistrationInv
<1>2. ASSUME NEW o \in Operations,
             \/ \E n \in Nodes : Inspect(o, n)
             \/ Admit(o) \/ AdmitRefused(o) \/ Release(o) \/ Revalidate(o)
      PROVE  RegistrationInv'
  BY <1>2, OpTypes, OpKeeps, LeaseStepKeeps DEF RegistrationInv
<1>3. ASSUME NEW u \in Upgraders,
             WakeUpgrade(u) \/ \E n \in Nodes : BeginUpgrade(u, n)
      PROVE  RegistrationInv'
  BY <1>3, GrantKeeps, RouteStepKeeps DEF RegistrationInv
<1>4. CASE Restart
  BY <1>4, RestartKeeps DEF RegistrationInv
<1>5. CASE UNCHANGED regVars
  <2>1. RegistrationTypeOK'
    BY <1>5 DEF regVars, RegistrationTypeOK
  <2>2. RouteInv'
    BY <1>5 DEF regVars, RouteInv, Counted, Called, RouteDrained, Registered,
                SnapshotFresh, RevisionsIssued
  <2>3. LeaseInv'
    BY <1>5 DEF regVars, LeaseInv, LeaseShut, HeldDrained
  <2> QED BY <2>1, <2>2, <2>3 DEF RegistrationInv
<1>6. CASE RegistrationStep
  BY <1>1, <1>2, <1>3, <1>6, EditKeeps, TableKeeps, UpgradeKeeps DEF RegistrationStep
<1>7. ASSUME \/ \E n \in Nodes, t \in Targets : Add(n, t)
             \/ \E e \in Editors : CleanedUp(e)
             \/ \E u \in Upgraders : UninstallCleanedUp(u)
      PROVE  RegistrationInv'
  BY <1>1, <1>7, EditKeeps, TableKeeps, UpgradeKeeps
<1> QED BY <1>4, <1>5, <1>6, <1>7 DEF RegistrationNext

\* Every reachable state of the registrations is well typed.
THEOREM RegistrationTyped == RegistrationSpec => []RegistrationTypeOK
<1>1. RegistrationInv => RegistrationTypeOK
  BY DEF RegistrationInv
<1> QED BY <1>1, InitHolds, NextKeeps, PTL DEF RegistrationSpec

\* A routed request never reaches a target its registration no longer has.
THEOREM RoutesAreDrained == RegistrationSpec => []RouteDrained
<1>1. RegistrationInv => RouteDrained
  BY DEF RegistrationInv, RouteInv
<1> QED BY <1>1, InitHolds, NextKeeps, PTL DEF RegistrationSpec

\* Maintenance of a Node excludes routed requests to it.
THEOREM MaintenanceExcludes == RegistrationSpec => []UpgradeExclusive
<1>1. RegistrationInv => UpgradeExclusive
  <2> SUFFICES ASSUME RegistrationInv, NEW u \in Upgraders, upgrade[u].pc = "held",
                      reg[upgrade[u].node].lease = u
               PROVE  /\ ~reg[upgrade[u].node].open
                      /\ \A o \in Operations :
                           op[o].at.node = upgrade[u].node => op[o].pc # "called"
    BY DEF UpgradeExclusive
  <2>1. upgrade[u].node \in Nodes /\ u # NoOne
    BY RegistrationAssumption DEF RegistrationInv, RegistrationTypeOK
  <2>2. ~reg[upgrade[u].node].open
    BY <2>1 DEF RegistrationInv, LeaseInv, LeaseShut
  <2>3. reg[upgrade[u].node].admitted = 0
    BY DEF RegistrationInv, LeaseInv, HeldDrained
  <2> QED BY <2>1, <2>2, <2>3, DrainedIsIdle DEF RegistrationInv, RouteInv
<1> QED BY <1>1, InitHolds, NextKeeps, PTL DEF RegistrationSpec

-----------------------------------------------------------------------------
(* Who may end a lease.                                                     *)

LEMMA CommitKeepsLease ==
  ASSUME RegistrationTypeOK, NEW e \in Editors, NEW x \in EditType, NEW f,
         Drained(f), Commit(e, x, f), NEW n \in Nodes
  PROVE  reg'[n].lease = f[n].lease \/ reg'[n].revision = 0
<1>0. x.node \in Nodes /\ DOMAIN f = Nodes /\ f[x.node] \in Registration
  BY DEF EditType, Drained
<1>1. CASE reg' = [f EXCEPT ![x.node] = Blank]
  BY <1>0, <1>1 DEF Blank
<1>2. CASE reg' = Retargeted(f, x)
  <2>1. /\ reg' = [f EXCEPT ![x.node] = Retargeted(f, x)[x.node]]
        /\ Retargeted(f, x)[x.node].lease = f[x.node].lease
    BY <1>2, RetargetedFacts
  <2> QED BY <1>0, <2>1
<1>3. CASE reg' = [f EXCEPT ![x.node] = Reopened(@)]
  <2>1. reg' = [f EXCEPT ![x.node] = Reopened(f[x.node])]
    BY <1>3
  <2> QED BY <1>0, <2>1, ReopenedFacts
<1> QED BY <1>1, <1>2, <1>3 DEF Commit

LEMMA LeaseEnds ==
  ASSUME RegistrationInv, RegistrationNext, NEW u \in Upgraders,
         upgrade[u].pc = "held", Registered(upgrade[u].node),
         reg[upgrade[u].node].lease = u, ~reg[upgrade[u].node].lapsed
  PROVE  \/ reg'[upgrade[u].node].lease = u \/ upgrade'[u].pc # "held"
         \/ reg'[upgrade[u].node].revision = 0
         \/ \E v \in Upgraders \ {u} : TimeoutUpgrade(v)
<1> DEFINE n == upgrade[u].node
           goal == \/ reg'[n].lease = u \/ upgrade'[u].pc # "held"
                   \/ reg'[n].revision = 0
                   \/ \E v \in Upgraders \ {u} : TimeoutUpgrade(v)
<1>t. RegistrationTypeOK
  BY DEF RegistrationInv
<1> USE <1>t, TypeParts
<1>0. /\ n \in Nodes /\ u # NoOne /\ reg[n] \in Registration /\ ~reg[n].open
      /\ \A m \in Nodes : reg[m] \in Registration
      /\ \A m \in Nodes : reg[m].lease # NoOne => ~reg[m].open
  BY RegistrationAssumption DEF UpgradeType, RegistrationInv, LeaseInv, LeaseShut
<1>1. Expired[n] = reg[n] /\ Expired \in [Nodes -> Registration]
  BY <1>0, ExpiredFacts DEF Expired, ExpireOne
<1>2. Drained(reg) /\ Drained(Expired)
  BY <1>0, <1>1, ExpiredFacts DEF Drained
<1> SUFFICES goal
  OBVIOUS
<1>3. ASSUME NEW o \in Operations,
             \/ \E m \in Nodes : Inspect(o, m)
             \/ Admit(o) \/ AdmitRefused(o) \/ Release(o) \/ Revalidate(o)
      PROVE  goal
  <2>0. op[o].at.node \in Nodes
    BY DEF OpType, SnapshotType
  <2>1. CASE \E m \in Nodes : Inspect(o, m)
    BY <2>1 DEF Inspect
  <2>2. CASE Admit(o)
    BY <1>0, <1>1, <2>0, <2>2 DEF Admit, Registration
  <2>3. CASE Release(o)
    BY <1>0, <2>0, <2>3 DEF Release, Registration
  <2>4. CASE AdmitRefused(o) \/ Revalidate(o)
    BY <1>1, <2>4 DEF AdmitRefused, Revalidate
  <2> QED BY <1>3, <2>1, <2>2, <2>3, <2>4
<1>4. ASSUME NEW m \in Nodes, Rename(m) \/ LeaseLapses(m) PROVE goal
  <2>1. CASE Rename(m)
    BY <1>0, <1>1, <2>1 DEF Rename, Registration
  <2>2. CASE LeaseLapses(m)
    BY <1>0, <2>2 DEF LeaseLapses, Registration
  <2> QED BY <1>4, <2>1, <2>2
<1>5. ASSUME NEW m \in Nodes, NEW t \in Targets, Add(m, t) PROVE goal
  BY <1>0, <1>5 DEF Add
<1>6. ASSUME NEW e \in Editors,
             \/ \E m \in Nodes, kind \in EditKinds, t \in Targets :
                  BeginEdit(e, m, kind, t)
             \/ WakeEdit(e) \/ TimeoutEdit(e) \/ CleanedUp(e)
      PROVE  goal
  <2>0. edit[e] \in EditType /\ edit[e].node \in Nodes
    BY DEF EditType
  <2>1. ASSUME NEW m \in Nodes, NEW kind \in EditKinds, NEW t \in Targets,
               BeginEdit(e, m, kind, t)
        PROVE  goal
    <3> DEFINE x == [pc |-> "waiting", node |-> m, kind |-> kind, target |-> t,
                     revision |-> Expired[m].revision]
               closed == [Expired[m] EXCEPT !.open = FALSE, !.epoch = Expired[m].epoch + 1]
               f == [Expired EXCEPT ![m] = closed]
    <3>1. x \in EditType
      BY <1>1 DEF EditType, EditSteps, Registration
    <3>2. /\ closed \in Registration /\ closed.target = Expired[m].target
          /\ closed.revision = Expired[m].revision
          /\ closed.tombstone = Expired[m].tombstone
          /\ closed.admitted = Expired[m].admitted
          /\ closed.lease = Expired[m].lease /\ ~closed.open
      <4>1. Expired[m] \in Registration /\ Expired[m].epoch + 1 \in Nat
        BY <1>1 DEF Registration
      <4>2. \A k \in Nat : [Expired[m] EXCEPT !.open = FALSE, !.epoch = k] \in Registration
        BY <4>1 DEF Registration
      <4>3. closed \in Registration
        BY <4>1, <4>2
      <4> QED BY <4>1, <4>3 DEF Registration
    <3>3. Commit(e, x, f) \/ reg' = f
      BY <2>1, <1>1 DEF BeginEdit
    <3> HIDE DEF closed, x
    <3>4. Drained(f)
      BY <1>0, <1>1, <1>2, <3>2 DEF Drained
    <3>5. f[n].lease = u
      BY <1>0, <1>1, <3>2
    <3> HIDE DEF f
    <3> QED BY <1>0, <3>1, <3>3, <3>4, <3>5, CommitKeepsLease
  <2>2. CASE WakeEdit(e)
    <3>1. Commit(e, edit[e], reg) \/ reg' = reg
      BY <2>2 DEF WakeEdit
    <3> QED BY <1>0, <1>2, <2>0, <3>1, CommitKeepsLease
  <2>3. CASE TimeoutEdit(e)
    <3>1. reg' = reg \/ reg' = [reg EXCEPT ![edit[e].node] = Reopened(reg[edit[e].node])]
      BY <2>3 DEF TimeoutEdit
    <3> QED BY <1>0, <2>0, <3>1, ReopenedFacts
  <2>4. CASE CleanedUp(e)
    BY <2>4 DEF CleanedUp
  <2> QED BY <1>6, <2>1, <2>2, <2>3, <2>4
<1>7. ASSUME NEW v \in Upgraders,
             \/ \E m \in Nodes : BeginUpgrade(v, m)
             \/ WakeUpgrade(v) \/ TimeoutUpgrade(v) \/ FinishUpgrade(v)
             \/ FinishUninstall(v) \/ Renew(v) \/ UninstallCleanedUp(v)
      PROVE  goal
  <2>0. upgrade[v].node \in Nodes /\ DoneUpgrade.pc = "done"
    BY DEF UpgradeType, DoneUpgrade
  <2>1. ASSUME NEW m \in Nodes, BeginUpgrade(v, m) PROVE goal
    <3>1. m # n
      BY <1>0, <1>1, <2>1 DEF BeginUpgrade
    <3> QED BY <1>0, <1>1, <2>1, <3>1 DEF BeginUpgrade
  <2>2. CASE WakeUpgrade(v) \/ UninstallCleanedUp(v)
    BY <2>2 DEF WakeUpgrade, UninstallCleanedUp
  <2>3. CASE TimeoutUpgrade(v)
    BY <2>0, <2>3 DEF TimeoutUpgrade
  <2>4. CASE FinishUpgrade(v)
    <3>1. CASE v = u
      BY <2>0, <2>4, <3>1 DEF FinishUpgrade
    <3>2. CASE v # u
      BY <1>0, <1>1, <2>0, <2>4, <3>2 DEF FinishUpgrade, Holds
    <3> QED BY <3>1, <3>2
  <2>5. CASE FinishUninstall(v)
    <3>1. CASE v = u
      BY <2>5, <3>1 DEF FinishUninstall, UpgradeType
    <3>2. CASE v # u
      BY <1>0, <1>1, <2>0, <2>5, <3>2 DEF FinishUninstall, Holds
    <3> QED BY <3>1, <3>2
  <2>6. CASE Renew(v)
    BY <1>0, <1>1, <2>0, <2>6 DEF Renew, Registration
  <2> QED BY <1>7, <2>1, <2>2, <2>3, <2>4, <2>5, <2>6
<1>8. CASE Sweep
  BY <1>1, <1>8 DEF Sweep
<1>9. CASE Restart
  BY <1>9 DEF Restart, DoneUpgrade
<1> HIDE DEF goal
<1>10. CASE RegistrationStep
  BY <1>3, <1>4, <1>6, <1>7, <1>8, <1>10 DEF RegistrationStep
<1> QED BY <1>5, <1>6, <1>7, <1>9, <1>10 DEF RegistrationNext

\* A granted lease ends by its client, its expiry, a forget, a restart or the
\* late timeout of another client's drain.
THEOREM LeasesAreKept == RegistrationSpec => LeaseKept
<1>1. ASSUME RegistrationInv, [RegistrationNext]_regVars
      PROVE  [\A u \in Upgraders :
                LET n == upgrade[u].node IN
                upgrade[u].pc = "held" /\ Registered(n) /\ reg[n].lease = u
                  /\ ~reg[n].lapsed =>
                  \/ reg'[n].lease = u \/ upgrade'[u].pc # "held"
                  \/ reg'[n].revision = 0
                  \/ \E v \in Upgraders \ {u} : TimeoutUpgrade(v)]_regVars
  BY <1>1, LeaseEnds
<1> QED BY <1>1, InitHolds, NextKeeps, PTL DEF RegistrationSpec, LeaseKept

-----------------------------------------------------------------------------
(***************************************************************************)
(* The projection of a Node, over any number of them and of events.         *)
(***************************************************************************)

\* What a step may do to a registration that a worker has observed: end its
\* revision for good, or keep it, counting every time admission closes.
Overtaken(n) == reg'[n].revision \in {0, revision + 1}
Follows(s, r) ==
  /\ s.revision = r.revision /\ s.tombstone = r.tombstone
  /\ s.epoch >= r.epoch
  /\ r.open /\ ~s.open => s.epoch > r.epoch
AdmissionStep ==
  /\ revision' >= revision
  /\ \A n \in Nodes : Overtaken(n) \/ Follows(reg'[n], reg[n])

LEMMA ExpiredFollows ==
  ASSUME RegistrationTypeOK
  PROVE  \A n \in Nodes : /\ Follows(Expired[n], reg[n]) /\ Follows(reg[n], reg[n])
                          /\ Expired[n].epoch = reg[n].epoch
                          /\ reg[n].open => Expired[n].open
<1>1. \A n \in Nodes : reg[n] \in Registration
  BY DEF RegistrationTypeOK
<1>2. \A n \in Nodes : Expired[n] = ExpireOne(reg[n])
  BY DEF Expired
<1>3. \A n \in Nodes : reg[n].epoch \in Nat
  BY <1>1 DEF Registration
<1>4. \A n \in Nodes :
        /\ Expired[n].revision = reg[n].revision
        /\ Expired[n].tombstone = reg[n].tombstone
        /\ Expired[n].epoch = reg[n].epoch
        /\ reg[n].open => Expired[n].open
  BY <1>1, <1>2 DEF ExpireOne, Registration
<1> QED BY <1>3, <1>4 DEF Follows

\* Admission that reopens in the same step has still been closed in between.
LEMMA ReopenedFollows ==
  ASSUME NEW r \in Registration, NEW s \in Registration, Follows(s, r),
         s.lease # NoOne => ~s.open
  PROVE  Follows(Reopened(s), r)
BY DEF Reopened, Follows, Registration

\* A drain that commits or fails.
LEMMA CommitFollows ==
  ASSUME RegistrationTypeOK, NEW e \in Editors, NEW x \in EditType, NEW f,
         Drained(f), \A n \in Nodes : Follows(f[n], reg[n]), Commit(e, x, f)
  PROVE  AdmissionStep
<1> DEFINE n == x.node
<1>0. /\ n \in Nodes /\ DOMAIN f = Nodes /\ revision \in Nat
      /\ \A m \in Nodes : f[m] \in Registration /\ reg[m] \in Registration
      /\ \A m \in Nodes : f[m].lease # NoOne => ~f[m].open
  BY DEF EditType, Drained, RegistrationTypeOK
<1>1. CASE reg' = [f EXCEPT ![n] = Blank] /\ UNCHANGED revision
  <2>1. reg'[n].revision = 0 /\ \A m \in Nodes : m # n => reg'[m] = f[m]
    BY <1>0, <1>1 DEF Blank
  <2> QED BY <1>0, <1>1, <2>1 DEF AdmissionStep, Overtaken
<1>2. CASE reg' = [f EXCEPT ![n] = Reopened(f[n])] /\ revision' >= revision
  <2>1. Follows(Reopened(f[n]), reg[n])
    BY <1>0, ReopenedFollows
  <2>2. reg'[n] = Reopened(f[n]) /\ \A m \in Nodes : m # n => reg'[m] = f[m]
    BY <1>0, <1>2
  <2> QED BY <1>2, <2>1, <2>2 DEF AdmissionStep
<1>3. CASE /\ reg' = Retargeted(f, x)
           /\ revision' = IF f[n].target = x.target THEN revision ELSE revision + 1
  <2>1. CASE f[n].target = x.target
    BY <1>0, <1>2, <1>3, <2>1 DEF Retargeted
  <2>2. CASE f[n].target # x.target
    <3>1. reg' = [f EXCEPT ![n] = Retargeted(f, x)[n]]
          /\ Retargeted(f, x)[n].revision = revision + 1
      BY <1>3, <2>2, RetargetedFacts
    <3>2. reg'[n].revision = revision + 1 /\ \A m \in Nodes : m # n => reg'[m] = f[m]
      BY <1>0, <3>1
    <3> QED BY <1>0, <1>3, <2>2, <3>2 DEF AdmissionStep, Overtaken
  <2> QED BY <2>1, <2>2
<1>4. CASE reg' = [f EXCEPT ![n] = Reopened(@)] /\ UNCHANGED revision
  BY <1>0, <1>2, <1>4
<1> QED BY <1>1, <1>3, <1>4 DEF Commit

LEMMA AdmissionMoves ==
  ASSUME RegistrationInv,
         RegistrationStep \/ \E n \in Nodes, t \in Targets : Add(n, t)
  PROVE  AdmissionStep
<1>t. RegistrationTypeOK
  BY DEF RegistrationInv
<1> USE <1>t, TypeParts
<1>0. /\ \A m \in Nodes : reg[m] \in Registration
      /\ \A m \in Nodes : reg[m].lease # NoOne => ~reg[m].open
      /\ revision \in Nat
  BY DEF RegistrationInv, LeaseInv, LeaseShut
<1>1. /\ Expired \in [Nodes -> Registration]
      /\ \A m \in Nodes : Expired[m].lease # NoOne => ~Expired[m].open
  BY <1>0, ExpiredFacts
<1>2. Drained(reg) /\ Drained(Expired)
  BY <1>0, <1>1, ExpiredFacts DEF Drained
\* One registration of a table changes.
<1>3. ASSUME NEW n \in Nodes, NEW r,
             reg' = [reg EXCEPT ![n] = r] \/ reg' = [Expired EXCEPT ![n] = r],
             r.revision = 0 \/ r.revision = revision + 1 \/ Follows(r, reg[n]),
             revision' = revision \/ revision' = revision + 1
      PROVE  AdmissionStep
  <2>1. /\ reg'[n] = r
        /\ \A m \in Nodes : m # n => reg'[m] = reg[m] \/ reg'[m] = Expired[m]
    BY <1>1, <1>3
  <2> QED BY <1>0, <1>3, <2>1, ExpiredFollows DEF AdmissionStep, Overtaken
<1>4. ASSUME reg' = reg \/ reg' = Expired, revision' = revision
      PROVE  AdmissionStep
  BY <1>0, <1>4, ExpiredFollows DEF AdmissionStep
<1>5. ASSUME NEW o \in Operations,
             \/ \E m \in Nodes : Inspect(o, m)
             \/ Admit(o) \/ AdmitRefused(o) \/ Release(o) \/ Revalidate(o)
      PROVE  AdmissionStep
  <2>0. op[o].at.node \in Nodes
    BY DEF OpType, SnapshotType
  <2> DEFINE n == op[o].at.node
  <2>1. CASE \E m \in Nodes : Inspect(o, m)
    BY <1>4, <2>1 DEF Inspect
  <2>2. CASE Admit(o)
    <3> DEFINE r == [Expired[n] EXCEPT !.admitted = Expired[n].admitted + 1]
    <3>1. Follows(r, reg[n])
      BY <1>0, <1>1, <2>0, ExpiredFollows DEF Follows, Registration
    <3>2. reg' = [Expired EXCEPT ![n] = r] /\ revision' = revision
      BY <2>2 DEF Admit
    <3> HIDE DEF r
    <3> QED BY <1>3, <2>0, <3>1, <3>2
  <2>3. CASE Release(o)
    <3> DEFINE r == [reg[n] EXCEPT !.admitted = reg[n].admitted - 1]
    <3>1. Follows(r, reg[n])
      BY <1>0, <2>0 DEF Follows, Registration
    <3>2. (reg' = reg \/ reg' = [reg EXCEPT ![n] = r]) /\ revision' = revision
      BY <2>3 DEF Release
    <3> HIDE DEF r
    <3> QED BY <1>3, <1>4, <2>0, <3>1, <3>2
  <2>4. CASE AdmitRefused(o) \/ Revalidate(o)
    BY <1>4, <2>4 DEF AdmitRefused, Revalidate
  <2> QED BY <1>5, <2>1, <2>2, <2>3, <2>4
<1>6. ASSUME NEW n \in Nodes, Rename(n) \/ LeaseLapses(n) PROVE AdmissionStep
  <2>1. CASE Rename(n)
    <3> DEFINE r == [Expired[n] EXCEPT !.revision = revision + 1]
    <3>1. reg' = [Expired EXCEPT ![n] = r] /\ revision' = revision + 1
      BY <2>1 DEF Rename
    <3>2. r.revision = revision + 1
      BY <1>1 DEF Registration
    <3> HIDE DEF r
    <3> QED BY <1>3, <3>1, <3>2
  <2>2. CASE LeaseLapses(n)
    <3> DEFINE r == [reg[n] EXCEPT !.lapsed = TRUE]
    <3>1. reg' = [reg EXCEPT ![n] = r] /\ revision' = revision
      BY <2>2 DEF LeaseLapses
    <3>2. Follows(r, reg[n])
      BY <1>0 DEF Follows, Registration
    <3> HIDE DEF r
    <3> QED BY <1>3, <3>1, <3>2
  <2> QED BY <1>6, <2>1, <2>2
<1>7. ASSUME NEW n \in Nodes, NEW t \in Targets, Add(n, t) PROVE AdmissionStep
  <2> DEFINE r == [Blank EXCEPT !.target = t, !.revision = revision + 1,
                                !.tombstone = tombstone]
  <2>1. reg' = [reg EXCEPT ![n] = r] /\ revision' = revision + 1
    BY <1>7 DEF Add
  <2>2. r.revision = revision + 1
    BY DEF Blank
  <2> HIDE DEF r
  <2> QED BY <1>3, <2>1, <2>2
<1>8. ASSUME NEW e \in Editors,
             \/ \E m \in Nodes, kind \in EditKinds, t \in Targets :
                  BeginEdit(e, m, kind, t)
             \/ WakeEdit(e) \/ TimeoutEdit(e)
      PROVE  AdmissionStep
  <2>0. edit[e] \in EditType /\ edit[e].node \in Nodes
    BY DEF EditType
  <2>1. ASSUME NEW m \in Nodes, NEW kind \in EditKinds, NEW t \in Targets,
               BeginEdit(e, m, kind, t)
        PROVE  AdmissionStep
    <3> DEFINE x == [pc |-> "waiting", node |-> m, kind |-> kind, target |-> t,
                     revision |-> Expired[m].revision]
               closed == [Expired[m] EXCEPT !.open = FALSE, !.epoch = Expired[m].epoch + 1]
               f == [Expired EXCEPT ![m] = closed]
    <3>1. x \in EditType
      BY <1>1 DEF EditType, EditSteps, Registration
    <3>2. /\ closed \in Registration /\ closed.target = Expired[m].target
          /\ closed.revision = Expired[m].revision
          /\ closed.tombstone = Expired[m].tombstone
          /\ closed.admitted = Expired[m].admitted
          /\ closed.lease = Expired[m].lease /\ ~closed.open
          /\ closed.epoch = Expired[m].epoch + 1
      <4>1. Expired[m] \in Registration /\ Expired[m].epoch + 1 \in Nat
        BY <1>1 DEF Registration
      <4>2. \A k \in Nat : [Expired[m] EXCEPT !.open = FALSE, !.epoch = k] \in Registration
        BY <4>1 DEF Registration
      <4>3. closed \in Registration
        BY <4>1, <4>2
      <4> QED BY <4>1, <4>3 DEF Registration
    <3>3. Commit(e, x, f) \/ (reg' = f /\ revision' = revision)
      BY <2>1, <1>1 DEF BeginEdit
    <3> HIDE DEF closed, x
    <3>4. Drained(f)
      BY <1>0, <1>1, <1>2, <3>2 DEF Drained
    <3>5. Follows(closed, reg[m])
      BY <1>0, <1>1, <3>2, ExpiredFollows DEF Follows, Registration
    <3>6. \A k \in Nodes : Follows(f[k], reg[k])
      BY <1>1, <3>5, ExpiredFollows
    <3>7. CASE Commit(e, x, f)
      <4> HIDE DEF f
      <4> QED BY <3>1, <3>4, <3>6, <3>7, CommitFollows
    <3>8. CASE reg' = f /\ revision' = revision
      BY <1>0, <3>6, <3>8 DEF AdmissionStep
    <3> QED BY <3>3, <3>7, <3>8
  <2>2. CASE WakeEdit(e)
    <3>1. Commit(e, edit[e], reg) \/ (reg' = reg /\ revision' = revision)
      BY <2>2 DEF WakeEdit
    <3> QED BY <1>2, <1>4, <2>0, <3>1, CommitFollows, ExpiredFollows
  <2>3. CASE TimeoutEdit(e)
    <3> DEFINE n == edit[e].node
    <3>1. /\ reg' = reg \/ reg' = [reg EXCEPT ![n] = Reopened(reg[n])]
          /\ revision' = revision
      BY <2>3 DEF TimeoutEdit
    <3>2. Follows(Reopened(reg[n]), reg[n])
      BY <1>0, <2>0, ReopenedFollows, ExpiredFollows
    <3> QED BY <1>3, <1>4, <2>0, <3>1, <3>2
  <2> QED BY <1>8, <2>1, <2>2, <2>3
<1>9. ASSUME NEW u \in Upgraders,
             \/ \E m \in Nodes : BeginUpgrade(u, m)
             \/ WakeUpgrade(u) \/ TimeoutUpgrade(u) \/ FinishUpgrade(u)
             \/ FinishUninstall(u) \/ Renew(u)
      PROVE  AdmissionStep
  <2> DEFINE n == upgrade[u].node
  <2>0. n \in Nodes
    BY DEF UpgradeType
  <2>1. ASSUME NEW m \in Nodes, BeginUpgrade(u, m) PROVE AdmissionStep
    <3> DEFINE r == [Expired[m] EXCEPT !.open = FALSE, !.epoch = Expired[m].epoch + 1,
                                       !.lease = u, !.lapsed = FALSE]
    <3>1. reg' = [Expired EXCEPT ![m] = r] /\ revision' = revision
      BY <2>1, <1>1, ZenonT(90) DEF BeginUpgrade
    <3>2. Follows(r, reg[m])
      BY <1>0, <1>1, ExpiredFollows DEF Follows, Registration
    <3> HIDE DEF r
    <3> QED BY <1>3, <3>1, <3>2
  <2>2. CASE WakeUpgrade(u)
    BY <1>4, <2>2 DEF WakeUpgrade
  <2>3. CASE TimeoutUpgrade(u)
    <3> DEFINE r == [reg[n] EXCEPT !.open = TRUE, !.lease = NoOne, !.lapsed = FALSE]
    <3>1. (reg' = reg \/ reg' = [reg EXCEPT ![n] = r]) /\ revision' = revision
      BY <2>3 DEF TimeoutUpgrade
    <3>2. Follows(r, reg[n])
      BY <1>0, <2>0 DEF Follows, Registration
    <3> HIDE DEF r
    <3> QED BY <1>3, <1>4, <2>0, <3>1, <3>2
  <2>4. CASE FinishUpgrade(u)
    <3> DEFINE r == [Expired[n] EXCEPT !.open = TRUE, !.lease = NoOne]
    <3>1. (reg' = Expired \/ reg' = [Expired EXCEPT ![n] = r]) /\ revision' = revision
      BY <1>1, <2>4 DEF FinishUpgrade
    <3>2. Follows(r, reg[n])
      BY <1>0, <1>1, <2>0, ExpiredFollows DEF Follows, Registration
    <3> HIDE DEF r
    <3> QED BY <1>3, <1>4, <2>0, <3>1, <3>2
  <2>5. CASE FinishUninstall(u)
    <3>1. reg' = [Expired EXCEPT ![n] = Blank] /\ revision' = revision
      BY <2>5 DEF FinishUninstall
    <3>2. Blank.revision = 0
      BY DEF Blank
    <3> QED BY <1>3, <2>0, <3>1, <3>2
  <2>6. CASE Renew(u)
    <3> DEFINE r == [Expired[n] EXCEPT !.lapsed = FALSE]
    <3>1. (reg' = Expired \/ reg' = [Expired EXCEPT ![n] = r]) /\ revision' = revision
      BY <2>6 DEF Renew
    <3>2. Follows(r, reg[n])
      BY <1>0, <1>1, <2>0, ExpiredFollows DEF Follows, Registration
    <3> HIDE DEF r
    <3> QED BY <1>3, <1>4, <2>0, <3>1, <3>2
  <2> QED BY <1>9, <2>1, <2>2, <2>3, <2>4, <2>5, <2>6
<1>10. CASE Sweep
  BY <1>4, <1>10 DEF Sweep
<1>11. CASE RegistrationStep
  BY <1>5, <1>6, <1>8, <1>9, <1>10, <1>11 DEF RegistrationStep
<1> QED BY <1>7, <1>11

\* The registrations behave as they do alone, whatever the workers do.
LEMMA ProjectionRoutes == Next => RegistrationNext \/ UNCHANGED regVars
<1> SUFFICES ASSUME Next PROVE RegistrationNext \/ UNCHANGED regVars
  OBVIOUS
<1>1. CASE Registrations
  BY <1>1 DEF Registrations, RegistrationNext
<1>2. CASE RemoveProjection
  BY <1>2 DEF RemoveProjection, RegistrationNext
<1>3. CASE DaemonRestarts
  BY <1>3 DEF DaemonRestarts, RegistrationNext
<1>4. ASSUME NEW n \in Nodes, NEW t \in Targets, AddNode(n, t)
      PROVE  RegistrationNext
  BY <1>4 DEF AddNode, RegistrationNext
<1>5. ASSUME NEW n \in Nodes,
             \/ StartWorker(n) \/ DismissShell(n) \/ RestoreShells(n)
             \/ OwnerApplies(n) \/ OwnerPublishes(n) \/ OwnerRepeats(n)
             \/ OwnerClosesShell(n) \/ OwnerRestarts(n)
             \/ WorkerInspect(n) \/ WorkerExits(n) \/ WorkerReadsCursor(n)
             \/ WorkerFetches(n) \/ WorkerNotifies(n)
      PROVE  UNCHANGED regVars
  BY <1>5 DEF StartWorker, DismissShell, RestoreShells, OwnerApplies,
     OwnerPublishes, OwnerRepeats, OwnerClosesShell, OwnerRestarts, WorkerInspect,
     WorkerExits, WorkerReadsCursor, WorkerFetches, WorkerNotifies
<1>6. ASSUME NEW n \in Nodes,
             \/ WorkerObserves(n) \/ WorkerCommits(n)
             \/ WorkerCommitFails(n) \/ WorkerClaims(n)
      PROVE  Sweep
  BY <1>6 DEF WorkerObserves, WorkerCommits, WorkerCommitFails, WorkerClaims, Sweep
<1>7. Sweep => RegistrationNext
  BY DEF RegistrationNext, RegistrationStep
<1> QED BY <1>1, <1>2, <1>3, <1>4, <1>5, <1>6, <1>7 DEF Next

\* The projection's daemon is one of the registrations' own behaviours, so
\* what is proved of those holds of it: routes, maintenance and leases.
THEOREM ProjectionIsRegistration == Spec => RegistrationSpec
<1>1. Init => RegistrationInit
  BY DEF Init
<1>2. [Next]_vars => [RegistrationNext]_regVars
  BY ProjectionRoutes DEF vars
<1> QED BY <1>1, <1>2, PTL DEF Spec, RegistrationSpec

LEMMA ProjectionRegistered == Spec => []RegistrationInv
<1> QED BY ProjectionIsRegistration, InitHolds, NextKeeps, PTL DEF RegistrationSpec

-----------------------------------------------------------------------------
(* Types.                                                                   *)

Cursors == [stream : Nat, id : Nat]
Claims == Nat \X Nat
Notices == Nodes \X Nat \X Claims
EntryType == [generation : Nat, tombstone : Nat, online : BOOLEAN,
              cursor : Cursors, shell : BOOLEAN, claims : SUBSET Claims,
              dismissed : BOOLEAN]
SyncType == [ok : BOOLEAN, resumed : BOOLEAN, cursor : Cursors, agent : Nat,
             shell : BOOLEAN, changes : SUBSET Nat]
WorkerType == [pc : WorkerSteps, at : SnapshotType, generation : Nat,
               after : Cursors, epoch : Nat, sync : SyncType,
               tell : SUBSET (Claims \cup Notices)]
OwnerType == [stream : Nat \ {0}, log : Seq(Nat), agent : Nat, ahead : BOOLEAN,
              shell : BOOLEAN]

CacheTyped == cache \in [Nodes -> EntryType]
ToldTyped ==
  told \in [once : SUBSET Notices, again : SUBSET Notices, lives : [Nodes -> Nat]]
\* A claim is named by its event until a worker is to notify it, and an
\* answer of the owner by a stream the owner has begun.
WorkersTyped ==
  /\ worker \in [Nodes -> WorkerType]
  /\ \A n \in Nodes :
       /\ worker[n].pc = "claim" => worker[n].tell \subseteq Claims
       /\ worker[n].pc = "notify" => worker[n].tell \subseteq Notices
       /\ worker[n].pc = "claim" \/ (worker[n].pc = "commit" /\ worker[n].sync.ok) =>
            worker[n].sync.cursor.stream # 0
\* What an owner has applied and not yet published is none of its events.
OwnersTyped ==
  /\ owner \in [Nodes -> OwnerType]
  /\ \A n \in Nodes :
       LET o == owner[n] IN
       /\ \A i \in DOMAIN o.log :
            o.log[i] \in 1..o.agent /\ (o.ahead => o.log[i] < o.agent)
       /\ o.ahead => o.agent > 0

ProjectionTypes ==
  CacheTyped /\ ToldTyped /\ WorkersTyped /\ OwnersTyped /\ starting \subseteq Nodes

LEMMA ConstantTypes ==
  /\ NoCursor \in Cursors /\ NoEntry \in EntryType /\ NoSync \in SyncType
  /\ NoWorker \in WorkerType
<1>1. NoCursor \in Cursors
  BY DEF NoCursor, Cursors
<1>2. NoEntry \in EntryType
  BY <1>1 DEF NoEntry, EntryType
<1>3. NoSync \in SyncType
  BY <1>1 DEF NoSync, SyncType
<1>4. IdleOp.at \in SnapshotType
  BY IdleTypes DEF OpType
<1>5. NoWorker \in WorkerType
  BY <1>1, <1>3, <1>4 DEF NoWorker, WorkerType, WorkerSteps
<1> QED BY <1>1, <1>2, <1>3, <1>5

LEMMA WorkerSet ==
  ASSUME WorkersTyped, NEW n \in Nodes, NEW x \in WorkerType,
         worker' = [worker EXCEPT ![n] = x],
         x.pc = "claim" => x.tell \subseteq Claims,
         x.pc = "notify" => x.tell \subseteq Notices,
         x.pc = "claim" \/ (x.pc = "commit" /\ x.sync.ok) => x.sync.cursor.stream # 0
  PROVE  WorkersTyped'
BY DEF WorkersTyped

\* A worker that starts over.
Fresh(pc) == [NoWorker EXCEPT !.pc = pc]
LEMMA FreshFacts ==
  \A pc \in WorkerSteps :
    /\ Fresh(pc) \in WorkerType /\ Fresh(pc).pc = pc /\ Fresh(pc).tell = {}
<1>1. NoWorker \in WorkerType /\ NoWorker.tell = {}
  BY ConstantTypes DEF NoWorker
<1> QED BY <1>1 DEF Fresh, WorkerType

LEMMA CandidateClaims ==
  ASSUME NEW w \in WorkerType, NEW e
  PROVE  Candidates(e, w) \subseteq Claims
BY DEF Candidates, Claims, WorkerType, SyncType, Cursors

LEMMA SyncTyped ==
  ASSUME NEW w \in WorkerType, NEW o \in OwnerType, NEW retained \in BOOLEAN
  PROVE  /\ Sync(w, o, retained) \in SyncType
         /\ Sync(w, o, retained).cursor.stream = o.stream
<1>1. /\ w.after \in Cursors /\ w.after.id \in Nat
      /\ o.stream \in Nat /\ o.stream # 0 /\ o.log \in Seq(Nat) /\ Len(o.log) \in Nat
      /\ o.agent \in Nat /\ o.shell \in BOOLEAN
  BY DEF WorkerType, OwnerType, Cursors
<1>2. \A i \in (w.after.id + 1)..Len(o.log) : o.log[i] \in Nat
  BY <1>1
<1>3. [stream |-> o.stream, id |-> Len(o.log)] \in Cursors
  BY <1>1 DEF Cursors
<1>4. {o.log[i] : i \in (w.after.id + 1)..Len(o.log)} \in SUBSET Nat
  BY <1>2
<1> QED BY <1>1, <1>3, <1>4 DEF Sync, SyncType

LEMMA WorkersKept ==
  ASSUME RegistrationTypeOK, ProjectionTypes, Next
  PROVE  WorkersTyped'
<1>0. /\ worker \in [Nodes -> WorkerType] /\ cache \in [Nodes -> EntryType]
      /\ owner \in [Nodes -> OwnerType] /\ reg \in [Nodes -> Registration]
      /\ Expired \in [Nodes -> Registration] /\ told.lives \in [Nodes -> Nat]
      /\ WorkersTyped
  BY ExpiredFacts
  DEF ProjectionTypes, CacheTyped, WorkersTyped, OwnersTyped, ToldTyped, RegistrationTypeOK
<1>1. ASSUME UNCHANGED worker PROVE WorkersTyped'
  BY <1>0, <1>1 DEF WorkersTyped
<1>2. ASSUME NEW n \in Nodes, NEW pc \in {"off", "top", "exiting"},
             worker' = [worker EXCEPT ![n] = [NoWorker EXCEPT !.pc = pc]]
      PROVE  WorkersTyped'
  <2>1. worker' = [worker EXCEPT ![n] = Fresh(pc)]
    BY <1>2 DEF Fresh
  <2>2. pc \in WorkerSteps
    BY DEF WorkerSteps
  <2> QED BY <1>0, <2>1, <2>2, FreshFacts, WorkerSet
<1>3. ASSUME Registrations \/ RemoveProjection PROVE WorkersTyped'
  BY <1>1, <1>3 DEF Registrations, RemoveProjection
<1>4. CASE DaemonRestarts
  <2>1. worker' = [n \in Nodes |-> Fresh(IF Registered(n) THEN "top" ELSE "off")]
    BY <1>4 DEF DaemonRestarts, Fresh
  <2>2. \A n \in Nodes : worker'[n] = Fresh("top") \/ worker'[n] = Fresh("off")
    BY <2>1
  <2>3. "top" \in WorkerSteps /\ "off" \in WorkerSteps
    BY DEF WorkerSteps
  <2>4. \A n \in Nodes : worker'[n] \in WorkerType /\ worker'[n].pc \in {"top", "off"}
    BY <2>2, <2>3, FreshFacts
  <2>5. worker' \in [Nodes -> WorkerType]
    BY <2>1, <2>4
  <2> QED BY <2>4, <2>5 DEF WorkersTyped
<1>5. ASSUME NEW n \in Nodes, NEW t \in Targets, AddNode(n, t)
      PROVE  WorkersTyped'
  BY <1>1, <1>5 DEF AddNode
<1>6. ASSUME NEW n \in Nodes,
             \/ DismissShell(n) \/ RestoreShells(n)
             \/ OwnerApplies(n) \/ OwnerPublishes(n) \/ OwnerRepeats(n)
             \/ OwnerClosesShell(n) \/ OwnerRestarts(n)
      PROVE  WorkersTyped'
  BY <1>1, <1>6 DEF DismissShell, RestoreShells, OwnerApplies, OwnerPublishes,
     OwnerRepeats, OwnerClosesShell, OwnerRestarts
<1>7. ASSUME NEW n \in Nodes,
             \/ StartWorker(n) \/ WorkerNotifies(n) \/ WorkerCommitFails(n)
      PROVE  WorkersTyped'
  <2>1. UNCHANGED worker \/ worker' = [worker EXCEPT ![n] = [NoWorker EXCEPT !.pc = "top"]]
    BY <1>7 DEF StartWorker, WorkerNotifies, WorkerCommitFails
  <2> QED BY <1>1, <1>2, <2>1 DEF WorkerSteps
<1>8. ASSUME NEW n \in Nodes, WorkerInspect(n) PROVE WorkersTyped'
  <2>1. CASE Registered(n)
    <3> DEFINE x == [NoWorker EXCEPT !.pc = "read", !.at = Snapshot(n)]
    <3>1. Snapshot(n) \in SnapshotType
      BY <1>0 DEF Snapshot, SnapshotType, Registration
    <3>2. x \in WorkerType /\ x.pc = "read"
      BY <3>1, ConstantTypes DEF WorkerType, WorkerSteps
    <3>3. worker' = [worker EXCEPT ![n] = x]
      BY <1>8, <2>1 DEF WorkerInspect
    <3> HIDE DEF x
    <3> QED BY <1>0, <3>2, <3>3, WorkerSet
  <2>2. CASE ~Registered(n)
    BY <1>2, <1>8, <2>2 DEF WorkerInspect, WorkerSteps
  <2> QED BY <2>1, <2>2
<1>9. ASSUME NEW n \in Nodes, WorkerExits(n) PROVE WorkersTyped'
  <2> DEFINE x == [worker[n] EXCEPT !.pc = "off"]
  <2>1. x \in WorkerType /\ x.pc = "off"
    BY <1>0 DEF WorkerType, WorkerSteps
  <2>2. worker' = [worker EXCEPT ![n] = x]
    BY <1>9 DEF WorkerExits
  <2> HIDE DEF x
  <2> QED BY <1>0, <2>1, <2>2, WorkerSet
<1>10. ASSUME NEW n \in Nodes, WorkerReadsCursor(n) PROVE WorkersTyped'
  <2> DEFINE w == worker[n]
             g == Generation(cache[n], w.at)
             a == IF cache[n].tombstone = w.at.tombstone THEN cache[n].cursor
                  ELSE NoCursor
             x == [w EXCEPT !.pc = "observe", !.generation = g, !.after = a]
  <2>1. g \in Nat /\ a \in Cursors
    BY <1>0, ConstantTypes DEF Generation, EntryType
  <2> HIDE DEF g, a
  <2>2. x \in WorkerType /\ x.pc = "observe"
    BY <1>0, <2>1 DEF WorkerType, WorkerSteps
  <2>3. worker' = [worker EXCEPT ![n].pc = "observe", ![n].generation = g, ![n].after = a]
    BY <1>10 DEF WorkerReadsCursor, g, a
  <2>4. worker' = [worker EXCEPT ![n] = x]
    BY <1>0, <2>3
  <2> HIDE DEF x
  <2> QED BY <1>0, <2>2, <2>4, WorkerSet
<1>11. ASSUME NEW n \in Nodes, WorkerObserves(n) PROVE WorkersTyped'
  <2> DEFINE w == worker[n]
             x == [w EXCEPT !.pc = "fetch", !.epoch = Expired[n].epoch]
  <2>1. \/ worker' = [worker EXCEPT ![n] = [NoWorker EXCEPT !.pc = "top"]]
        \/ worker' = [worker EXCEPT ![n].pc = "fetch", ![n].epoch = Expired[n].epoch]
    BY <1>11 DEF WorkerObserves
  <2>2. x \in WorkerType /\ x.pc = "fetch"
    BY <1>0 DEF WorkerType, WorkerSteps, Registration
  <2>3. CASE worker' = [worker EXCEPT ![n].pc = "fetch", ![n].epoch = Expired[n].epoch]
    <3>1. worker' = [worker EXCEPT ![n] = x]
      BY <1>0, <2>3
    <3> HIDE DEF x
    <3> QED BY <1>0, <2>2, <3>1, WorkerSet
  <2> QED BY <1>2, <2>1, <2>3 DEF WorkerSteps
<1>12. ASSUME NEW n \in Nodes, WorkerFetches(n) PROVE WorkersTyped'
  <2> DEFINE w == worker[n]
  <2>1. PICK sync \in {Sync(w, owner[n], TRUE), Sync(w, owner[n], FALSE), NoSync} :
          worker' = [worker EXCEPT ![n].pc = "commit", ![n].sync = sync,
                                   ![n].after = NoCursor]
    BY <1>12 DEF WorkerFetches
  <2> DEFINE x == [w EXCEPT !.pc = "commit", !.sync = sync, !.after = NoCursor]
  <2>2. sync \in SyncType /\ (sync.ok => sync.cursor.stream # 0)
    <3>1. owner[n].stream # 0 /\ owner[n] \in OwnerType /\ w \in WorkerType /\ ~NoSync.ok
      BY <1>0 DEF OwnerType, NoSync
    <3> QED BY <3>1, SyncTyped, ConstantTypes
  <2>3. x \in WorkerType /\ x.pc = "commit" /\ x.sync = sync
    BY <1>0, <2>2, ConstantTypes DEF WorkerType, WorkerSteps
  <2>4. worker' = [worker EXCEPT ![n] = x]
    BY <1>0, <2>1
  <2> HIDE DEF x
  <2> QED BY <1>0, <2>2, <2>3, <2>4, WorkerSet
<1>13. ASSUME NEW n \in Nodes, WorkerCommits(n) PROVE WorkersTyped'
  <2> DEFINE w == worker[n]
             s == [NoSync EXCEPT !.cursor = w.sync.cursor]
  <2>1. \/ worker' = [worker EXCEPT ![n] = [NoWorker EXCEPT !.pc = "top"]]
        \/ \E c \in {Candidates(cache[n], w)} :
             /\ w.pc = "commit" /\ w.sync.ok
             /\ worker' = [worker EXCEPT ![n].pc = "claim", ![n].tell = c, ![n].sync = s]
    BY <1>13 DEF WorkerCommits
  <2>2. ASSUME NEW c, c \subseteq Claims, w.pc = "commit", w.sync.ok,
               worker' = [worker EXCEPT ![n].pc = "claim", ![n].tell = c, ![n].sync = s]
        PROVE  WorkersTyped'
    <3> DEFINE x == [w EXCEPT !.pc = "claim", !.tell = c, !.sync = s]
    <3>1. s \in SyncType /\ s.cursor.stream # 0
      <4>1. s \in SyncType /\ s.cursor = w.sync.cursor
        BY <1>0, ConstantTypes DEF SyncType, WorkerType
      <4> QED BY <1>0, <2>2, <4>1 DEF WorkersTyped
    <3> HIDE DEF s
    <3>2. x \in WorkerType /\ x.pc = "claim" /\ x.tell = c /\ x.sync = s
      BY <1>0, <2>2, <3>1 DEF WorkerType, WorkerSteps
    <3>3. worker' = [worker EXCEPT ![n] = x]
      BY <1>0, <2>2
    <3> HIDE DEF x
    <3> QED BY <1>0, <2>2, <3>1, <3>2, <3>3, WorkerSet
  <2>3. Candidates(cache[n], w) \subseteq Claims
    BY <1>0, CandidateClaims
  <2> QED BY <1>2, <2>1, <2>2, <2>3 DEF WorkerSteps
<1>14. ASSUME NEW n \in Nodes, WorkerClaims(n) PROVE WorkersTyped'
  <2> DEFINE w == worker[n]
             c == {<<n, told.lives[n], d>> : d \in w.tell \ cache[n].claims}
             x == [w EXCEPT !.pc = "notify", !.tell = c]
  <2>1. \/ worker' = [worker EXCEPT ![n] = [NoWorker EXCEPT !.pc = "top"]]
        \/ worker' = [worker EXCEPT ![n].pc = "notify", ![n].tell =
                        {<<n, told.lives[n], d>> : d \in @ \ cache[n].claims}]
    BY <1>14 DEF WorkerClaims
  <2>2. w.tell \subseteq Claims
    BY <1>0, <1>14 DEF WorkerClaims, WorkersTyped
  <2>3. c \subseteq Notices
    BY <1>0, <2>2 DEF Notices
  <2>4. CASE worker' = [worker EXCEPT ![n].pc = "notify", ![n].tell =
                          {<<n, told.lives[n], d>> : d \in @ \ cache[n].claims}]
    <3>1. worker' = [worker EXCEPT ![n] = x]
      BY <1>0, <2>4
    <3> HIDE DEF c
    <3>2. x \in WorkerType /\ x.pc = "notify" /\ x.tell = c
      BY <1>0, <2>3 DEF WorkerType, WorkerSteps
    <3> HIDE DEF x
    <3> QED BY <1>0, <2>3, <3>1, <3>2, WorkerSet
  <2> QED BY <1>2, <2>1, <2>4 DEF WorkerSteps
<1> QED BY <1>3, <1>4, <1>5, <1>6, <1>7, <1>8, <1>9, <1>10, <1>11, <1>12,
           <1>13, <1>14 DEF Next

LEMMA OwnerSet ==
  ASSUME OwnersTyped, NEW n \in Nodes, NEW x \in OwnerType,
         owner' = [owner EXCEPT ![n] = x],
         \A i \in DOMAIN x.log :
           x.log[i] \in 1..x.agent /\ (x.ahead => x.log[i] < x.agent),
         x.ahead => x.agent > 0
  PROVE  OwnersTyped'
<1>1. owner'[n] = x /\ \A m \in Nodes : m # n => owner'[m] = owner[m]
  BY DEF OwnersTyped
<1>2. owner' \in [Nodes -> OwnerType]
  BY DEF OwnersTyped
<1> QED BY <1>1, <1>2 DEF OwnersTyped

LEMMA OwnersKept ==
  ASSUME OwnersTyped, Next
  PROVE  OwnersTyped'
<1>0. owner \in [Nodes -> OwnerType]
  BY DEF OwnersTyped
<1>1. ASSUME UNCHANGED owner PROVE OwnersTyped'
  BY <1>0, <1>1 DEF OwnersTyped
<1>2. ASSUME NEW n \in Nodes, NEW o \in OwnerType, o = owner[n], NEW x \in OwnerType,
             \/ /\ x.log = o.log /\ (x.agent = o.agent \/ x.agent = o.agent + 1)
                /\ x.ahead => o.ahead \/ x.agent = o.agent + 1
             \/ /\ x.log = Append(o.log, o.agent) /\ x.agent = o.agent
                /\ o.agent > 0 /\ ~x.ahead
             \/ x.log = <<>> /\ ~x.ahead,
             owner' = [owner EXCEPT ![n] = x]
      PROVE  OwnersTyped'
  <2>1. /\ o.log \in Seq(Nat) /\ o.agent \in Nat
        /\ \A i \in DOMAIN o.log :
             o.log[i] \in 1..o.agent /\ (o.ahead => o.log[i] < o.agent)
        /\ o.ahead => o.agent > 0
    BY <1>0, <1>2 DEF OwnersTyped, OwnerType
  <2>2. CASE /\ x.log = o.log /\ (x.agent = o.agent \/ x.agent = o.agent + 1)
             /\ x.ahead => o.ahead \/ x.agent = o.agent + 1
    <3>1. \A i \in DOMAIN x.log : x.log[i] \in 1..x.agent /\ (x.ahead => x.log[i] < x.agent)
      BY <2>1, <2>2
    <3>2. x.ahead => x.agent > 0
      BY <2>1, <2>2
    <3> QED BY <1>2, <3>1, <3>2, OwnerSet
  <2>3. CASE /\ x.log = Append(o.log, o.agent) /\ x.agent = o.agent
             /\ o.agent > 0 /\ ~x.ahead
    <3>1. /\ DOMAIN x.log = 1..(Len(o.log) + 1) /\ DOMAIN o.log = 1..Len(o.log)
          /\ \A i \in 1..Len(o.log) : x.log[i] = o.log[i]
          /\ x.log[Len(o.log) + 1] = o.agent /\ Len(o.log) \in Nat
      BY <2>1, <2>3
    <3>2. \A i \in DOMAIN x.log : i = Len(o.log) + 1 \/ i \in DOMAIN o.log
      BY <3>1
    <3>3. \A i \in DOMAIN x.log : x.log[i] \in 1..x.agent
      BY <2>1, <2>3, <3>1, <3>2
    <3> QED BY <1>2, <2>3, <3>3, OwnerSet
  <2>4. CASE x.log = <<>> /\ ~x.ahead
    <3>1. DOMAIN x.log = {}
      BY <2>4
    <3> QED BY <1>2, <2>4, <3>1, OwnerSet
  <2> QED BY <1>2, <2>2, <2>3, <2>4
<1>4. ASSUME NEW n \in Nodes,
             \/ OwnerApplies(n) \/ OwnerPublishes(n) \/ OwnerRepeats(n)
             \/ OwnerClosesShell(n) \/ OwnerRestarts(n)
      PROVE  OwnersTyped'
  <2> PICK o \in OwnerType : o = owner[n]
    BY <1>0
  <2>a. o.stream \in Nat \ {0} /\ o.log \in Seq(Nat) /\ o.agent \in Nat
    BY DEF OwnerType
  <2>b. o.ahead => o.agent > 0
    BY DEF OwnersTyped
  <2>0. /\ o.stream + 1 \in Nat \ {0} /\ o.agent + 1 \in Nat
        /\ o.ahead => o.agent - 1 \in Nat /\ o.agent > 0
        /\ Append(o.log, o.agent) \in Seq(Nat) /\ <<>> \in Seq(Nat)
    BY <2>a, <2>b
  <2>1. CASE OwnerApplies(n)
    <3> DEFINE x == [o EXCEPT !.agent = o.agent + 1, !.ahead = TRUE]
    <3>1. owner' = [owner EXCEPT ![n] = x]
      BY <1>0, <2>1 DEF OwnerApplies
    <3>2. x \in OwnerType /\ x.log = o.log /\ x.agent = o.agent + 1
      BY <2>0 DEF OwnerType
    <3> HIDE DEF x
    <3> QED BY <1>2, <3>1, <3>2
  <2>2. CASE OwnerPublishes(n)
    <3> DEFINE x == [o EXCEPT !.log = Append(o.log, o.agent), !.ahead = FALSE]
    <3>1. owner' = [owner EXCEPT ![n] = x] /\ o.agent > 0
      BY <1>0, <2>0, <2>2 DEF OwnerPublishes
    <3>2. /\ x \in OwnerType /\ x.log = Append(o.log, o.agent) /\ x.agent = o.agent
          /\ ~x.ahead
      BY <2>0 DEF OwnerType
    <3> HIDE DEF x
    <3> QED BY <1>2, <3>1, <3>2
  <2>3. CASE OwnerRepeats(n)
    <3> DEFINE x == [o EXCEPT !.log = Append(o.log, o.agent)]
    <3>1. owner' = [owner EXCEPT ![n] = x] /\ o.agent > 0 /\ ~o.ahead
      BY <1>0, <2>3 DEF OwnerRepeats
    <3>2. /\ x \in OwnerType /\ x.log = Append(o.log, o.agent) /\ x.agent = o.agent
          /\ x.ahead = o.ahead
      BY <2>0 DEF OwnerType
    <3> HIDE DEF x
    <3> QED BY <1>2, <3>1, <3>2
  <2>4. CASE OwnerClosesShell(n)
    <3> DEFINE x == [o EXCEPT !.shell = FALSE]
    <3>1. owner' = [owner EXCEPT ![n] = x]
      BY <1>0, <2>4 DEF OwnerClosesShell
    <3>2. /\ x \in OwnerType /\ x.log = o.log /\ x.agent = o.agent
          /\ x.ahead = o.ahead
      BY <2>0 DEF OwnerType
    <3> HIDE DEF x
    <3> QED BY <1>2, <3>1, <3>2
  <2>5. CASE OwnerRestarts(n)
    <3> DEFINE a == IF o.ahead THEN o.agent - 1 ELSE o.agent
               x == [o EXCEPT !.stream = o.stream + 1, !.log = <<>>, !.ahead = FALSE,
                              !.agent = a]
    <3>1. a \in Nat
      BY <2>0
    <3>2. owner' = [owner EXCEPT ![n] = x]
      BY <1>0, <2>5 DEF OwnerRestarts
    <3> HIDE DEF a
    <3>3. x \in OwnerType /\ x.log = <<>> /\ ~x.ahead
      BY <2>0, <3>1 DEF OwnerType
    <3> HIDE DEF x
    <3> QED BY <1>2, <3>2, <3>3
  <2> QED BY <1>4, <2>1, <2>2, <2>3, <2>4, <2>5
<1>5. ASSUME \/ Registrations \/ RemoveProjection \/ DaemonRestarts
             \/ \E n \in Nodes :
                  \/ \E t \in Targets : AddNode(n, t)
                  \/ StartWorker(n) \/ DismissShell(n) \/ RestoreShells(n)
                  \/ WorkerInspect(n) \/ WorkerExits(n) \/ WorkerReadsCursor(n)
                  \/ WorkerObserves(n) \/ WorkerFetches(n) \/ WorkerCommits(n)
                  \/ WorkerCommitFails(n) \/ WorkerClaims(n) \/ WorkerNotifies(n)
      PROVE  UNCHANGED owner
  BY <1>5 DEF Registrations, RemoveProjection, DaemonRestarts, AddNode, StartWorker,
     DismissShell, RestoreShells, WorkerInspect, WorkerExits, WorkerReadsCursor,
     WorkerObserves, WorkerFetches, WorkerCommits, WorkerCommitFails, WorkerClaims,
     WorkerNotifies
<1> QED BY <1>1, <1>4, <1>5 DEF Next

-----------------------------------------------------------------------------
(* What a step may do to a cache entry.                                     *)

\* An entry that was never committed is the missing one: nothing in it could
\* be taken for what a commit or a claim has left.
EmptyEntries ==
  \A n \in Nodes : cache[n].generation = 0 =>
    /\ cache[n].claims = {} /\ ~cache[n].dismissed /\ cache[n].cursor.stream = 0

Committed(n) ==
  LET e == cache[n]
      w == worker[n]
      f == cache'[n] IN
  /\ WorkerCommits(n) /\ StillObserved(n)
  /\ f.generation = w.generation + 1 /\ f.tombstone = w.at.tombstone
  /\ \/ /\ f.claims = (IF e.generation # 0 /\ e.tombstone = w.at.tombstone
                       THEN e.claims ELSE {})
        /\ f.dismissed = (e.generation # 0 /\ e.tombstone = w.at.tombstone
                            /\ e.dismissed /\ f.shell)
        /\ told' = IF e.tombstone # w.at.tombstone THEN Discarded(n) ELSE told
     \/ f.claims = e.claims /\ f.dismissed = e.dismissed /\ told' = told
Claimed(n) ==
  LET e == cache[n]
      f == cache'[n] IN
  /\ WorkerClaims(n) /\ e.generation # 0 /\ f.claims = e.claims \cup worker[n].tell
  /\ f.generation = e.generation /\ f.dismissed = e.dismissed
Kept(n) ==
  /\ cache'[n].generation = cache[n].generation
  /\ cache'[n].cursor = cache[n].cursor /\ cache'[n].claims = cache[n].claims
Hidden(n) ==
  Kept(n) /\ (cache'[n].dismissed = cache[n].dismissed
                \/ (cache'[n].dismissed /\ cache[n].generation # 0))
Restored(n) == RestoreShells(n) /\ Kept(n) /\ ~cache'[n].dismissed
Emptied(n) == cache'[n] = NoEntry /\ told' = Discarded(n) /\ UNCHANGED worker

EntryMoves ==
  \A n \in Nodes :
    \/ Committed(n) \/ Claimed(n) \/ Hidden(n) \/ Restored(n) \/ Emptied(n)

LEMMA CommitTypes ==
  ASSUME NEW e \in EntryType, NEW w \in WorkerType
  PROVE  /\ CommitProjection(e, w) \in EntryType /\ MarkHealth(e, w) \in EntryType
         /\ MarkHealth(e, w).generation = w.generation + 1
         /\ MarkHealth(e, w).tombstone = w.at.tombstone
         /\ MarkHealth(e, w).claims = e.claims
         /\ MarkHealth(e, w).dismissed = e.dismissed
         /\ CommitProjection(e, w).generation = w.generation + 1
         /\ CommitProjection(e, w).tombstone = w.at.tombstone
         /\ CommitProjection(e, w).claims =
              (IF e.generation # 0 /\ e.tombstone = w.at.tombstone THEN e.claims ELSE {})
         /\ CommitProjection(e, w).dismissed =
              (e.generation # 0 /\ e.tombstone = w.at.tombstone
                 /\ e.dismissed /\ CommitProjection(e, w).shell)
<1>1. /\ w.generation + 1 \in Nat /\ w.at.tombstone \in Nat
      /\ w.sync.cursor \in Cursors /\ w.sync.shell \in BOOLEAN
      /\ e.claims \in SUBSET Claims
  BY DEF WorkerType, SyncType, SnapshotType, EntryType
<1>2. CommitProjection(e, w) \in EntryType
  <2> DEFINE c == IF e.generation # 0 /\ e.tombstone = w.at.tombstone
                  THEN e.claims ELSE {}
             d == e.generation # 0 /\ e.tombstone = w.at.tombstone
                    /\ e.dismissed /\ w.sync.shell
  <2>1. c \in SUBSET Claims /\ d \in BOOLEAN
    BY <1>1
  <2>2. CommitProjection(e, w) =
          [generation |-> w.generation + 1, tombstone |-> w.at.tombstone,
           online |-> TRUE, cursor |-> w.sync.cursor,
           shell |-> w.sync.shell, claims |-> c, dismissed |-> d]
    BY Zenon DEF CommitProjection
  <2> HIDE DEF c, d
  <2> QED BY <1>1, <2>1, <2>2 DEF EntryType
<1>3. \A g, t \in Nat : [e EXCEPT !.generation = g, !.tombstone = t, !.online = FALSE]
                          \in EntryType
  BY DEF EntryType
<1>4. /\ CommitProjection(e, w).generation = w.generation + 1
      /\ CommitProjection(e, w).tombstone = w.at.tombstone
      /\ CommitProjection(e, w).claims =
           (IF e.generation # 0 /\ e.tombstone = w.at.tombstone THEN e.claims ELSE {})
      /\ CommitProjection(e, w).dismissed =
           (e.generation # 0 /\ e.tombstone = w.at.tombstone
              /\ e.dismissed /\ CommitProjection(e, w).shell)
  BY DEF CommitProjection
<1>5. /\ MarkHealth(e, w) \in EntryType
      /\ MarkHealth(e, w).generation = w.generation + 1
      /\ MarkHealth(e, w).tombstone = w.at.tombstone
      /\ MarkHealth(e, w).claims = e.claims
      /\ MarkHealth(e, w).dismissed = e.dismissed
  BY <1>1, <1>3 DEF MarkHealth, EntryType
<1> QED BY <1>2, <1>4, <1>5

LEMMA CacheMoves ==
  ASSUME RegistrationTypeOK, ProjectionTypes, EmptyEntries, Next
  PROVE  CacheTyped' /\ EntryMoves
<1>0. /\ worker \in [Nodes -> WorkerType] /\ cache \in [Nodes -> EntryType]
      /\ CacheTyped /\ WorkersTyped /\ told.lives \in [Nodes -> Nat]
  BY DEF ProjectionTypes, CacheTyped, WorkersTyped, ToldTyped
<1>1. ASSUME UNCHANGED cache PROVE CacheTyped' /\ EntryMoves
  BY <1>0, <1>1 DEF CacheTyped, EntryMoves, Hidden, Kept
\* One entry changes.
<1>2. ASSUME NEW n \in Nodes, NEW e \in EntryType, cache' = [cache EXCEPT ![n] = e],
             cache'[n] = e =>
               Committed(n) \/ Claimed(n) \/ Hidden(n) \/ Restored(n) \/ Emptied(n)
      PROVE  CacheTyped' /\ EntryMoves
  <2>1. cache'[n] = e /\ \A m \in Nodes : m # n => cache'[m] = cache[m]
    BY <1>0, <1>2
  <2>2. CacheTyped'
    BY <1>0, <1>2 DEF CacheTyped
  <2>3. \A m \in Nodes : m # n => Hidden(m)
    BY <2>1 DEF Hidden, Kept
  <2> QED BY <1>2, <2>1, <2>2, <2>3 DEF EntryMoves
<1>3. ASSUME NEW n \in Nodes, WorkerCommits(n) PROVE CacheTyped' /\ EntryMoves
  <2> PICK e \in EntryType, w \in WorkerType : e = cache[n] /\ w = worker[n]
    BY <1>0
  <2> DEFINE x == IF w.sync.ok THEN CommitProjection(e, w) ELSE MarkHealth(e, w)
  <2>1. \/ UNCHANGED cache
        \/ StillObserved(n) /\ Generation(cache[n], w.at) = w.generation
    BY <1>3 DEF WorkerCommits
  <2>2. CASE StillObserved(n) /\ Generation(cache[n], w.at) = w.generation
    <3>1. /\ cache' = [cache EXCEPT ![n] = x]
          /\ told' = IF w.sync.ok /\ e.tombstone # w.at.tombstone
                     THEN Discarded(n) ELSE told
      BY <1>3, <2>2 DEF WorkerCommits
    <3>2. x \in EntryType
      BY CommitTypes
    <3>3. ASSUME cache'[n] = x PROVE Committed(n)
      <4>1. CASE w.sync.ok
        BY <1>3, <2>2, <3>1, <3>3, <4>1, CommitTypes DEF Committed
      <4>2. CASE ~w.sync.ok
        BY <1>3, <2>2, <3>1, <3>3, <4>2, CommitTypes DEF Committed
      <4> QED BY <4>1, <4>2
    <3> HIDE DEF x
    <3> QED BY <1>2, <3>1, <3>2, <3>3
  <2> QED BY <1>1, <2>1, <2>2
<1>4. ASSUME NEW n \in Nodes, WorkerClaims(n) PROVE CacheTyped' /\ EntryMoves
  <2> PICK e \in EntryType, w \in WorkerType : e = cache[n] /\ w = worker[n]
    BY <1>0
  <2> DEFINE x == [e EXCEPT !.claims = e.claims \cup w.tell]
  <2>1. UNCHANGED cache \/ (cache' = [cache EXCEPT ![n] = x] /\ e.cursor = w.sync.cursor)
    BY <1>4 DEF WorkerClaims
  <2>2. w.tell \subseteq Claims /\ w.sync.cursor.stream # 0
    BY <1>0, <1>4 DEF WorkerClaims, WorkersTyped
  <2>3. /\ x \in EntryType /\ x.claims = e.claims \cup w.tell
        /\ x.generation = e.generation /\ x.dismissed = e.dismissed
    BY <2>2 DEF EntryType
  <2>4. e.cursor = w.sync.cursor => e.generation # 0
    BY <2>2 DEF EmptyEntries
  <2> HIDE DEF x
  <2>5. ASSUME cache'[n] = x, e.cursor = w.sync.cursor PROVE Claimed(n)
    BY <1>4, <2>3, <2>4, <2>5 DEF Claimed
  <2> QED BY <1>1, <1>2, <2>1, <2>3, <2>5
<1>5. ASSUME NEW n \in Nodes, DismissShell(n) \/ RestoreShells(n)
      PROVE  CacheTyped' /\ EntryMoves
  <2> PICK e \in EntryType : e = cache[n]
    BY <1>0
  <2>1. CASE DismissShell(n)
    <3> DEFINE x == [e EXCEPT !.dismissed = TRUE]
    <3>1. cache' = [cache EXCEPT ![n] = x] /\ e.generation # 0
      BY <1>0, <2>1 DEF DismissShell
    <3>2. /\ x \in EntryType /\ x.dismissed /\ x.generation = e.generation
          /\ x.cursor = e.cursor /\ x.claims = e.claims
      BY DEF EntryType
    <3> HIDE DEF x
    <3>3. cache'[n] = x => Hidden(n)
      BY <3>1, <3>2 DEF Hidden, Kept
    <3> QED BY <1>2, <3>1, <3>2, <3>3
  <2>2. CASE RestoreShells(n)
    <3> DEFINE x == [e EXCEPT !.dismissed = FALSE]
    <3>1. cache' = [cache EXCEPT ![n] = x]
      BY <1>0, <2>2 DEF RestoreShells
    <3>2. /\ x \in EntryType /\ ~x.dismissed /\ x.generation = e.generation
          /\ x.cursor = e.cursor /\ x.claims = e.claims
      BY DEF EntryType
    <3> HIDE DEF x
    <3>3. cache'[n] = x => Restored(n)
      BY <2>2, <3>2 DEF Restored, Kept
    <3> QED BY <1>2, <3>1, <3>2, <3>3
  <2> QED BY <1>5, <2>1, <2>2
<1>6. CASE RemoveProjection
  <2>1. PICK n : Removed(n) /\ n \in Nodes
    BY <1>6, TypeParts DEF RemoveProjection, EditType, UpgradeType
  <2>2. UNCHANGED worker
    BY <1>6 DEF RemoveProjection
  <2>3. CASE cache' = [cache EXCEPT ![n] = NoEntry] /\ told' = Discarded(n)
    <3>1. cache'[n] = NoEntry => Emptied(n)
      BY <2>2, <2>3 DEF Emptied
    <3> QED BY <1>2, <2>1, <2>3, <3>1, ConstantTypes
  <2> QED BY <1>1, <2>1, <2>3 DEF Removed
<1>7. CASE DaemonRestarts
  <2>1. cache' = [n \in Nodes |-> [cache[n] EXCEPT !.online = FALSE]]
    BY <1>7 DEF DaemonRestarts
  <2>2. \A n \in Nodes :
          LET x == [cache[n] EXCEPT !.online = FALSE] IN
          /\ x \in EntryType /\ x.generation = cache[n].generation
          /\ x.dismissed = cache[n].dismissed
          /\ x.cursor = cache[n].cursor /\ x.claims = cache[n].claims
    BY <1>0 DEF EntryType
  <2>3. CacheTyped'
    BY <2>1, <2>2 DEF CacheTyped
  <2>4. \A n \in Nodes : Hidden(n)
    BY <2>1, <2>2 DEF Hidden, Kept
  <2> QED BY <2>3, <2>4 DEF EntryMoves
<1>8. ASSUME \/ Registrations
             \/ \E n \in Nodes :
                  \/ \E t \in Targets : AddNode(n, t)
                  \/ StartWorker(n)
                  \/ OwnerApplies(n) \/ OwnerPublishes(n) \/ OwnerRepeats(n)
                  \/ OwnerClosesShell(n) \/ OwnerRestarts(n)
                  \/ WorkerInspect(n) \/ WorkerExits(n) \/ WorkerReadsCursor(n)
                  \/ WorkerObserves(n) \/ WorkerFetches(n)
                  \/ WorkerCommitFails(n) \/ WorkerNotifies(n)
      PROVE  UNCHANGED cache
  BY <1>8 DEF Registrations, AddNode, StartWorker, OwnerApplies, OwnerPublishes,
     OwnerRepeats, OwnerClosesShell, OwnerRestarts, WorkerInspect, WorkerExits,
     WorkerReadsCursor, WorkerObserves, WorkerFetches, WorkerCommitFails,
     WorkerNotifies
<1> QED BY <1>1, <1>3, <1>4, <1>5, <1>6, <1>7, <1>8 DEF Next

LEMMA EmptyKept ==
  ASSUME WorkersTyped, CacheTyped, EmptyEntries, EntryMoves
  PROVE  EmptyEntries'
<1> SUFFICES ASSUME NEW n \in Nodes, cache'[n].generation = 0
             PROVE  /\ cache'[n].claims = {} /\ ~cache'[n].dismissed
                    /\ cache'[n].cursor.stream = 0
  BY DEF EmptyEntries
<1>1. Hidden(n) \/ Restored(n) \/ Emptied(n)
  <2>1. worker[n].generation + 1 # 0
    BY DEF WorkersTyped, WorkerType
  <2> QED BY <2>1 DEF EntryMoves, Committed, Claimed
<1>2. CASE Hidden(n) \/ Restored(n)
  BY <1>2 DEF Hidden, Restored, Kept, EmptyEntries
<1>3. CASE Emptied(n)
  BY <1>3 DEF Emptied, NoEntry, NoCursor
<1> QED BY <1>1, <1>2, <1>3

-----------------------------------------------------------------------------
(* What a step may do to a worker.                                          *)

Steady(n) == worker'[n] = worker[n]
Resting(n) == worker'[n].pc \in {"off", "top", "exiting", "claim"}
Inspected(n) ==
  worker'[n].pc = "read" /\ worker'[n].at = Snapshot(n) /\ Registered(n)
Proceeds(n) ==
  /\ <<worker[n].pc, worker'[n].pc>> \in {<<"read", "observe">>, <<"fetch", "commit">>}
  /\ worker'[n].at = worker[n].at /\ worker'[n].epoch = worker[n].epoch
  /\ UNCHANGED <<regVars, crossed>>
Observes(n) ==
  /\ WorkerObserves(n) /\ IsCurrent(Expired[n], worker[n].at)
  /\ worker'[n].pc = "fetch" /\ worker'[n].at = worker[n].at
  /\ worker'[n].epoch = Expired[n].epoch
Announces(n) ==
  /\ WorkerClaims(n) /\ worker'[n].pc = "notify"
  /\ worker'[n].tell = {<<n, told.lives[n], c>> : c \in worker[n].tell \ cache[n].claims}
  /\ cache'[n].claims = cache[n].claims \cup worker[n].tell

WorkerMoves ==
  \A n \in Nodes :
    \/ Steady(n) \/ Resting(n) \/ Inspected(n) \/ Proceeds(n) \/ Observes(n)
    \/ Announces(n)

LEMMA WorkersMove ==
  ASSUME ProjectionTypes, Next
  PROVE  WorkerMoves
<1>0. /\ worker \in [Nodes -> WorkerType] /\ cache \in [Nodes -> EntryType]
  BY DEF ProjectionTypes, CacheTyped, WorkersTyped
<1>1. ASSUME UNCHANGED worker PROVE WorkerMoves
  BY <1>1 DEF WorkerMoves, Steady
\* One worker moves.
<1>2. ASSUME NEW n \in Nodes, NEW x, worker' = [worker EXCEPT ![n] = x],
             worker'[n] = x =>
               \/ Resting(n) \/ Inspected(n) \/ Proceeds(n) \/ Observes(n)
               \/ Announces(n)
      PROVE  WorkerMoves
  <2>1. worker'[n] = x /\ \A m \in Nodes : m # n => worker'[m] = worker[m]
    BY <1>0, <1>2
  <2> QED BY <1>2, <2>1 DEF WorkerMoves, Steady
<1>3. ASSUME NEW n \in Nodes, NEW pc \in {"off", "top", "exiting"},
             worker' = [worker EXCEPT ![n] = [NoWorker EXCEPT !.pc = pc]]
      PROVE  WorkerMoves
  <2>1. [NoWorker EXCEPT !.pc = pc].pc = pc
    BY DEF NoWorker
  <2>2. worker'[n] = [NoWorker EXCEPT !.pc = pc] => Resting(n)
    BY <2>1 DEF Resting
  <2> QED BY <1>2, <1>3, <2>2, Zenon
<1>4. CASE DaemonRestarts
  <2>1. \A n \in Nodes : worker'[n] = Fresh("top") \/ worker'[n] = Fresh("off")
    BY <1>4 DEF DaemonRestarts, Fresh
  <2>2. "top" \in WorkerSteps /\ "off" \in WorkerSteps
    BY DEF WorkerSteps
  <2>3. \A n \in Nodes : Resting(n)
    BY <2>1, <2>2, FreshFacts DEF Resting
  <2> QED BY <2>3 DEF WorkerMoves
<1>5. ASSUME NEW n \in Nodes,
             \/ StartWorker(n) \/ WorkerNotifies(n) \/ WorkerCommitFails(n)
      PROVE  WorkerMoves
  <2>1. UNCHANGED worker \/ worker' = [worker EXCEPT ![n] = [NoWorker EXCEPT !.pc = "top"]]
    BY <1>5 DEF StartWorker, WorkerNotifies, WorkerCommitFails
  <2> QED BY <1>1, <1>3, <2>1
<1>6. ASSUME NEW n \in Nodes, WorkerInspect(n) PROVE WorkerMoves
  <2>1. CASE Registered(n)
    <3> DEFINE x == [NoWorker EXCEPT !.pc = "read", !.at = Snapshot(n)]
    <3>1. worker' = [worker EXCEPT ![n] = x]
      BY <1>6, <2>1 DEF WorkerInspect
    <3>2. x.pc = "read" /\ x.at = Snapshot(n)
      BY DEF NoWorker
    <3> HIDE DEF x
    <3> QED BY <1>2, <2>1, <3>1, <3>2 DEF Inspected
  <2>2. CASE ~Registered(n)
    BY <1>3, <1>6, <2>2 DEF WorkerInspect
  <2> QED BY <2>1, <2>2
<1>7. ASSUME NEW n \in Nodes, WorkerExits(n) PROVE WorkerMoves
  <2> DEFINE x == [worker[n] EXCEPT !.pc = "off"]
  <2>1. worker' = [worker EXCEPT ![n] = x]
    BY <1>7 DEF WorkerExits
  <2>2. x.pc = "off"
    BY <1>0 DEF WorkerType
  <2> HIDE DEF x
  <2> QED BY <1>2, <2>1, <2>2 DEF Resting
<1>8. ASSUME NEW n \in Nodes, WorkerReadsCursor(n) PROVE WorkerMoves
  <2> DEFINE w == worker[n]
  <2>1. PICK g, a : worker' = [worker EXCEPT ![n].pc = "observe", ![n].generation = g,
                                             ![n].after = a]
    BY <1>8 DEF WorkerReadsCursor
  <2> DEFINE x == [w EXCEPT !.pc = "observe", !.generation = g, !.after = a]
  <2>2. worker' = [worker EXCEPT ![n] = x]
    BY <1>0, <2>1
  <2>3. x.pc = "observe" /\ x.at = w.at /\ x.epoch = w.epoch
    BY <1>0 DEF WorkerType
  <2>4. w.pc = "read" /\ UNCHANGED <<regVars, crossed>>
    BY <1>8 DEF WorkerReadsCursor
  <2> HIDE DEF x
  <2>5. worker'[n] = x => Proceeds(n)
    BY <2>3, <2>4 DEF Proceeds
  <2> QED BY <1>2, <2>2, <2>5
<1>9. ASSUME NEW n \in Nodes, WorkerObserves(n) PROVE WorkerMoves
  <2> DEFINE w == worker[n]
             x == [w EXCEPT !.pc = "fetch", !.epoch = Expired[n].epoch]
  <2>1. \/ worker' = [worker EXCEPT ![n] = [NoWorker EXCEPT !.pc = "top"]]
        \/ /\ worker' = [worker EXCEPT ![n].pc = "fetch", ![n].epoch = Expired[n].epoch]
           /\ IsCurrent(Expired[n], w.at)
    BY <1>9 DEF WorkerObserves
  <2>2. CASE /\ worker' = [worker EXCEPT ![n].pc = "fetch", ![n].epoch = Expired[n].epoch]
             /\ IsCurrent(Expired[n], w.at)
    <3>1. worker' = [worker EXCEPT ![n] = x]
      BY <1>0, <2>2
    <3>2. x.pc = "fetch" /\ x.at = w.at /\ x.epoch = Expired[n].epoch
      BY <1>0 DEF WorkerType
    <3> HIDE DEF x
    <3>3. worker'[n] = x => Observes(n)
      BY <1>9, <2>2, <3>2 DEF Observes
    <3> QED BY <1>2, <3>1, <3>3
  <2> QED BY <1>3, <2>1, <2>2
<1>10. ASSUME NEW n \in Nodes, WorkerFetches(n) PROVE WorkerMoves
  <2> DEFINE w == worker[n]
  <2>1. PICK s : worker' = [worker EXCEPT ![n].pc = "commit", ![n].sync = s,
                                          ![n].after = NoCursor]
    BY <1>10 DEF WorkerFetches
  <2> DEFINE x == [w EXCEPT !.pc = "commit", !.sync = s, !.after = NoCursor]
  <2>2. worker' = [worker EXCEPT ![n] = x]
    BY <1>0, <2>1
  <2>3. x.pc = "commit" /\ x.at = w.at /\ x.epoch = w.epoch
    BY <1>0 DEF WorkerType
  <2>4. w.pc = "fetch" /\ UNCHANGED <<regVars, crossed>>
    BY <1>10 DEF WorkerFetches
  <2> HIDE DEF x
  <2>5. worker'[n] = x => Proceeds(n)
    BY <2>3, <2>4 DEF Proceeds
  <2> QED BY <1>2, <2>2, <2>5
<1>11. ASSUME NEW n \in Nodes, WorkerCommits(n) PROVE WorkerMoves
  <2> DEFINE w == worker[n]
  <2>1. \/ worker' = [worker EXCEPT ![n] = [NoWorker EXCEPT !.pc = "top"]]
        \/ \E c, s : worker' = [worker EXCEPT ![n].pc = "claim", ![n].tell = c, ![n].sync = s]
    BY <1>11 DEF WorkerCommits
  <2>2. ASSUME NEW c, NEW s,
               worker' = [worker EXCEPT ![n].pc = "claim", ![n].tell = c, ![n].sync = s]
        PROVE  WorkerMoves
    <3> DEFINE x == [w EXCEPT !.pc = "claim", !.tell = c, !.sync = s]
    <3>1. worker' = [worker EXCEPT ![n] = x]
      BY <1>0, <2>2
    <3>2. x.pc = "claim"
      BY <1>0 DEF WorkerType
    <3> HIDE DEF x
    <3> QED BY <1>2, <3>1, <3>2 DEF Resting
  <2> QED BY <1>3, <2>1, <2>2
<1>12. ASSUME NEW n \in Nodes, WorkerClaims(n) PROVE WorkerMoves
  <2> DEFINE w == worker[n]
             c == {<<n, told.lives[n], d>> : d \in w.tell \ cache[n].claims}
             x == [w EXCEPT !.pc = "notify", !.tell = c]
  <2>1. \/ worker' = [worker EXCEPT ![n] = [NoWorker EXCEPT !.pc = "top"]]
        \/ /\ worker' = [worker EXCEPT ![n].pc = "notify", ![n].tell =
                           {<<n, told.lives[n], d>> : d \in @ \ cache[n].claims}]
           /\ cache' = [cache EXCEPT ![n].claims = @ \cup w.tell]
    BY <1>12 DEF WorkerClaims
  <2>2. CASE /\ worker' = [worker EXCEPT ![n].pc = "notify", ![n].tell =
                             {<<n, told.lives[n], d>> : d \in @ \ cache[n].claims}]
             /\ cache' = [cache EXCEPT ![n].claims = @ \cup w.tell]
    <3>1. worker' = [worker EXCEPT ![n] = x]
      BY <1>0, <2>2
    <3>2. cache'[n].claims = cache[n].claims \cup w.tell
      BY <1>0, <2>2 DEF EntryType
    <3> HIDE DEF c
    <3>3. x.pc = "notify" /\ x.tell = c
      BY <1>0 DEF WorkerType
    <3> HIDE DEF x
    <3>4. worker'[n] = x => Announces(n)
      BY <1>12, <3>2, <3>3, Zenon DEF Announces, c
    <3> QED BY <1>2, <3>1, <3>4
  <2> QED BY <1>3, <2>1, <2>2
<1>13. ASSUME \/ Registrations \/ RemoveProjection
              \/ \E n \in Nodes :
                   \/ \E t \in Targets : AddNode(n, t)
                   \/ DismissShell(n) \/ RestoreShells(n)
                   \/ OwnerApplies(n) \/ OwnerPublishes(n) \/ OwnerRepeats(n)
                   \/ OwnerClosesShell(n) \/ OwnerRestarts(n)
       PROVE  UNCHANGED worker
  BY <1>13 DEF Registrations, RemoveProjection, AddNode, DismissShell, RestoreShells,
     OwnerApplies, OwnerPublishes, OwnerRepeats, OwnerClosesShell, OwnerRestarts
<1> QED BY <1>1, <1>4, <1>5, <1>6, <1>7, <1>8, <1>9, <1>10, <1>11, <1>12, <1>13 DEF Next

-----------------------------------------------------------------------------
(* A worker between its observation and its commit.                         *)

\* What a worker observed is overtaken, or its epoch tells whether admission
\* has closed since.
Overlap ==
  \A n \in Nodes :
    LET r == reg[n]
        w == worker[n] IN
    /\ w.pc \in {"read", "observe", "fetch", "commit"} =>
         w.at.revision # 0 /\ w.at.revision <= revision
    /\ w.pc \in {"fetch", "commit"} /\ r.revision = w.at.revision
         /\ r.tombstone = w.at.tombstone =>
         w.epoch <= r.epoch /\ (n \in crossed => w.epoch < r.epoch)

\* Every closing of an admission is remembered.
LEMMA ClosingsCross ==
  ASSUME RegistrationInv, Next, ~DaemonRestarts
  PROVE  /\ AdmissionStep
         /\ \A n \in Nodes : n \in crossed' =>
              n \in crossed \/ (reg[n].open /\ ~reg'[n].open)
<1>0. RegistrationTypeOK /\ revision \in Nat
  BY DEF RegistrationInv, RegistrationTypeOK
<1>1. ASSUME UNCHANGED <<reg, revision>> PROVE AdmissionStep
  BY <1>0, <1>1, ExpiredFollows DEF AdmissionStep
<1>2. CASE Registrations
  BY <1>2, AdmissionMoves DEF Registrations
<1>3. RemoveProjection => AdmissionStep
  BY <1>1 DEF RemoveProjection, CleanedUp, UninstallCleanedUp
<1>4. ASSUME NEW n \in Nodes, NEW t \in Targets, AddNode(n, t)
      PROVE  AdmissionStep /\ crossed' = crossed
  BY <1>4, AdmissionMoves DEF AddNode
<1>5. ASSUME NEW n \in Nodes,
             \/ StartWorker(n) \/ DismissShell(n) \/ RestoreShells(n)
             \/ OwnerApplies(n) \/ OwnerPublishes(n) \/ OwnerRepeats(n)
             \/ OwnerClosesShell(n) \/ OwnerRestarts(n)
             \/ WorkerInspect(n) \/ WorkerExits(n) \/ WorkerReadsCursor(n)
             \/ WorkerFetches(n) \/ WorkerNotifies(n)
      PROVE  AdmissionStep /\ crossed' = crossed
  <2>1. UNCHANGED regVars /\ crossed' = crossed
    BY <1>5 DEF StartWorker, DismissShell, RestoreShells, OwnerApplies,
       OwnerPublishes, OwnerRepeats, OwnerClosesShell, OwnerRestarts, WorkerInspect,
       WorkerExits, WorkerReadsCursor, WorkerFetches, WorkerNotifies
  <2> QED BY <1>1, <2>1 DEF regVars
<1>6. ASSUME NEW n \in Nodes,
             \/ WorkerObserves(n) \/ WorkerCommits(n)
             \/ WorkerCommitFails(n) \/ WorkerClaims(n)
      PROVE  AdmissionStep /\ crossed' \subseteq crossed
  <2>1. Sweep /\ crossed' \subseteq crossed
    BY <1>6 DEF WorkerObserves, WorkerCommits, WorkerCommitFails, WorkerClaims, Sweep
  <2> QED BY <2>1, AdmissionMoves DEF RegistrationStep
<1>7. RemoveProjection => crossed' = crossed
  BY DEF RemoveProjection
<1>8. Registrations => \A n \in Nodes : n \in crossed' =>
        n \in crossed \/ (reg[n].open /\ ~reg'[n].open)
  BY DEF Registrations
<1> QED BY <1>2, <1>3, <1>4, <1>5, <1>6, <1>7, <1>8 DEF Next

LEMMA OverlapKept ==
  ASSUME RegistrationInv, RegistrationTypeOK', ProjectionTypes, WorkersTyped', Overlap, Next
  PROVE  Overlap'
<1>0. /\ \A n \in Nodes : reg[n] \in Registration /\ reg'[n] \in Registration
      /\ \A n \in Nodes : reg[n].revision <= revision
      /\ worker \in [Nodes -> WorkerType] /\ worker' \in [Nodes -> WorkerType]
      /\ RegistrationTypeOK /\ revision \in Nat /\ revision' \in Nat
  BY DEF RegistrationInv, RegistrationTypeOK, RouteInv, RevisionsIssued,
         ProjectionTypes, WorkersTyped
<1>a. \A n \in Nodes :
        /\ worker[n].at.revision \in Nat /\ worker[n].epoch \in Nat
        /\ worker'[n].at.revision \in Nat /\ worker'[n].epoch \in Nat
        /\ reg[n].epoch \in Nat /\ reg'[n].epoch \in Nat
  BY <1>0 DEF WorkerType, SnapshotType, Registration
<1>1. CASE DaemonRestarts
  <2>1. \A n \in Nodes : worker'[n] = Fresh("top") \/ worker'[n] = Fresh("off")
    BY <1>1 DEF DaemonRestarts, Fresh
  <2>2. "top" \in WorkerSteps /\ "off" \in WorkerSteps
    BY DEF WorkerSteps
  <2>3. \A n \in Nodes : worker'[n].pc \in {"top", "off"}
    BY <2>1, <2>2, FreshFacts
  <2> QED BY <2>3 DEF Overlap
<1>2. CASE ~DaemonRestarts
  <2>0. /\ AdmissionStep
        /\ \A n \in Nodes : n \in crossed' =>
             n \in crossed \/ (reg[n].open /\ ~reg'[n].open)
    BY <1>2, ClosingsCross
  <2> SUFFICES ASSUME NEW n \in Nodes
               PROVE  LET r == reg'[n]
                          w == worker'[n] IN
                      /\ w.pc \in {"read", "observe", "fetch", "commit"} =>
                           w.at.revision # 0 /\ w.at.revision <= revision'
                      /\ w.pc \in {"fetch", "commit"} /\ r.revision = w.at.revision
                           /\ r.tombstone = w.at.tombstone =>
                           w.epoch <= r.epoch /\ (n \in crossed' => w.epoch < r.epoch)
    BY DEF Overlap
  <2>1. revision' >= revision /\ (Overtaken(n) \/ Follows(reg'[n], reg[n]))
    BY <2>0 DEF AdmissionStep
  <2>2. CASE Steady(n)
    <3> DEFINE w == worker[n]
    <3>1. w.pc \in {"read", "observe", "fetch", "commit"} =>
            w.at.revision # 0 /\ w.at.revision <= revision
      BY DEF Overlap
    <3>2. CASE Overtaken(n)
      BY <1>0, <1>a, <2>1, <2>2, <3>1, <3>2 DEF Overtaken, Steady
    <3>3. CASE Follows(reg'[n], reg[n])
      <4>1. /\ reg'[n].revision = reg[n].revision /\ reg'[n].tombstone = reg[n].tombstone
            /\ reg'[n].epoch >= reg[n].epoch
            /\ reg[n].open /\ ~reg'[n].open => reg'[n].epoch > reg[n].epoch
        BY <3>3 DEF Follows
      <4>2. w.pc \in {"fetch", "commit"} /\ reg[n].revision = w.at.revision
              /\ reg[n].tombstone = w.at.tombstone =>
              w.epoch <= reg[n].epoch /\ (n \in crossed => w.epoch < reg[n].epoch)
        BY DEF Overlap
      <4> QED BY <1>0, <1>a, <2>0, <2>1, <2>2, <3>1, <4>1, <4>2 DEF Steady
    <3> QED BY <2>1, <3>2, <3>3
  <2>3. CASE Resting(n)
    BY <2>3 DEF Resting
  <2>4. CASE Inspected(n)
    BY <1>0, <1>a, <2>1, <2>4 DEF Inspected, Snapshot, Registered, Registration
  <2>5. CASE Proceeds(n)
    BY <1>0, <1>a, <2>1, <2>5 DEF Proceeds, Overlap, regVars
  <2>6. CASE Observes(n)
    <3>1. /\ reg' = Expired /\ crossed' = crossed \ {n} /\ UNCHANGED revision
          /\ worker[n].pc = "observe" /\ worker'[n].pc = "fetch"
          /\ worker'[n].at = worker[n].at /\ worker'[n].epoch = reg'[n].epoch
      BY <2>6 DEF Observes, WorkerObserves
    <3> QED BY <1>0, <1>a, <3>1 DEF Overlap
  <2>7. CASE Announces(n)
    BY <2>7 DEF Announces
  <2>8. Steady(n) \/ Resting(n) \/ Inspected(n) \/ Proceeds(n) \/ Observes(n) \/ Announces(n)
    BY WorkersMove DEF WorkerMoves
  <2> QED BY <2>2, <2>3, <2>4, <2>5, <2>6, <2>7, <2>8
<1> QED BY <1>1, <1>2

-----------------------------------------------------------------------------
(* Claims and what has been notified.                                       *)

\* A notice of the claims an entry keeps is among them.
Recorded(x) ==
  /\ x[2] <= told.lives[x[1]]
  /\ x[2] = told.lives[x[1]] => x[3] \in cache[x[1]].claims
ClaimsKept ==
  /\ NotifiedOnce
  /\ \A x \in told.once : Recorded(x)
  /\ \A n \in Nodes : worker[n].pc = "notify" =>
       \A x \in worker[n].tell : x[1] = n /\ Recorded(x) /\ x \notin told.once

\* Claims are dropped only as a discard of them is counted.
LivesMove ==
  /\ told'.lives \in [Nodes -> Nat]
  /\ \A n \in Nodes :
       \/ told'.lives[n] = told.lives[n] /\ cache[n].claims \subseteq cache'[n].claims
       \/ told'.lives[n] = told.lives[n] + 1
ToldMoves ==
  \/ told' = told
  \/ \E n \in Nodes : told' = Discarded(n)
  \/ \E n \in Nodes : WorkerNotifies(n)

LEMMA DiscardedFacts ==
  ASSUME ToldTyped, NEW n \in Nodes
  PROVE  LET d == Discarded(n) IN
         /\ d \in [once : SUBSET Notices, again : SUBSET Notices, lives : [Nodes -> Nat]]
         /\ d.once = told.once /\ d.again = told.again
         /\ \A m \in Nodes : m # n => d.lives[m] = told.lives[m]
         /\ d.lives[n] = IF cache[n].claims = {} THEN told.lives[n] ELSE told.lives[n] + 1
<1>1. /\ told.lives \in [Nodes -> Nat] /\ told.lives[n] + 1 \in Nat
      /\ [told.lives EXCEPT ![n] = told.lives[n] + 1] \in [Nodes -> Nat]
  BY DEF ToldTyped
<1> DEFINE x == [told EXCEPT !.lives = [told.lives EXCEPT ![n] = told.lives[n] + 1]]
<1>2. /\ x \in [once : SUBSET Notices, again : SUBSET Notices, lives : [Nodes -> Nat]]
      /\ x.once = told.once /\ x.again = told.again
      /\ x.lives = [told.lives EXCEPT ![n] = told.lives[n] + 1]
  BY <1>1 DEF ToldTyped
<1>3. Discarded(n) = IF cache[n].claims = {} THEN told ELSE x
  BY DEF Discarded
<1> HIDE DEF x
<1> QED BY <1>1, <1>2, <1>3 DEF ToldTyped

LEMMA ToldMove == ASSUME RegistrationTypeOK, Next PROVE ToldMoves
<1>1. CASE RemoveProjection
  <2>1. PICK n : Removed(n) /\ n \in Nodes
    BY <1>1, TypeParts DEF RemoveProjection, EditType, UpgradeType
  <2> QED BY <2>1 DEF Removed, ToldMoves
<1>2. ASSUME NEW n \in Nodes, WorkerCommits(n) PROVE ToldMoves
  BY <1>2 DEF WorkerCommits, ToldMoves
<1>3. ASSUME NEW n \in Nodes, WorkerNotifies(n) PROVE ToldMoves
  BY <1>3 DEF ToldMoves
<1>4. ASSUME \/ Registrations \/ DaemonRestarts
             \/ \E n \in Nodes :
                  \/ \E t \in Targets : AddNode(n, t)
                  \/ StartWorker(n) \/ DismissShell(n) \/ RestoreShells(n)
                  \/ OwnerApplies(n) \/ OwnerPublishes(n) \/ OwnerRepeats(n)
                  \/ OwnerClosesShell(n) \/ OwnerRestarts(n)
                  \/ WorkerInspect(n) \/ WorkerExits(n) \/ WorkerReadsCursor(n)
                  \/ WorkerObserves(n) \/ WorkerFetches(n)
                  \/ WorkerCommitFails(n) \/ WorkerClaims(n)
      PROVE  told' = told
  BY <1>4 DEF Registrations, DaemonRestarts, AddNode, StartWorker, DismissShell,
     RestoreShells, OwnerApplies, OwnerPublishes, OwnerRepeats, OwnerClosesShell,
     OwnerRestarts, WorkerInspect, WorkerExits, WorkerReadsCursor, WorkerObserves,
     WorkerFetches, WorkerCommitFails, WorkerClaims
<1> QED BY <1>1, <1>2, <1>3, <1>4 DEF Next, ToldMoves

LEMMA NotifyFacts ==
  ASSUME ToldTyped, NEW n \in Nodes, WorkerNotifies(n)
  PROVE  /\ told'.once = told.once \cup worker[n].tell
         /\ told'.again = told.again \cup (told.once \cap worker[n].tell)
         /\ told'.lives = told.lives
         /\ UNCHANGED cache /\ worker[n].pc = "notify"
         /\ worker' = [worker EXCEPT ![n] = Fresh("top")]
<1>1. told' = [told EXCEPT !.once = told.once \cup worker[n].tell,
                           !.again = told.again \cup (told.once \cap worker[n].tell)]
  BY DEF WorkerNotifies
<1>2. worker' = [worker EXCEPT ![n] = Fresh("top")] /\ UNCHANGED cache
      /\ worker[n].pc = "notify"
  BY DEF WorkerNotifies, Fresh
<1> QED BY <1>1, <1>2 DEF ToldTyped

LEMMA ToldKept ==
  ASSUME ProjectionTypes, EmptyEntries, EntryMoves, ToldMoves
  PROVE  ToldTyped' /\ LivesMove
<1>0. /\ ToldTyped /\ told.lives \in [Nodes -> Nat] /\ WorkersTyped
      /\ \A n \in Nodes : cache[n].tombstone \in Nat
  BY DEF ProjectionTypes, ToldTyped, CacheTyped, EntryType
<1>1. ToldTyped' /\ told'.lives \in [Nodes -> Nat]
  <2>1. CASE told' = told
    BY <1>0, <2>1 DEF ToldTyped
  <2>2. ASSUME NEW n \in Nodes, told' = Discarded(n) PROVE ToldTyped'
    BY <1>0, <2>2, DiscardedFacts DEF ToldTyped
  <2>3. ASSUME NEW n \in Nodes, WorkerNotifies(n) PROVE ToldTyped'
    <3>1. worker[n].tell \subseteq Notices
      BY <1>0, <2>3 DEF WorkerNotifies, WorkersTyped
    <3>2. told' = [told EXCEPT !.once = told.once \cup worker[n].tell,
                     !.again = told.again \cup (told.once \cap worker[n].tell)]
      BY <2>3 DEF WorkerNotifies
    <3> QED BY <1>0, <3>1, <3>2 DEF ToldTyped
  <2>4. ToldTyped'
    BY <2>1, <2>2, <2>3 DEF ToldMoves
  <2> QED BY <2>4 DEF ToldTyped
<1>2. ASSUME NEW n \in Nodes
      PROVE  \/ told'.lives[n] = told.lives[n] /\ cache[n].claims \subseteq cache'[n].claims
             \/ told'.lives[n] = told.lives[n] + 1
  <2>1. CASE told' = Discarded(n)
    <3>1. \/ told'.lives[n] = told.lives[n] + 1
          \/ told'.lives[n] = told.lives[n] /\ cache[n].claims = {}
      BY <1>0, <2>1, DiscardedFacts
    <3> QED BY <3>1
  <2>2. CASE told' # Discarded(n)
    <3>1. told'.lives[n] = told.lives[n]
      <4>1. CASE told' = told
        BY <4>1
      <4>2. ASSUME NEW m \in Nodes, told' = Discarded(m)
            PROVE  told'.lives[n] = told.lives[n]
        <5>1. m # n
          BY <2>2, <4>2
        <5> QED BY <1>0, <4>2, <5>1, DiscardedFacts
      <4>3. ASSUME NEW m \in Nodes, WorkerNotifies(m)
            PROVE  told'.lives[n] = told.lives[n]
        BY <1>0, <4>3, NotifyFacts
      <4> QED BY <4>1, <4>2, <4>3 DEF ToldMoves
    <3>2. cache[n].claims \subseteq cache'[n].claims
      <4>1. CASE Committed(n)
        <5>1. cache[n].generation = 0 => cache[n].claims = {}
          BY DEF EmptyEntries
        <5> QED BY <2>2, <4>1, <5>1 DEF Committed
      <4>2. CASE Claimed(n) \/ Hidden(n) \/ Restored(n)
        BY <4>2 DEF Claimed, Hidden, Restored, Kept
      <4> QED BY <2>2, <4>1, <4>2 DEF EntryMoves, Emptied
    <3> QED BY <3>1, <3>2
  <2> QED BY <2>1, <2>2
<1> QED BY <1>1, <1>2 DEF LivesMove

\* A notice stays recorded while its claims are kept, and is of the past once
\* they are discarded.
LEMMA RecordedKept ==
  ASSUME ToldTyped, LivesMove, NEW x \in Notices, Recorded(x)
  PROVE  Recorded(x)'
<1>1. x[1] \in Nodes /\ x[2] \in Nat
  BY DEF Notices
<1>2. told.lives[x[1]] \in Nat /\ told'.lives[x[1]] \in Nat
  BY <1>1 DEF ToldTyped, LivesMove
<1>3. \/ /\ told'.lives[x[1]] = told.lives[x[1]]
         /\ cache[x[1]].claims \subseteq cache'[x[1]].claims
      \/ told'.lives[x[1]] = told.lives[x[1]] + 1
  BY <1>1 DEF LivesMove
<1> QED BY <1>1, <1>2, <1>3 DEF Recorded

LEMMA ClaimsStay ==
  ASSUME ProjectionTypes, WorkersTyped', LivesMove, WorkerMoves, ToldMoves, ClaimsKept
  PROVE  ClaimsKept'
<1>0. ToldTyped /\ WorkersTyped /\ worker \in [Nodes -> WorkerType]
      /\ told.lives \in [Nodes -> Nat]
  BY DEF ProjectionTypes, WorkersTyped, ToldTyped
<1>1. \A n \in Nodes : worker[n].pc = "notify" => worker[n].tell \subseteq Notices
  BY <1>0 DEF WorkersTyped
<1>2. \/ told'.once = told.once /\ told'.again = told.again
      \/ \E n \in Nodes : WorkerNotifies(n)
  BY <1>0, DiscardedFacts DEF ToldMoves
<1>3. NotifiedOnce' /\ \A x \in told'.once : Recorded(x)'
  <2>1. \A x \in told.once : Recorded(x)'
    BY <1>0, RecordedKept DEF ClaimsKept, ToldTyped
  <2>2. CASE told'.once = told.once /\ told'.again = told.again
    BY <2>1, <2>2 DEF ClaimsKept, NotifiedOnce
  <2>3. ASSUME NEW n \in Nodes, WorkerNotifies(n)
        PROVE  NotifiedOnce' /\ \A x \in told'.once : Recorded(x)'
    <3>1. /\ told'.once = told.once \cup worker[n].tell
          /\ told'.again = told.again \cup (told.once \cap worker[n].tell)
          /\ worker[n].pc = "notify"
      BY <1>0, <2>3, NotifyFacts
    <3>2. \A x \in worker[n].tell : Recorded(x) /\ x \notin told.once
      BY <3>1 DEF ClaimsKept
    <3>3. \A x \in worker[n].tell : Recorded(x)'
      BY <1>0, <1>1, <3>1, <3>2, RecordedKept
    <3>4. told'.again = {}
      BY <3>1, <3>2 DEF ClaimsKept, NotifiedOnce
    <3> QED BY <2>1, <3>1, <3>3, <3>4 DEF NotifiedOnce
  <2> QED BY <1>2, <2>2, <2>3
<1>4. ASSUME NEW n \in Nodes, worker'[n].pc = "notify", NEW x \in worker'[n].tell
      PROVE  x[1] = n /\ Recorded(x)' /\ x \notin told'.once
  <2>1. Steady(n) \/ Announces(n)
    BY <1>4 DEF WorkerMoves, Resting, Inspected, Proceeds, Observes
  <2>2. CASE Steady(n)
    <3>1. /\ worker[n].pc = "notify" /\ x \in worker[n].tell /\ x \in Notices
          /\ x[1] = n /\ Recorded(x) /\ x \notin told.once
      BY <1>1, <1>4, <2>2 DEF Steady, ClaimsKept
    <3>2. Recorded(x)'
      BY <1>0, <3>1, RecordedKept
    <3>3. ASSUME NEW m \in Nodes, WorkerNotifies(m) PROVE x \notin told'.once
      <4>1. /\ told'.once = told.once \cup worker[m].tell /\ worker[m].pc = "notify"
            /\ worker' = [worker EXCEPT ![m] = Fresh("top")]
        BY <1>0, <3>3, NotifyFacts
      <4>2. Fresh("top").pc = "top"
        BY DEF Fresh, NoWorker
      <4>3. m # n
        BY <1>0, <1>4, <4>1, <4>2
      <4>4. \A y \in worker[m].tell : y[1] = m
        BY <4>1 DEF ClaimsKept
      <4> QED BY <3>1, <4>1, <4>3, <4>4
    <3> QED BY <1>2, <3>1, <3>2, <3>3
  <2>3. CASE Announces(n)
    <3>1. PICK c \in worker[n].tell \ cache[n].claims : x = <<n, told.lives[n], c>>
      BY <1>4, <2>3 DEF Announces
    <3>2. told' = told /\ c \in cache'[n].claims
      BY <2>3, <3>1 DEF Announces, WorkerClaims
    <3>3. x[1] = n /\ x[2] = told.lives[n] /\ x[3] = c
      BY <3>1
    <3>4. Recorded(x)'
      BY <1>0, <3>2, <3>3 DEF Recorded
    <3>5. x \notin told.once
      BY <3>1, <3>3 DEF ClaimsKept, Recorded
    <3> QED BY <3>2, <3>3, <3>4, <3>5
  <2> QED BY <2>1, <2>2, <2>3
<1> QED BY <1>3, <1>4 DEF ClaimsKept

-----------------------------------------------------------------------------
ProjectionInv ==
  RegistrationInv /\ ProjectionTypes /\ EmptyEntries /\ Overlap /\ ClaimsKept

LEMMA ProjectionInit == Init => ProjectionInv
<1> SUFFICES ASSUME Init PROVE ProjectionInv
  OBVIOUS
<1>1. /\ RegistrationInit /\ starting = {} /\ cache = [n \in Nodes |-> NoEntry]
      /\ worker = [n \in Nodes |-> NoWorker]
      /\ owner = [n \in Nodes |-> [stream |-> 1, log |-> <<>>, agent |-> 0,
                                   ahead |-> FALSE, shell |-> TRUE]]
      /\ told = [once |-> {}, again |-> {}, lives |-> [n \in Nodes |-> 0]]
  BY DEF Init
<1>2. CacheTyped
  BY <1>1, ConstantTypes DEF CacheTyped
<1>3. ToldTyped
  BY <1>1 DEF ToldTyped
<1>4. NoWorker.pc = "off"
  BY DEF NoWorker
<1>5. WorkersTyped
  BY <1>1, <1>4, ConstantTypes DEF WorkersTyped
<1>6. OwnersTyped
  <2> DEFINE o == [stream |-> 1, log |-> <<>>, agent |-> 0, ahead |-> FALSE,
                   shell |-> TRUE]
  <2>1. o \in OwnerType /\ ~o.ahead /\ DOMAIN o.log = {}
    BY DEF OwnerType
  <2>2. owner = [n \in Nodes |-> o]
    BY <1>1
  <2> HIDE DEF o
  <2> QED BY <2>1, <2>2 DEF OwnersTyped
<1>7. EmptyEntries
  BY <1>1 DEF EmptyEntries, NoEntry, NoCursor
<1>8. Overlap
  BY <1>1, <1>4 DEF Overlap
<1>9. ClaimsKept
  BY <1>1, <1>4 DEF ClaimsKept, NotifiedOnce
<1> QED BY <1>1, <1>2, <1>3, <1>5, <1>6, <1>7, <1>8, <1>9, InitHolds
        DEF ProjectionInv, ProjectionTypes

LEMMA StartingKept == starting \subseteq Nodes /\ Next => starting' \subseteq Nodes
BY DEF Next, Registrations, RemoveProjection, DaemonRestarts, AddNode, StartWorker,
   DismissShell, RestoreShells, OwnerApplies, OwnerPublishes, OwnerRepeats,
   OwnerClosesShell, OwnerRestarts, WorkerInspect, WorkerExits, WorkerReadsCursor,
   WorkerObserves, WorkerFetches, WorkerCommits, WorkerCommitFails, WorkerClaims,
   WorkerNotifies

LEMMA ProjectionNext ==
  ASSUME ProjectionInv, Next
  PROVE  ProjectionInv' /\ EntryMoves
<1>1. RegistrationTypeOK /\ ProjectionTypes /\ EmptyEntries /\ Overlap /\ ClaimsKept
      /\ RegistrationInv
  BY DEF ProjectionInv, RegistrationInv
<1>2. RegistrationInv' /\ RegistrationTypeOK'
  BY <1>1, ProjectionRoutes, NextKeeps DEF RegistrationInv
<1>3. WorkersTyped' /\ CacheTyped' /\ OwnersTyped' /\ EntryMoves /\ WorkerMoves
      /\ ToldMoves /\ starting' \subseteq Nodes
  BY <1>1, WorkersKept, CacheMoves, OwnersKept, WorkersMove, ToldMove, StartingKept
  DEF ProjectionTypes
<1>4. ToldTyped' /\ LivesMove
  BY <1>1, <1>3, ToldKept
<1>5. EmptyEntries'
  BY <1>1, <1>3, EmptyKept DEF ProjectionTypes
<1>6. Overlap'
  BY <1>1, <1>2, <1>3, OverlapKept
<1>7. ClaimsKept'
  BY <1>1, <1>3, <1>4, ClaimsStay
<1> QED BY <1>2, <1>3, <1>4, <1>5, <1>6, <1>7 DEF ProjectionInv, ProjectionTypes

LEMMA ProjectionStep == ProjectionInv /\ [Next]_vars => ProjectionInv'
<1>1. CASE Next
  BY <1>1, ProjectionNext
<1>2. ASSUME ProjectionInv, UNCHANGED vars PROVE ProjectionInv'
  <2>0. /\ UNCHANGED regVars /\ cache' = cache /\ worker' = worker
        /\ starting' = starting /\ owner' = owner /\ told' = told /\ crossed' = crossed
    BY <1>2 DEF vars, projVars
  <2>1. RegistrationInv'
    BY <1>2, <2>0, NextKeeps DEF ProjectionInv
  <2>2. ProjectionTypes'
    BY <1>2, <2>0 DEF ProjectionInv, ProjectionTypes, CacheTyped, ToldTyped,
       WorkersTyped, OwnersTyped
  <2>3. EmptyEntries' /\ Overlap'
    BY <1>2, <2>0 DEF ProjectionInv, EmptyEntries, Overlap, regVars
  <2>4. ClaimsKept'
    BY <1>2, <2>0 DEF ProjectionInv, ClaimsKept, NotifiedOnce, Recorded
  <2> QED BY <2>1, <2>2, <2>3, <2>4 DEF ProjectionInv
<1> QED BY <1>1, <1>2

\* Every reachable state of the registrations, the cache, its workers and the
\* owners is well typed.
THEOREM ProjectionTyped == Spec => []TypeOK
<1>1. ProjectionInv => TypeOK
  <2> SUFFICES ASSUME ProjectionInv PROVE TypeOK
    OBVIOUS
  <2>1. RegistrationTypeOK /\ CacheTyped /\ WorkersTyped /\ OwnersTyped
        /\ starting \subseteq Nodes
    BY DEF ProjectionInv, RegistrationInv, ProjectionTypes
  <2>2. ASSUME NEW n \in Nodes
        PROVE  /\ {cache[n].generation, cache[n].tombstone} \subseteq Nat
               /\ worker[n].pc \in WorkerSteps /\ worker[n].at \in SnapshotType
               /\ {owner[n].agent, owner[n].stream} \subseteq Nat
               /\ Range(owner[n].log) \subseteq 1..owner[n].agent
    <3>1. cache[n] \in EntryType /\ worker[n] \in WorkerType /\ owner[n] \in OwnerType
      BY <2>1 DEF CacheTyped, WorkersTyped, OwnersTyped
    <3>2. \A i \in DOMAIN owner[n].log : owner[n].log[i] \in 1..owner[n].agent
      BY <2>1 DEF OwnersTyped
    <3>3. Range(owner[n].log) \subseteq 1..owner[n].agent
      BY <3>2 DEF Range
    <3> QED BY <3>1, <3>3 DEF EntryType, WorkerType, OwnerType
  <2> QED BY <2>1, <2>2 DEF TypeOK
<1> QED BY <1>1, ProjectionInit, ProjectionStep, PTL DEF Spec

\* An Agent revision of one event stream is notified on its own at most once
\* while the Node's cache entry keeps its claims.
THEOREM NotifiesOnce == Spec => []NotifiedOnce
<1>1. ProjectionInv => NotifiedOnce
  BY DEF ProjectionInv, ClaimsKept
<1> QED BY <1>1, ProjectionInit, ProjectionStep, PTL DEF Spec

\* What was fetched before the Node's admission closed is not committed after.
THEOREM MaintenanceDiscards == Spec => NothingCrosses
<1>1. ASSUME ProjectionInv, Next, NEW n \in Nodes,
             cache'[n].generation > cache[n].generation
      PROVE  n \notin crossed
  <2>0. /\ cache[n].generation \in Nat /\ NoEntry.generation = 0
        /\ RegistrationTypeOK /\ Overlap /\ WorkersTyped /\ EntryMoves
        /\ worker[n].epoch \in Nat /\ reg[n].epoch \in Nat
    BY <1>1, ProjectionNext
    DEF ProjectionInv, RegistrationInv, ProjectionTypes, CacheTyped, EntryType,
        NoEntry, WorkersTyped, WorkerType, RegistrationTypeOK, Registration
  <2>1. Committed(n)
    BY <1>1, <2>0 DEF EntryMoves, Claimed, Hidden, Restored, Kept, Emptied
  <2>2. /\ worker[n].pc = "commit" /\ Expired[n].revision = worker[n].at.revision
        /\ Expired[n].tombstone = worker[n].at.tombstone
        /\ Expired[n].epoch = worker[n].epoch
    BY <2>1 DEF Committed, WorkerCommits, StillObserved, IsCurrent
  <2>3. /\ reg[n].revision = worker[n].at.revision
        /\ reg[n].tombstone = worker[n].at.tombstone
        /\ reg[n].epoch = worker[n].epoch
    BY <2>0, <2>2, ExpiredFacts, ExpiredFollows
  <2> QED BY <2>0, <2>2, <2>3 DEF Overlap
<1>2. ProjectionInv /\ [Next]_vars =>
        [\A n \in Nodes :
           cache'[n].generation > cache[n].generation => n \notin crossed]_vars
  BY <1>1
<1> QED BY <1>2, ProjectionInit, ProjectionStep, PTL DEF Spec, NothingCrosses

\* A dismissed Shell is brought back by a restore, its owner or its removal,
\* and by nothing else.
THEOREM DismissalLasts == Spec => DismissedStaysHidden
<1>1. ASSUME ProjectionInv, Next, NEW n \in Nodes, cache[n].dismissed,
             cache'[n].generation # 0, cache'[n].tombstone = cache[n].tombstone,
             cache'[n].shell, ~cache'[n].dismissed
      PROVE  RestoreShells(n)
  <2>0. EntryMoves /\ NoEntry.generation = 0 /\ cache[n].generation # 0
    BY <1>1, ProjectionNext DEF ProjectionInv, EmptyEntries, NoEntry
  <2>1. Committed(n) \/ Claimed(n) \/ Hidden(n) \/ Restored(n)
    BY <1>1, <2>0 DEF EntryMoves, Emptied
  <2>2. ~Claimed(n) /\ ~Hidden(n)
    BY <1>1 DEF Claimed, Hidden
  <2>3. ~Committed(n)
    BY <1>1, <2>0 DEF Committed
  <2> QED BY <2>1, <2>2, <2>3 DEF Restored
<1>2. ProjectionInv /\ [Next]_vars =>
        [\A n \in Nodes :
           /\ cache[n].dismissed /\ cache'[n].generation # 0
           /\ cache'[n].tombstone = cache[n].tombstone
           /\ cache'[n].shell /\ ~cache'[n].dismissed
           => RestoreShells(n)]_vars
  BY <1>1
<1> QED BY <1>2, ProjectionInit, ProjectionStep, PTL DEF Spec, DismissedStaysHidden
=============================================================================
