--------------------- MODULE TransitionCoordinatorProofs ---------------------
(***************************************************************************)
(* Machine-checked properties of the transition coordinator, for every     *)
(* finite set of Shells and every value of the bounds.                     *)
(***************************************************************************)
EXTENDS TransitionCoordinator, FiniteSetTheorems, SequenceTheorems, TLAPS

-----------------------------------------------------------------------------
(* The inductive invariant.                                                *)

\* Which write goes with which operation, and what it may publish.
WriteShape ==
  /\ io.kind = "none" => io.batch = <<>> /\ io.count = 0
  /\ Len(io.batch) <= io.count
  /\ io.kind = "checkpoint" =>
       op.phase = "checkpoint" /\ io.batch = <<>> /\ journal # {}
  /\ io.kind = "flush" /\ ~io.background =>
       op.phase = "flush" /\ pendingDurable = <<>>
  /\ io.kind \in {"commit", "journal", "fallback"} <=> op.phase = "commit"

\* What an operation holds in each of its phases.
OpShape ==
  /\ op.kind = "none" => op.phase = "admit"
  /\ op.phase = "observe" => op.kind \notin Lifecycle
  /\ op.phase \in {"stop", "abort"} => op.kind \in Lifecycle
  /\ op.kind = "close" => op.targets \in SUBSET Shells /\ op.targets # {}
  /\ op.kind \notin Lifecycle => reservation = 0
  /\ op.phase \in {"checkpoint", "admit"} => reservation = 0 /\ op.stopped = {}
  /\ op.kind \in Lifecycle /\ op.phase \in {"stop", "flush", "apply", "abort"} =>
       /\ op.targets \in SUBSET Shells /\ op.stopped \in SUBSET op.targets
       /\ Cardinality(op.targets) <= reservation
       /\ op.kind # "shutdown" => 1 <= reservation
  /\ op.kind \in Lifecycle /\ op.phase = "commit" =>
       Cardinality(op.stopped) <= reservation + Len(io.batch)
  /\ op.kind = "start" /\ op.phase = "apply" =>
       pendingDurable = <<>> /\ io.batch = <<>>

IInv == TypeOK /\ WriteShape /\ OpShape /\ QueueReleased /\ CapacityReserved
-----------------------------------------------------------------------------
(* What the operators of the model return.                                 *)

\* Every set of Shells or entities is finite.
LEMMA FiniteSets ==
  ASSUME NEW S \in SUBSET Entities
  PROVE  IsFiniteSet(S) /\ Cardinality(S) \in Nat
  <1>1. IsFiniteSet(Shells) BY ConstantsAssumption
  <1>2. IsFiniteSet(Entities) BY <1>1, FS_AddElement DEF Entities
  <1> QED BY <1>2, FS_Subset, FS_CardinalityType

\* An enumeration of a set of Shells names each of them by an index.
LEMMA ListedType ==
  ASSUME NEW S \in SUBSET Shells
  PROVE  Listed(S) \in [1..Cardinality(S) -> S]
  <1>1. IsFiniteSet(S) BY FiniteSets DEF Entities
  <1>2. ExistsBijection(1..Cardinality(S), S) BY <1>1, FS_CardinalityType
  <1>3. PICK f \in [1..Cardinality(S) -> S] : IsInjective(f)
    BY <1>2 DEF ExistsBijection, Bijection, Injection, Surjection, IsInjective
  <1> QED BY <1>3 DEF Listed

\* RunEvents lists one event per Shell.
LEMMA RunEventsType ==
  ASSUME NEW kind \in DurableKinds, NEW S \in SUBSET Shells,
         NEW m \in [Entities -> Record]
  PROVE  /\ RunEvents(kind, S, m) \in Seq(Event)
         /\ Len(RunEvents(kind, S, m)) = Cardinality(S)
  <1>1. Cardinality(S) \in Nat BY FiniteSets DEF Entities
  <1>2. ASSUME NEW i \in 1..Cardinality(S)
        PROVE  Evt(kind, Listed(S)[i], m[Listed(S)[i]].gen) \in Event
    <2>1. Listed(S)[i] \in Entities BY ListedType DEF Entities
    <2>2. m[Listed(S)[i]].gen \in Nat BY <2>1 DEF Record
    <2> QED BY <2>1, <2>2 DEF Evt, Event
  <1> QED BY <1>1, <1>2 DEF RunEvents

\* The commit batch of a lifecycle operation has at most one event.
LEMMA CommittedEventsType ==
  ASSUME TypeOK, OpShape, op.kind \in Lifecycle
  PROVE  /\ CommittedEvents \in Seq(Event)
         /\ Len(CommittedEvents) = IF op.kind = "shutdown" THEN 0 ELSE 1
  <1>1. Evt("Closed", Workspace, 0) \in Event
    BY DEF Evt, Event, DurableKinds, Entities
  <1>2. CASE op.kind = "shutdown"
    BY <1>2 DEF CommittedEvents
  <1>3. CASE op.kind = "closeWorkspace"
    BY <1>1, <1>3 DEF CommittedEvents
  <1>4. CASE op.kind = "close"
    <2> DEFINE t == CHOOSE s \in op.targets : TRUE
    <2>1. t \in Entities BY <1>4 DEF OpShape, Entities
    <2>2. Evt("Closed", t, 0) \in Event BY <2>1 DEF Evt, Event, DurableKinds
    <2> QED BY <1>4, <2>2 DEF CommittedEvents
  <1> QED BY <1>2, <1>3, <1>4 DEF Lifecycle

\* A replaced OutputChanged does not lengthen the queue.
LEMMA QueueRuntimeType ==
  ASSUME NEW q \in Seq(Event), NEW e \in Event
  PROVE  /\ QueueRuntime(q, e) \in Seq(Event)
         /\ Len(QueueRuntime(q, e)) <= Len(q) + 1
  <1>1. CASE \E i \in DOMAIN q : q[i] = e
    <2> DEFINE i == CHOOSE i \in DOMAIN q : q[i] = e
    <2>1. i \in 1..Len(q) BY <1>1
    <2> HIDE DEF i
    <2> DEFINE front == SubSeq(q, 1, i - 1)
               back == SubSeq(q, i + 1, Len(q))
    <2>2. front \in Seq(Event) /\ Len(front) = i - 1
      BY <2>1, SubSeqProperties, ElementOfSeq
    <2>3. back \in Seq(Event) /\ Len(back) = Len(q) - i
      BY <2>1, SubSeqProperties, ElementOfSeq
    <2>4. QueueRuntime(q, e) = Append(front \o back, e) BY <1>1 DEF QueueRuntime, i
    <2> HIDE DEF front, back
    <2>5. front \o back \in Seq(Event) /\ Len(front \o back) = Len(q) - 1
      BY <2>1, <2>2, <2>3, ConcatProperties
    <2> QED BY <2>4, <2>5
  <1>2. CASE ~ \E i \in DOMAIN q : q[i] = e
    BY <1>2 DEF QueueRuntime
  <1> QED BY <1>1, <1>2

\* The registry operators return registries.
LEMMA RegistryTypes ==
  ASSUME NEW m \in [Entities -> Record], NEW S
  PROVE  Ended(m, S) \in [Entities -> Record] /\ Removed(m) \in [Entities -> Record]
  <1>1. \A e \in Entities : [m[e] EXCEPT !.run = "ended"] \in Record BY DEF Record
  <1>2. \A e \in Entities : [m[e] EXCEPT !.status = "gone"] \in Record BY DEF Record
  <1> QED BY <1>1, <1>2 DEF Ended, Removed

\* Starting runs yields registry records.
LEMMA StartedType ==
  ASSUME TypeOK, NEW S
  PROVE  Started(S) \in [Entities -> Record]
  <1>1. ASSUME NEW e \in Entities
        PROVE  [mem[e] EXCEPT !.gen = @ + 1, !.run = "active"] \in Record
    <2>1. mem[e] \in Record /\ mem[e].gen + 1 \in Nat BY DEF Record, TypeOK
    <2> QED BY <2>1 DEF Record
  <1> QED BY <1>1 DEF Started, TypeOK

\* A creation or a rename yields registry records.
LEMMA MutatedType ==
  ASSUME TypeOK, NEW e \in Entities
  PROVE  /\ Mutated(e) \in [Entities -> Record]
         /\ MutationEvents(e) \in Seq(Event) /\ Len(MutationEvents(e)) = 1
  <1>1. Mutated(e) \in [Entities -> Record]
    <2>1. mem[e] \in Record /\ mem[e].rev + 1 \in Nat BY DEF Record, TypeOK
    <2>2. [mem[e] EXCEPT !.status = "live"] \in Record BY <2>1 DEF Record
    <2>3. [mem[e] EXCEPT !.rev = mem[e].rev + 1] \in Record BY <2>1 DEF Record
    <2> QED BY <2>2, <2>3 DEF Mutated, TypeOK
  <1>2. mem[e].rev + 1 \in Nat BY DEF Record, TypeOK
  <1>3. Evt("Created", e, 0) \in Event /\ Evt("Renamed", e, mem[e].rev + 1) \in Event
    BY <1>2 DEF Evt, Event, DurableKinds
  <1> QED BY <1>1, <1>3 DEF MutationEvents

\* The registry a cold start restores is well typed.
LEMMA RecoveredType ==
  ASSUME TypeOK
  PROVE  Recovered \in [Entities -> Record]
  <1> SUFFICES ASSUME NEW e \in Entities
               PROVE  Recovered[e] \in Record
    BY DEF Recovered
  <1>1. disk[e] \in Record BY DEF TypeOK
  <1> DEFINE born == IF Evt("Created", e, 0) \in journal /\ disk[e].status = "unborn"
                     THEN [disk[e] EXCEPT !.status = "live"] ELSE disk[e]
  <1>2. born \in Record BY <1>1 DEF Record
  <1>3. [born EXCEPT !.run = "interrupted"] \in Record BY <1>2 DEF Record
  <1>4. CASE LastStarts(e) # {} /\ LastStart(e).n > disk[e].gen
    <2>1. LastStart(e).n \in Nat BY <1>4 DEF LastStart, LastStarts, Event, TypeOK
    <2>2. [born EXCEPT !.gen = LastStart(e).n, !.run = "interrupted"] \in Record
      BY <1>2, <2>1 DEF Record
    <2> QED BY <1>4, <2>2 DEF Recovered
  <1> QED BY <1>2, <1>3, <1>4 DEF Recovered

\* The empty registry, operation and write are well typed.
LEMMA BlankTypes ==
  /\ Blank \in [Entities -> Record]
  /\ NoOp \in Op /\ NoIO \in IO
  <1>1. Blank \in [Entities -> Record] BY DEF Blank, Record
  <1>2. [s \in Shells |-> "none"] \in [Shells -> Lifecycles] BY DEF Lifecycles
  <1>3. NoOp \in Op BY <1>1, <1>2 DEF NoOp, Op, OpKinds, Phases
  <1>4. <<>> \in Seq(Event) OBVIOUS
  <1>5. NoIO \in IO BY <1>1, <1>4 DEF NoIO, IO, IOKinds
  <1> QED BY <1>1, <1>3, <1>5

\* SetAll returns a function of the same type.
LEMMA SetAllType ==
  ASSUME NEW T, NEW f \in [Shells -> T], NEW S, NEW v \in T
  PROVE  SetAll(f, S, v) \in [Shells -> T]
  BY DEF SetAll

\* Settle neither loses nor duplicates an event: it moves the batch, and the
\* runtime queue when nothing blocks it, to the log.
LEMMA SettleEffect ==
  ASSUME NEW batch \in Seq(Event), NEW durable \in Seq(Event),
         NEW runtime \in Seq(Event), NEW held \in Nat, NEW busy \in BOOLEAN,
         log \in Seq(Event), Settle(batch, durable, runtime, held, busy)
  PROVE  /\ log' \in Seq(Event) /\ pendingRuntime' \in Seq(Event)
         /\ pendingDurable' = durable /\ reservation' = held /\ base' = base
         /\ Len(log') + Len(pendingRuntime') = Len(log) + Len(batch) + Len(runtime)
         /\ pendingRuntime' = <<>> \/ busy \/ durable # <<>> \/ held # 0
  <1>1. log \o batch \in Seq(Event) /\ Len(log \o batch) = Len(log) + Len(batch)
    BY ConcatProperties
  <1>2. /\ log \o batch \o runtime \in Seq(Event)
        /\ Len(log \o batch \o runtime) = Len(log) + Len(batch) + Len(runtime)
    BY <1>1, ConcatProperties
  <1>3. CASE busy \/ durable # <<>> \/ held # 0
    <2>1. log' = log \o batch /\ pendingRuntime' = runtime BY <1>3 DEF Settle
    <2> QED BY <1>1, <1>3, <2>1 DEF Settle
  <1>4. CASE ~(busy \/ durable # <<>> \/ held # 0)
    <2>1. log' = log \o batch \o runtime /\ pendingRuntime' = <<>> BY <1>4 DEF Settle
    <2> QED BY <1>2, <2>1 DEF Settle
  <1> QED BY <1>3, <1>4

\* Settle with no batch.
LEMMA SettleNothing ==
  ASSUME NEW durable \in Seq(Event), NEW runtime \in Seq(Event), NEW held \in Nat,
         NEW busy \in BOOLEAN, log \in Seq(Event),
         Settle(<<>>, durable, runtime, held, busy)
  PROVE  /\ log' \in Seq(Event) /\ pendingRuntime' \in Seq(Event)
         /\ pendingDurable' = durable /\ reservation' = held /\ base' = base
         /\ Len(log') + Len(pendingRuntime') = Len(log) + Len(runtime)
         /\ pendingRuntime' = <<>> \/ busy \/ durable # <<>> \/ held # 0
  <1>1. log \o <<>> = log BY ConcatEmptySeq
  <1>2. log \o runtime \in Seq(Event) /\ Len(log \o runtime) = Len(log) + Len(runtime)
    BY ConcatProperties
  <1>3. CASE busy \/ durable # <<>> \/ held # 0
    <2>1. log' = log /\ pendingRuntime' = runtime BY <1>1, <1>3 DEF Settle
    <2> QED BY <1>3, <2>1 DEF Settle
  <1>4. CASE ~(busy \/ durable # <<>> \/ held # 0)
    <2>1. log' = log \o runtime /\ pendingRuntime' = <<>> BY <1>1, <1>4 DEF Settle
    <2> QED BY <1>2, <2>1, EmptySeq DEF Settle
  <1> QED BY <1>3, <1>4

\* A reservation of one ID pays for one more event, in the log or in the queue.
LEMMA OneMore ==
  ASSUME NEW a \in Nat, NEW b \in Nat, NEW c \in Nat, NEW d \in Nat, NEW e \in Nat,
         NEW m \in Nat, NEW x \in Nat, NEW y \in Nat, NEW n \in Nat, n <= b,
         x + y <= a + d + 1, a + (b + c + d + e + 1) <= m
  PROVE  x + (n + c + y + e) <= m
  OBVIOUS

\* The lengths are numbers and add up to at most the capacity.
LEMMA Lengths ==
  ASSUME IInv
  PROVE  /\ Len(log) \in Nat /\ Len(pendingDurable) \in Nat
         /\ Len(pendingRuntime) \in Nat /\ Len(io.batch) \in Nat
         /\ io.count \in Nat /\ reservation \in Nat /\ MaxEventId \in Nat
         /\ Len(log) + Len(io.batch) + Len(pendingDurable) + Len(pendingRuntime)
              + reservation <= MaxEventId
         /\ Len(io.batch) <= io.count /\ Len(<<>>) = 0
  <1>1. /\ Len(log) \in Nat /\ Len(pendingDurable) \in Nat
        /\ Len(pendingRuntime) \in Nat /\ Len(io.batch) \in Nat
        /\ io.count \in Nat /\ reservation \in Nat /\ MaxEventId \in Nat
    BY ConstantsAssumption DEF IInv, TypeOK, IO
  <1>2. Len(log) + Demand <= MaxEventId BY DEF IInv, CapacityReserved
  <1>3. Len(<<>>) = 0 BY EmptySeq
  <1> QED BY <1>1, <1>2, <1>3 DEF IInv, WriteShape, Demand

-----------------------------------------------------------------------------
(* Every step preserves the invariant.                                     *)

\* StateStore::save succeeding: no queue, count or reservation moves.
LEMMA SaveSucceedsStep ==
  ASSUME IInv, SaveSucceeds
  PROVE  IInv'
  <1> USE DEF SaveSucceeds, shells, stream
  <1>1. TypeOK'
    BY DEF IInv, TypeOK, IO, Op, IOKinds
  <1>2. WriteShape'
    BY DEF IInv, WriteShape, TypeOK, IO, Op
  <1>3. OpShape'
    BY DEF IInv, OpShape, WriteShape, TypeOK, IO, Op
  <1>4. QueueReleased'
    BY DEF IInv, QueueReleased, Blocked, InFlight, TypeOK, IO
  <1>5. CapacityReserved'
    BY Lengths DEF IInv, CapacityReserved, Demand, WriteShape, TypeOK, IO
  <1> QED BY <1>1, <1>2, <1>3, <1>4, <1>5 DEF IInv

\* A failed save only marks the registry dirty and the write failed.
LEMMA SaveFailsStep ==
  ASSUME IInv, SaveFails
  PROVE  IInv'
  <1> USE DEF SaveFails, shells, stream
  <1>1. TypeOK'
    BY DEF IInv, TypeOK, IO, Op, IOKinds
  <1>2. WriteShape'
    BY DEF IInv, WriteShape, TypeOK, IO, Op
  <1>3. OpShape'
    BY DEF IInv, OpShape, WriteShape, TypeOK, IO, Op
  <1>4. QueueReleased'
    BY DEF IInv, QueueReleased, Blocked, InFlight, TypeOK, IO
  <1>5. CapacityReserved'
    BY Lengths DEF IInv, CapacityReserved, Demand, WriteShape, TypeOK, IO
  <1> QED BY <1>1, <1>2, <1>3, <1>4, <1>5 DEF IInv

\* A fallback whose journal reset fails is a failed write of the same batch.
LEMMA FallbackResetFailsStep ==
  ASSUME IInv, FallbackResetFails
  PROVE  IInv'
  <1> USE DEF FallbackResetFails, shells, stream
  <1>1. TypeOK'
    BY DEF IInv, TypeOK, IO, Op, IOKinds
  <1>2. WriteShape'
    BY DEF IInv, WriteShape, TypeOK, IO, Op
  <1>3. OpShape'
    BY DEF IInv, OpShape, WriteShape, TypeOK, IO, Op
  <1>4. QueueReleased'
    BY DEF IInv, QueueReleased, Blocked, InFlight, TypeOK, IO
  <1>5. CapacityReserved'
    BY Lengths DEF IInv, CapacityReserved, Demand, WriteShape, TypeOK, IO
  <1> QED BY <1>1, <1>2, <1>3, <1>4, <1>5 DEF IInv

\* A journal append turns the batch it carries into records.
LEMMA AppendSucceedsStep ==
  ASSUME IInv, AppendSucceeds
  PROVE  IInv'
  <1> USE DEF AppendSucceeds, shells, stream
  <1>a. Range(io.batch) \subseteq Event
    BY ElementOfSeq, LenProperties DEF IInv, TypeOK, IO, Range
  <1>1. TypeOK'
    BY <1>a DEF IInv, TypeOK, IO, Op
  <1>2. WriteShape'
    BY DEF IInv, WriteShape, TypeOK, IO, Op
  <1>3. OpShape'
    BY DEF IInv, OpShape, WriteShape, TypeOK, IO, Op
  <1>4. QueueReleased'
    BY DEF IInv, QueueReleased, Blocked, InFlight, TypeOK, IO
  <1>5. CapacityReserved'
    BY Lengths DEF IInv, CapacityReserved, Demand, WriteShape, TypeOK, IO
  <1> QED BY <1>1, <1>2, <1>3, <1>4, <1>5 DEF IInv

\* A failed append becomes a fallback write of the same batch, or fails.
LEMMA AppendFailsStep ==
  ASSUME IInv, AppendFails
  PROVE  IInv'
  <1> USE DEF AppendFails, shells, stream
  <1>1. TypeOK'
    BY DEF IInv, TypeOK, IO, Op, IOKinds
  <1>2. WriteShape'
    BY DEF IInv, WriteShape, TypeOK, IO, Op
  <1>3. OpShape'
    BY DEF IInv, OpShape, WriteShape, TypeOK, IO, Op
  <1>4. QueueReleased'
    BY DEF IInv, QueueReleased, Blocked, InFlight, TypeOK, IO
  <1>5. CapacityReserved'
    BY Lengths DEF IInv, CapacityReserved, Demand, WriteShape, TypeOK, IO
  <1> QED BY <1>1, <1>2, <1>3, <1>4, <1>5 DEF IInv

\* flush_pending moves the queued batches into the write: demand is unchanged.
LEMMA BeginFlushStep ==
  ASSUME IInv, NEW b \in BOOLEAN, BeginFlush(b), b \/ op.phase = "flush"
  PROVE  IInv'
  <1> USE DEF BeginFlush, shells, stream, BeginWrite
  <1>1. TypeOK'
    BY DEF IInv, TypeOK, IO, Op, IOKinds
  <1>2. WriteShape'
    BY DEF IInv, WriteShape, TypeOK, IO, Op
  <1>3. OpShape'
    BY DEF IInv, OpShape, WriteShape, TypeOK, IO, Op
  <1>4. QueueReleased'
    BY DEF IInv, QueueReleased, Blocked, InFlight, TypeOK, IO
  <1>5. CapacityReserved'
    BY Lengths DEF IInv, CapacityReserved, Demand, WriteShape, TypeOK, IO
  <1> QED BY <1>1, <1>2, <1>3, <1>4, <1>5 DEF IInv

\* An operation's own flush begins a write or moves on.
LEMMA OpFlushStep ==
  ASSUME IInv, OpFlush
  PROVE  IInv'
  <1>1. CASE pendingDurable # <<>> \/ dirty
    BY <1>1, BeginFlushStep DEF OpFlush
  <1>2. CASE ~(pendingDurable # <<>> \/ dirty)
    <2> USE DEF OpFlush, shells, stream, AfterFlush
    <2>1. TypeOK'
      BY <1>2, ZenonT(90) DEF IInv, TypeOK, IO, Op, Phases
    <2>2. WriteShape'
      BY <1>2 DEF IInv, WriteShape, TypeOK, IO, Op
    <2>3. OpShape'
      BY <1>2, ZenonT(90) DEF IInv, OpShape, WriteShape, TypeOK, IO, Op, Lifecycle
    <2>4. QueueReleased'
      BY <1>2 DEF IInv, QueueReleased, Blocked, InFlight, TypeOK, IO
    <2>5. CapacityReserved'
      BY <1>2, Lengths DEF IInv, CapacityReserved, Demand, WriteShape, TypeOK, IO
    <2> QED BY <2>1, <2>2, <2>3, <2>4, <2>5 DEF IInv
  <1> QED BY <1>1, <1>2

\* The flushed batches are published: demand becomes log.
LEMMA FinishFlushStep ==
  ASSUME IInv, FinishFlush
  PROVE  IInv'
  <1> USE DEF FinishFlush, shells, stream, AfterFlush
  <1>a. /\ log \in Seq(Event) /\ io.batch \in Seq(Event)
        /\ pendingDurable \in Seq(Event) /\ pendingRuntime \in Seq(Event)
        /\ reservation \in Nat /\ Len(<<>>) = 0
    BY EmptySeq DEF IInv, TypeOK, IO
  <1>b. /\ log' \in Seq(Event) /\ pendingRuntime' \in Seq(Event)
        /\ pendingDurable' = pendingDurable /\ reservation' = reservation /\ base' = base
        /\ Len(log') + Len(pendingRuntime') = Len(log) + Len(io.batch) + Len(pendingRuntime)
        /\ pendingRuntime' = <<>> \/ pendingDurable' # <<>> \/ reservation' # 0
    <2>1. Settle(io.batch, pendingDurable, pendingRuntime, reservation, FALSE)
      OBVIOUS
    <2> HIDE DEF FinishFlush
    <2> QED BY <1>a, <2>1, SettleEffect
  <1>1. TypeOK'
    BY <1>b, BlankTypes, ZenonT(90) DEF IInv, TypeOK, IO, Op, Phases
  <1>2. WriteShape'
    BY <1>b, BlankTypes DEF IInv, WriteShape, TypeOK, IO, Op, NoOp, NoIO
  <1>3. OpShape'
    BY <1>b, BlankTypes DEF IInv, OpShape, WriteShape, TypeOK, IO, Op, NoOp, NoIO, Lifecycle
  <1>4. QueueReleased'
    BY <1>b, BlankTypes DEF IInv, QueueReleased, Blocked, InFlight, TypeOK, IO, NoIO
  <1>5. CapacityReserved'
    <2>1. Len(io'.batch) = 0 BY EmptySeq DEF NoIO
    <2>2. Len(pendingDurable') = Len(pendingDurable)
      BY <1>b DEF IInv, TypeOK, IO
    <2>3. Len(log') \in Nat /\ Len(pendingRuntime') \in Nat BY <1>b
    <2>4. Len(log') + Len(pendingRuntime') = Len(log) + Len(io.batch) + Len(pendingRuntime) BY <1>b
    <2>5. reservation' = reservation BY <1>b
    <2> HIDE DEF FinishFlush
    <2>6. Len(log') + Len(io'.batch) + Len(pendingDurable') + Len(pendingRuntime')
            + reservation' <= MaxEventId
      BY <2>1, <2>2, <2>3, <2>4, <2>5, Lengths, SMTT(60)
    <2> QED BY <1>b, <2>1, <2>2, <2>3, <2>6, Lengths DEF CapacityReserved, Demand
  <1> QED BY <1>1, <1>2, <1>3, <1>4, <1>5 DEF IInv

\* The flushed batches return to the queue: demand is unchanged.
LEMMA FlushFailedStep ==
  ASSUME IInv, FlushFailed
  PROVE  IInv'
  <1> USE DEF FlushFailed, shells, stream
  <1> DEFINE queue == io.batch \o pendingDurable
  <1>c. /\ queue \in Seq(Event) /\ Len(queue) = Len(io.batch) + Len(pendingDurable)
        /\ io.batch = <<>> /\ pendingDurable = <<>> => queue = <<>>
    BY ConcatProperties, ConcatEmptySeq DEF IInv, TypeOK, IO
  <1> HIDE DEF queue
  <1>a. /\ log \in Seq(Event) /\ <<>> \in Seq(Event)
        /\ queue \in Seq(Event) /\ pendingRuntime \in Seq(Event)
        /\ reservation \in Nat /\ Len(<<>>) = 0
    BY EmptySeq, <1>c DEF IInv, TypeOK, IO
  <1>b. /\ log' \in Seq(Event) /\ pendingRuntime' \in Seq(Event)
        /\ pendingDurable' = queue /\ reservation' = reservation /\ base' = base
        /\ Len(log') + Len(pendingRuntime') = Len(log) + Len(pendingRuntime)
        /\ pendingRuntime' = <<>> \/ pendingDurable' # <<>> \/ reservation' # 0
    <2>1. Settle(<<>>, queue, pendingRuntime, reservation, FALSE)
      BY DEF queue
    <2> HIDE DEF FlushFailed
    <2> QED BY <1>a, <2>1, SettleNothing
  <1>1. TypeOK'
    BY <1>b, BlankTypes, <1>c, ZenonT(90) DEF IInv, TypeOK, IO, Op, Phases
  <1>2. WriteShape'
    BY <1>b, BlankTypes, <1>c DEF IInv, WriteShape, TypeOK, IO, Op, NoOp, NoIO
  <1>3. OpShape'
    BY <1>b, BlankTypes, <1>c DEF IInv, OpShape, WriteShape, TypeOK, IO, Op, NoOp, NoIO, Lifecycle
  <1>4. QueueReleased'
    BY <1>b, BlankTypes, <1>c DEF IInv, QueueReleased, Blocked, InFlight, TypeOK, IO, NoIO
  <1>5. CapacityReserved'
    <2>1. Len(io'.batch) = 0 BY EmptySeq DEF NoIO
    <2>2. Len(pendingDurable') = Len(io.batch) + Len(pendingDurable)
      BY <1>b, <1>c DEF IInv, TypeOK, IO
    <2>3. Len(log') \in Nat /\ Len(pendingRuntime') \in Nat BY <1>b
    <2>4. Len(log') + Len(pendingRuntime') = Len(log) + Len(pendingRuntime) BY <1>b
    <2>5. reservation' = reservation BY <1>b
    <2> HIDE DEF FlushFailed
    <2>6. Len(log') + Len(io'.batch) + Len(pendingDurable') + Len(pendingRuntime')
            + reservation' <= MaxEventId
      BY <2>1, <2>2, <2>3, <2>4, <2>5, Lengths, SMTT(60)
    <2> QED BY <1>b, <2>1, <2>2, <2>3, <2>6, Lengths, SMTT(60) DEF CapacityReserved, Demand
  <1> QED BY <1>1, <1>2, <1>3, <1>4, <1>5 DEF IInv

\* A journal checkpoint writes without announcing anything.
LEMMA WriteCheckpointStep ==
  ASSUME IInv, WriteCheckpoint
  PROVE  IInv'
  <1> USE DEF WriteCheckpoint, shells, stream, BeginWrite
  <1>1. TypeOK'
    BY DEF IInv, TypeOK, IO, Op, IOKinds
  <1>2. WriteShape'
    BY DEF IInv, WriteShape, TypeOK, IO, Op
  <1>3. OpShape'
    BY DEF IInv, OpShape, WriteShape, TypeOK, IO, Op
  <1>4. QueueReleased'
    BY DEF IInv, QueueReleased, Blocked, InFlight, TypeOK, IO
  <1>5. CapacityReserved'
    BY Lengths DEF IInv, CapacityReserved, Demand, WriteShape, TypeOK, IO
  <1> QED BY <1>1, <1>2, <1>3, <1>4, <1>5 DEF IInv

\* An empty journal needs no checkpoint.
LEMMA SkipCheckpointStep ==
  ASSUME IInv, SkipCheckpoint
  PROVE  IInv'
  <1> USE DEF SkipCheckpoint, shells, stream
  <1>1. TypeOK'
    BY BlankTypes DEF IInv, TypeOK, IO, Op, Phases
  <1>2. WriteShape'
    BY BlankTypes DEF IInv, WriteShape, TypeOK, IO, Op, NoOp, NoIO
  <1>3. OpShape'
    BY BlankTypes DEF IInv, OpShape, WriteShape, TypeOK, IO, Op, NoOp
  <1>4. QueueReleased'
    BY BlankTypes DEF IInv, QueueReleased, Blocked, InFlight, TypeOK, IO, NoIO
  <1>5. CapacityReserved'
    BY BlankTypes, Lengths DEF IInv, CapacityReserved, Demand, WriteShape, TypeOK, IO, NoIO
  <1> QED BY <1>1, <1>2, <1>3, <1>4, <1>5 DEF IInv

\* The checkpoint ends and the operation goes on to its admission.
LEMMA FinishCheckpointStep ==
  ASSUME IInv, FinishCheckpoint
  PROVE  IInv'
  <1> USE DEF FinishCheckpoint, shells, stream
  <1>1. TypeOK'
    BY BlankTypes DEF IInv, TypeOK, IO, Op, Phases
  <1>2. WriteShape'
    BY BlankTypes DEF IInv, WriteShape, TypeOK, IO, Op, NoOp, NoIO
  <1>3. OpShape'
    BY BlankTypes DEF IInv, OpShape, WriteShape, TypeOK, IO, Op, NoOp
  <1>4. QueueReleased'
    BY BlankTypes DEF IInv, QueueReleased, Blocked, InFlight, TypeOK, IO, NoIO
  <1>5. CapacityReserved'
    BY BlankTypes, Lengths DEF IInv, CapacityReserved, Demand, WriteShape, TypeOK, IO, NoIO
  <1> QED BY <1>1, <1>2, <1>3, <1>4, <1>5 DEF IInv

\* A failed checkpoint refuses the operation.
LEMMA CheckpointFailedStep ==
  ASSUME IInv, CheckpointFailed
  PROVE  IInv'
  <1> USE DEF CheckpointFailed, shells, stream
  <1>1. TypeOK'
    BY BlankTypes DEF IInv, TypeOK, IO, Op, Phases
  <1>2. WriteShape'
    BY BlankTypes DEF IInv, WriteShape, TypeOK, IO, Op, NoOp, NoIO
  <1>3. OpShape'
    BY BlankTypes DEF IInv, OpShape, WriteShape, TypeOK, IO, Op, NoOp
  <1>4. QueueReleased'
    BY BlankTypes DEF IInv, QueueReleased, Blocked, InFlight, TypeOK, IO, NoIO
  <1>5. CapacityReserved'
    BY BlankTypes, Lengths DEF IInv, CapacityReserved, Demand, WriteShape, TypeOK, IO, NoIO
  <1> QED BY <1>1, <1>2, <1>3, <1>4, <1>5 DEF IInv

\* An operation that takes mutation_lock and leaves the stream alone.
LEMMA BeginStep ==
  ASSUME IInv, NEW kind \in OpKinds, NEW phase \in {"checkpoint", "flush", "apply"},
         NEW targets \in SUBSET Entities,
         kind = "close" => targets \in SUBSET Shells /\ targets # {},
         kind \in Lifecycle => phase = "checkpoint",
         kind \notin {"none", "start"} \/ phase = "flush", kind # "none",
         Begin(kind, phase, targets), UNCHANGED <<stream, io, journal>>
  PROVE  op' \in Op /\ WriteShape' /\ OpShape' /\ QueueReleased' /\ CapacityReserved'
  <1> USE DEF stream
  <1>1. op.kind = "none" /\ op.phase = "admit" /\ reservation = 0
    BY DEF Begin, IInv, OpShape
  <1>2. op' = [NoOp EXCEPT !.kind = kind, !.phase = phase, !.targets = targets]
    BY DEF Begin
  <1>3. /\ op' \in Op /\ op'.kind = kind /\ op'.phase = phase /\ op'.targets = targets
        /\ op'.stopped = {}
    BY <1>2, BlankTypes DEF Op, Phases, NoOp
  <1>4. WriteShape'
    BY <1>1, <1>3 DEF IInv, WriteShape, TypeOK, IO, Op
  <1>5. OpShape'
    BY <1>1, <1>3 DEF OpShape, Lifecycle
  <1>6. QueueReleased' BY DEF IInv, QueueReleased, Blocked, InFlight
  <1>7. CapacityReserved' BY DEF IInv, CapacityReserved, Demand
  <1> QED BY <1>3, <1>4, <1>5, <1>6, <1>7

\* The operations that begin and change nothing else.
LEMMA QuietBeginStep ==
  ASSUME IInv, NEW kind \in OpKinds \ {"none", "start"},
         NEW phase \in {"checkpoint", "flush"}, NEW targets \in SUBSET Entities,
         kind = "close" => targets \in SUBSET Shells /\ targets # {},
         kind \in Lifecycle => phase = "checkpoint",
         Begin(kind, phase, targets), Quiet
  PROVE  IInv'
  <1>1. UNCHANGED <<stream, io, journal>> BY DEF Quiet
  <1>2. op' \in Op /\ WriteShape' /\ OpShape' /\ QueueReleased' /\ CapacityReserved'
    BY <1>1, BeginStep
  <1>3. TypeOK' BY <1>2 DEF IInv, TypeOK, Quiet, shells, stream
  <1> QED BY <1>2, <1>3 DEF IInv

\* A baseline read changes nothing.
LEMMA ObserveBaselineStep ==
  ASSUME IInv, ObserveBaseline
  PROVE  IInv'
  <1> USE DEF ObserveBaseline, shells, stream, Quiet
  <1>1. TypeOK'
    BY BlankTypes DEF IInv, TypeOK, IO, Op, Phases
  <1>2. WriteShape'
    BY BlankTypes DEF IInv, WriteShape, TypeOK, IO, Op, NoOp
  <1>3. OpShape'
    BY BlankTypes DEF IInv, OpShape, WriteShape, TypeOK, IO, Op, NoOp, Lifecycle
  <1>4. QueueReleased'
    BY BlankTypes DEF IInv, QueueReleased, Blocked, InFlight, TypeOK, IO
  <1>5. CapacityReserved'
    BY BlankTypes, Lengths DEF IInv, CapacityReserved, Demand, WriteShape, TypeOK, IO
  <1> QED BY <1>1, <1>2, <1>3, <1>4, <1>5 DEF IInv

\* ensure_running lets the operation flush or refuses it.
LEMMA AdmitMutationStep ==
  ASSUME IInv, AdmitMutation
  PROVE  IInv'
  <1> USE DEF AdmitMutation, shells, stream, Quiet
  <1>1. TypeOK'
    BY BlankTypes DEF IInv, TypeOK, IO, Op, Phases
  <1>2. WriteShape'
    BY BlankTypes DEF IInv, WriteShape, TypeOK, IO, Op, NoOp
  <1>3. OpShape'
    BY BlankTypes DEF IInv, OpShape, WriteShape, TypeOK, IO, Op, NoOp, Lifecycle
  <1>4. QueueReleased'
    BY BlankTypes DEF IInv, QueueReleased, Blocked, InFlight, TypeOK, IO
  <1>5. CapacityReserved'
    BY BlankTypes, Lengths DEF IInv, CapacityReserved, Demand, WriteShape, TypeOK, IO
  <1> QED BY <1>1, <1>2, <1>3, <1>4, <1>5 DEF IInv

\* Every Shell is stopped: the reservation stays held.
LEMMA AllStoppedStep ==
  ASSUME IInv, AllStopped
  PROVE  IInv'
  <1> USE DEF AllStopped, shells, stream, Quiet
  <1>1. TypeOK'
    BY BlankTypes DEF IInv, TypeOK, IO, Op, Phases
  <1>2. WriteShape'
    BY BlankTypes DEF IInv, WriteShape, TypeOK, IO, Op, NoOp
  <1>3. OpShape'
    BY BlankTypes DEF IInv, OpShape, WriteShape, TypeOK, IO, Op, NoOp, Lifecycle
  <1>4. QueueReleased'
    BY BlankTypes DEF IInv, QueueReleased, Blocked, InFlight, TypeOK, IO
  <1>5. CapacityReserved'
    BY BlankTypes, Lengths DEF IInv, CapacityReserved, Demand, WriteShape, TypeOK, IO
  <1> QED BY <1>1, <1>2, <1>3, <1>4, <1>5 DEF IInv

\* A start that is refused ends the operation.
LEMMA StartRefusedStep ==
  ASSUME IInv, StartRefused
  PROVE  IInv'
  <1> USE DEF StartRefused, shells, stream, Quiet
  <1>1. TypeOK'
    BY BlankTypes DEF IInv, TypeOK, IO, Op, Phases
  <1>2. WriteShape'
    BY BlankTypes DEF IInv, WriteShape, TypeOK, IO, Op, NoOp, OpShape
  <1>3. OpShape'
    BY BlankTypes DEF IInv, OpShape, WriteShape, TypeOK, IO, Op, NoOp, Lifecycle
  <1>4. QueueReleased'
    BY BlankTypes DEF IInv, QueueReleased, Blocked, InFlight, TypeOK, IO
  <1>5. CapacityReserved'
    BY BlankTypes, Lengths DEF IInv, CapacityReserved, Demand, WriteShape, TypeOK, IO
  <1> QED BY <1>1, <1>2, <1>3, <1>4, <1>5 DEF IInv

\* A start takes mutation_lock and resets an exited Shell.
LEMMA BeginStartStep ==
  ASSUME IInv, NEW s \in Shells, BeginStart(s)
  PROVE  IInv'
  <1>1. Begin("start", "flush", {s}) /\ UNCHANGED <<stream, io, journal>>
    BY DEF BeginStart
  <1>2. op' \in Op /\ WriteShape' /\ OpShape' /\ QueueReleased' /\ CapacityReserved'
    BY <1>1, BeginStep DEF OpKinds, Lifecycle, Entities
  <1>3. TypeOK' BY <1>2 DEF BeginStart, IInv, TypeOK, Lifecycles, stream
  <1> QED BY <1>2, <1>3 DEF IInv

\* An exit takes mutation_lock, or is dropped as stale.
LEMMA BeginExitStep ==
  ASSUME IInv, NEW s \in Shells, NEW g \in Nat, BeginExit(s, g)
  PROVE  IInv'
  <1>1. CASE Current(s, g)
    <2>1. Begin("exit", "apply", {s}) /\ UNCHANGED <<stream, io, journal>>
      BY <1>1 DEF BeginExit
    <2>2. op' \in Op /\ WriteShape' /\ OpShape' /\ QueueReleased' /\ CapacityReserved'
      BY <2>1, BeginStep DEF OpKinds, Lifecycle, Entities
    <2>3. TypeOK' BY <1>1, <2>2 DEF BeginExit, IInv, TypeOK, stream
    <2> QED BY <2>2, <2>3 DEF IInv
  <1>2. CASE ~Current(s, g)
    <2>1. UNCHANGED <<mem, life, reader, disk, journal, dirty, stopping, stream, op, io, crashes>>
      BY <1>2 DEF BeginExit
    <2>2. exits' \in SUBSET (Shells \X Nat) BY <1>2 DEF BeginExit, IInv, TypeOK
    <2> QED BY <2>1, <2>2 DEF IInv, TypeOK, WriteShape, OpShape, QueueReleased,
                 Blocked, InFlight, CapacityReserved, Demand, stream
  <1> QED BY <1>1, <1>2

\* A terminal-history checkpoint marks the registry dirty.
LEMMA CheckpointHistoryStep ==
  ASSUME IInv, NEW s \in Shells, CheckpointHistory(s)
  PROVE  IInv'
  <1> USE DEF CheckpointHistory, shells, stream, Touched
  <1>1. TypeOK'
    BY DEF IInv, TypeOK, IO, Op, Touched
  <1>2. WriteShape'
    BY DEF IInv, WriteShape, TypeOK, IO, Op
  <1>3. OpShape'
    BY DEF IInv, OpShape, WriteShape, TypeOK, IO, Op
  <1>4. QueueReleased'
    BY DEF IInv, QueueReleased, Blocked, InFlight, TypeOK, IO
  <1>5. CapacityReserved'
    BY Lengths DEF IInv, CapacityReserved, Demand, WriteShape, TypeOK, IO
  <1> QED BY <1>1, <1>2, <1>3, <1>4, <1>5 DEF IInv

\* A reader that finds no event ID ends.
LEMMA OutputRefusedStep ==
  ASSUME IInv, NEW s \in Shells, OutputRefused(s)
  PROVE  IInv'
  <1> USE DEF OutputRefused, shells, stream
  <1>1. TypeOK'
    BY DEF IInv, TypeOK, IO, Op, Readers
  <1>2. WriteShape'
    BY DEF IInv, WriteShape, TypeOK, IO, Op
  <1>3. OpShape'
    BY DEF IInv, OpShape, WriteShape, TypeOK, IO, Op
  <1>4. QueueReleased'
    BY DEF IInv, QueueReleased, Blocked, InFlight, TypeOK, IO
  <1>5. CapacityReserved'
    BY Lengths DEF IInv, CapacityReserved, Demand, WriteShape, TypeOK, IO
  <1> QED BY <1>1, <1>2, <1>3, <1>4, <1>5 DEF IInv

\* A reader that ends leaves its exit to be recorded.
LEMMA ProcessExitsStep ==
  ASSUME IInv, NEW s \in Shells, ProcessExits(s)
  PROVE  IInv'
  <1> USE DEF ProcessExits, shells, stream
  <1>a. mem[s].gen \in Nat BY DEF IInv, TypeOK, Record, Entities
  <1>1. TypeOK'
    BY <1>a DEF IInv, TypeOK, IO, Op, Readers
  <1>2. WriteShape'
    BY DEF IInv, WriteShape, TypeOK, IO, Op
  <1>3. OpShape'
    BY DEF IInv, OpShape, WriteShape, TypeOK, IO, Op
  <1>4. QueueReleased'
    BY DEF IInv, QueueReleased, Blocked, InFlight, TypeOK, IO
  <1>5. CapacityReserved'
    BY Lengths DEF IInv, CapacityReserved, Demand, WriteShape, TypeOK, IO
  <1> QED BY <1>1, <1>2, <1>3, <1>4, <1>5 DEF IInv

\* restart_shell changes the lifecycle only.
LEMMA RestartShellStep ==
  ASSUME IInv, NEW s \in Shells, RestartShell(s)
  PROVE  IInv'
  <1> USE DEF RestartShell, shells, stream
  <1>1. TypeOK'
    BY DEF IInv, TypeOK, IO, Op, Lifecycles
  <1>2. WriteShape'
    BY DEF IInv, WriteShape, TypeOK, IO, Op
  <1>3. OpShape'
    BY DEF IInv, OpShape, WriteShape, TypeOK, IO, Op
  <1>4. QueueReleased'
    BY DEF IInv, QueueReleased, Blocked, InFlight, TypeOK, IO
  <1>5. CapacityReserved'
    BY Lengths DEF IInv, CapacityReserved, Demand, WriteShape, TypeOK, IO
  <1> QED BY <1>1, <1>2, <1>3, <1>4, <1>5 DEF IInv

\* reserve_with_pending(1) is the room its one event needs.
LEMMA ApplyMutationStep ==
  ASSUME IInv, NEW e \in Entities, ApplyMutation(e)
  PROVE  IInv'
  <1>0. TypeOK BY DEF IInv
  <1>1. io.kind = "none" /\ io.batch = <<>> /\ op.kind \in {"mutate", "local"}
          /\ reservation = 0
    BY DEF ApplyMutation, IInv, WriteShape, OpShape, Lifecycle
  <1>2. UNCHANGED <<reader, exits, disk, journal, dirty, stopping, log, base,
                    pendingDurable, pendingRuntime, reservation, crashes>>
    BY DEF ApplyMutation, stream
  <1>3. CASE op' = NoOp /\ UNCHANGED <<mem, life, io>>
    <2>1. TypeOK' BY <1>0, <1>2, <1>3, BlankTypes DEF TypeOK
    <2> QED BY <1>1, <1>2, <1>3, <2>1 DEF IInv, WriteShape, OpShape, NoOp, Lifecycle,
              QueueReleased, Blocked, InFlight, CapacityReserved, Demand
  <1>4. ASSUME op' # NoOp \/ ~UNCHANGED <<mem, life, io>>
        PROVE  IInv'
    <2>1. /\ ReserveWithPending(1)
          /\ mem' = Mutated(e)
          /\ life' = IF Creates(e) THEN [life EXCEPT ![e] = "pending"] ELSE life
          /\ BeginWrite(IF op.kind = "local" THEN "journal" ELSE "commit",
                        Mutated(e), MutationEvents(e), 1, FALSE)
          /\ op' = [op EXCEPT !.phase = "commit", !.undo = mem, !.undoLife = life]
      BY <1>4 DEF ApplyMutation
    <2>2. /\ io'.kind \in {"journal", "commit"} /\ io'.batch = MutationEvents(e)
          /\ io'.count = 1 /\ io' \in IO
      BY <1>0, <2>1, MutatedType DEF BeginWrite, IO, IOKinds
    <2>3. op' \in Op /\ op'.kind = op.kind /\ op'.phase = "commit"
      BY <1>0, <2>1 DEF TypeOK, Op, Phases
    <2>4. life' \in [Shells -> Lifecycles]
      BY <1>0, <2>1 DEF TypeOK, Lifecycles, Creates
    <2>5. TypeOK' BY <1>0, <1>2, <2>1, <2>2, <2>3, <2>4, MutatedType DEF TypeOK
    <2>6. Len(io'.batch) = 1 BY <1>0, <2>2, MutatedType
    <2>7. WriteShape' BY <2>2, <2>3, <2>6 DEF WriteShape
    <2>8. OpShape' BY <1>1, <1>2, <2>3 DEF OpShape, Lifecycle
    <2>9. QueueReleased' BY <2>2 DEF QueueReleased, Blocked, InFlight
    <2>10. CapacityReserved'
      BY <1>1, <1>2, <2>1, <2>6, Lengths
      DEF CapacityReserved, Demand, ReserveWithPending, Reserved, EnsureCapacity
    <2> QED BY <2>5, <2>7, <2>8, <2>9, <2>10 DEF IInv
  <1> QED BY <1>3, <1>4

\* The mutation is published and the queue released.
LEMMA FinishMutationStep ==
  ASSUME IInv, FinishMutation
  PROVE  IInv'
  <1> USE DEF FinishMutation, shells, stream
  <1>a. /\ log \in Seq(Event) /\ io.batch \in Seq(Event)
        /\ pendingDurable \in Seq(Event) /\ pendingRuntime \in Seq(Event)
        /\ reservation \in Nat /\ Len(<<>>) = 0
    BY EmptySeq DEF IInv, TypeOK, IO
  <1>b. /\ log' \in Seq(Event) /\ pendingRuntime' \in Seq(Event)
        /\ pendingDurable' = pendingDurable /\ reservation' = reservation /\ base' = base
        /\ Len(log') + Len(pendingRuntime') = Len(log) + Len(io.batch) + Len(pendingRuntime)
        /\ pendingRuntime' = <<>> \/ pendingDurable' # <<>> \/ reservation' # 0
    <2>1. Settle(io.batch, pendingDurable, pendingRuntime, reservation, FALSE)
      OBVIOUS
    <2> HIDE DEF FinishMutation
    <2> QED BY <1>a, <2>1, SettleEffect
  <1>1. TypeOK'
    BY <1>b, BlankTypes, SMTT(60) DEF IInv, TypeOK, IO, Op, Phases
  <1>2. WriteShape'
    BY <1>b, BlankTypes DEF IInv, WriteShape, TypeOK, IO, Op, NoOp, NoIO
  <1>3. OpShape'
    BY <1>b, BlankTypes DEF IInv, OpShape, WriteShape, TypeOK, IO, Op, NoOp, NoIO, Lifecycle
  <1>4. QueueReleased'
    BY <1>b, BlankTypes DEF IInv, QueueReleased, Blocked, InFlight, TypeOK, IO, NoIO
  <1>5. CapacityReserved'
    <2>1. Len(io'.batch) = 0 BY EmptySeq DEF NoIO
    <2>2. Len(pendingDurable') = Len(pendingDurable)
      BY <1>b DEF IInv, TypeOK, IO
    <2>3. Len(log') \in Nat /\ Len(pendingRuntime') \in Nat BY <1>b
    <2>4. Len(log') + Len(pendingRuntime') = Len(log) + Len(io.batch) + Len(pendingRuntime) BY <1>b
    <2>5. reservation' = reservation BY <1>b
    <2> HIDE DEF FinishMutation
    <2>6. Len(log') + Len(io'.batch) + Len(pendingDurable') + Len(pendingRuntime')
            + reservation' <= MaxEventId
      BY <2>1, <2>2, <2>3, <2>4, <2>5, Lengths, SMTT(60)
    <2> QED BY <1>b, <2>1, <2>2, <2>3, <2>6, Lengths DEF CapacityReserved, Demand
  <1> QED BY <1>1, <1>2, <1>3, <1>4, <1>5 DEF IInv

\* The mutation is undone and its reserved event dropped.
LEMMA MutationFailedStep ==
  ASSUME IInv, MutationFailed
  PROVE  IInv'
  <1> USE DEF MutationFailed, shells, stream
  <1>a. /\ log \in Seq(Event) /\ <<>> \in Seq(Event)
        /\ pendingDurable \in Seq(Event) /\ pendingRuntime \in Seq(Event)
        /\ reservation \in Nat /\ Len(<<>>) = 0
    BY EmptySeq DEF IInv, TypeOK, IO
  <1>b. /\ log' \in Seq(Event) /\ pendingRuntime' \in Seq(Event)
        /\ pendingDurable' = pendingDurable /\ reservation' = reservation /\ base' = base
        /\ Len(log') + Len(pendingRuntime') = Len(log) + Len(pendingRuntime)
        /\ pendingRuntime' = <<>> \/ pendingDurable' # <<>> \/ reservation' # 0
    <2>1. Settle(<<>>, pendingDurable, pendingRuntime, reservation, FALSE)
      OBVIOUS
    <2> HIDE DEF MutationFailed
    <2> QED BY <1>a, <2>1, SettleNothing
  <1>1. TypeOK'
    BY <1>b, BlankTypes DEF IInv, TypeOK, IO, Op, Phases
  <1>2. WriteShape'
    BY <1>b, BlankTypes DEF IInv, WriteShape, TypeOK, IO, Op, NoOp, NoIO
  <1>3. OpShape'
    BY <1>b, BlankTypes DEF IInv, OpShape, WriteShape, TypeOK, IO, Op, NoOp, NoIO, Lifecycle
  <1>4. QueueReleased'
    BY <1>b, BlankTypes DEF IInv, QueueReleased, Blocked, InFlight, TypeOK, IO, NoIO
  <1>5. CapacityReserved'
    <2>1. Len(io'.batch) = 0 BY EmptySeq DEF NoIO
    <2>2. Len(pendingDurable') = Len(pendingDurable)
      BY <1>b DEF IInv, TypeOK, IO
    <2>3. Len(log') \in Nat /\ Len(pendingRuntime') \in Nat BY <1>b
    <2>4. Len(log') + Len(pendingRuntime') = Len(log) + Len(pendingRuntime) BY <1>b
    <2>5. reservation' = reservation BY <1>b
    <2> HIDE DEF MutationFailed
    <2>6. Len(log') + Len(io'.batch) + Len(pendingDurable') + Len(pendingRuntime')
            + reservation' <= MaxEventId
      BY <2>1, <2>2, <2>3, <2>4, <2>5, Lengths, SMTT(60)
    <2> QED BY <1>b, <2>1, <2>2, <2>3, <2>6, Lengths DEF CapacityReserved, Demand
  <1> QED BY <1>1, <1>2, <1>3, <1>4, <1>5 DEF IInv

\* RunStarted is published and the queue released.
LEMMA FinishStartStep ==
  ASSUME IInv, FinishStart
  PROVE  IInv'
  <1> USE DEF FinishStart, shells, stream
  <1>a. /\ log \in Seq(Event) /\ io.batch \in Seq(Event)
        /\ pendingDurable \in Seq(Event) /\ pendingRuntime \in Seq(Event)
        /\ reservation \in Nat /\ Len(<<>>) = 0
    BY EmptySeq DEF IInv, TypeOK, IO
  <1>b. /\ log' \in Seq(Event) /\ pendingRuntime' \in Seq(Event)
        /\ pendingDurable' = pendingDurable /\ reservation' = reservation /\ base' = base
        /\ Len(log') + Len(pendingRuntime') = Len(log) + Len(io.batch) + Len(pendingRuntime)
        /\ pendingRuntime' = <<>> \/ pendingDurable' # <<>> \/ reservation' # 0
    <2>1. Settle(io.batch, pendingDurable, pendingRuntime, reservation, FALSE)
      OBVIOUS
    <2> HIDE DEF FinishStart
    <2> QED BY <1>a, <2>1, SettleEffect
  <1>1. TypeOK'
    BY <1>b, BlankTypes, SetAllType DEF IInv, TypeOK, IO, Op, Readers
  <1>2. WriteShape'
    BY <1>b, BlankTypes DEF IInv, WriteShape, TypeOK, IO, Op, NoOp, NoIO
  <1>3. OpShape'
    BY <1>b, BlankTypes DEF IInv, OpShape, WriteShape, TypeOK, IO, Op, NoOp, NoIO, Lifecycle
  <1>4. QueueReleased'
    BY <1>b, BlankTypes DEF IInv, QueueReleased, Blocked, InFlight, TypeOK, IO, NoIO
  <1>5. CapacityReserved'
    <2>1. Len(io'.batch) = 0 BY EmptySeq DEF NoIO
    <2>2. Len(pendingDurable') = Len(pendingDurable)
      BY <1>b DEF IInv, TypeOK, IO
    <2>3. Len(log') \in Nat /\ Len(pendingRuntime') \in Nat BY <1>b
    <2>4. Len(log') + Len(pendingRuntime') = Len(log) + Len(io.batch) + Len(pendingRuntime) BY <1>b
    <2>5. reservation' = reservation BY <1>b
    <2> HIDE DEF FinishStart
    <2>6. Len(log') + Len(io'.batch) + Len(pendingDurable') + Len(pendingRuntime')
            + reservation' <= MaxEventId
      BY <2>1, <2>2, <2>3, <2>4, <2>5, Lengths, SMTT(60)
    <2> QED BY <1>b, <2>1, <2>2, <2>3, <2>6, Lengths DEF CapacityReserved, Demand
  <1> QED BY <1>1, <1>2, <1>3, <1>4, <1>5 DEF IInv

\* The started processes are gone and their events dropped.
LEMMA StartFailedStep ==
  ASSUME IInv, StartFailed
  PROVE  IInv'
  <1> USE DEF StartFailed, shells, stream
  <1>a. /\ log \in Seq(Event) /\ <<>> \in Seq(Event)
        /\ pendingDurable \in Seq(Event) /\ pendingRuntime \in Seq(Event)
        /\ reservation \in Nat /\ Len(<<>>) = 0
    BY EmptySeq DEF IInv, TypeOK, IO
  <1>b. /\ log' \in Seq(Event) /\ pendingRuntime' \in Seq(Event)
        /\ pendingDurable' = pendingDurable /\ reservation' = reservation /\ base' = base
        /\ Len(log') + Len(pendingRuntime') = Len(log) + Len(pendingRuntime)
        /\ pendingRuntime' = <<>> \/ pendingDurable' # <<>> \/ reservation' # 0
    <2>1. Settle(<<>>, pendingDurable, pendingRuntime, reservation, FALSE)
      OBVIOUS
    <2> HIDE DEF StartFailed
    <2> QED BY <1>a, <2>1, SettleNothing
  <1>1. TypeOK'
    BY <1>b, BlankTypes, SetAllType, RegistryTypes DEF IInv, TypeOK, IO, Op, Readers, Lifecycles
  <1>2. WriteShape'
    BY <1>b, BlankTypes DEF IInv, WriteShape, TypeOK, IO, Op, NoOp, NoIO
  <1>3. OpShape'
    BY <1>b, BlankTypes DEF IInv, OpShape, WriteShape, TypeOK, IO, Op, NoOp, NoIO, Lifecycle
  <1>4. QueueReleased'
    BY <1>b, BlankTypes DEF IInv, QueueReleased, Blocked, InFlight, TypeOK, IO, NoIO
  <1>5. CapacityReserved'
    <2>1. Len(io'.batch) = 0 BY EmptySeq DEF NoIO
    <2>2. Len(pendingDurable') = Len(pendingDurable)
      BY <1>b DEF IInv, TypeOK, IO
    <2>3. Len(log') \in Nat /\ Len(pendingRuntime') \in Nat BY <1>b
    <2>4. Len(log') + Len(pendingRuntime') = Len(log) + Len(pendingRuntime) BY <1>b
    <2>5. reservation' = reservation BY <1>b
    <2> HIDE DEF StartFailed
    <2>6. Len(log') + Len(io'.batch) + Len(pendingDurable') + Len(pendingRuntime')
            + reservation' <= MaxEventId
      BY <2>1, <2>2, <2>3, <2>4, <2>5, Lengths, SMTT(60)
    <2> QED BY <1>b, <2>1, <2>2, <2>3, <2>6, Lengths DEF CapacityReserved, Demand
  <1> QED BY <1>1, <1>2, <1>3, <1>4, <1>5 DEF IInv

\* The bare reserve(1) suffices: after the flush nothing is queued or reserved.
LEMMA ApplyStartStep ==
  ASSUME IInv, NEW s \in Shells, ApplyStart(s)
  PROVE  IInv'
  <1>0. TypeOK BY DEF IInv
  <1>1. /\ op.kind = "start" /\ op.phase = "apply" /\ io.kind = "none"
        /\ reservation = 0 /\ pendingDurable = <<>> /\ pendingRuntime = <<>>
    BY DEF ApplyStart, IInv, OpShape, QueueReleased, Blocked, InFlight, Lifecycle
  <1> DEFINE batch == RunEvents("RunStarted", {s}, Started({s}))
  <1>2. batch \in Seq(Event) /\ Len(batch) = 1
    <2>1. Started({s}) \in [Entities -> Record] BY <1>0, StartedType
    <2>2. Cardinality({s}) = 1 BY FS_Singleton
    <2> QED BY <2>1, <2>2, RunEventsType DEF DurableKinds
  <1> HIDE DEF batch
  <1>3. /\ io'.kind \in {"journal", "commit"} /\ io'.batch = batch
        /\ io'.count = 1 /\ io' \in IO
    BY <1>0, <1>2, StartedType DEF ApplyStart, BeginWrite, IO, IOKinds, batch
  <1>4. op' \in Op /\ op'.kind = "start" /\ op'.phase = "commit"
    BY <1>0, <1>1 DEF ApplyStart, TypeOK, Op, Phases
  <1>5. UNCHANGED <<exits, disk, journal, dirty, stopping, log, base, pendingDurable,
                    pendingRuntime, reservation, crashes>>
    BY DEF ApplyStart, stream
  <1>6. TypeOK'
    BY <1>0, <1>3, <1>4, <1>5, StartedType DEF ApplyStart, TypeOK, Lifecycles, Readers
  <1>7. Len(io'.batch) = 1 BY <1>2, <1>3
  <1>8. WriteShape' BY <1>3, <1>4, <1>7 DEF WriteShape
  <1>9. OpShape' BY <1>1, <1>4, <1>5 DEF OpShape, Lifecycle
  <1>10. QueueReleased' BY <1>3 DEF QueueReleased, Blocked, InFlight
  <1>11. CapacityReserved'
    BY <1>1, <1>5, <1>7, Lengths DEF ApplyStart, CapacityReserved, Demand, EnsureCapacity
  <1> QED BY <1>6, <1>8, <1>9, <1>10, <1>11 DEF IInv

\* Room for every requested Shell is room for the ones started.
LEMMA ApplyRecoverStep ==
  ASSUME IInv, NEW S \in SUBSET Shells, ApplyRecover(S)
  PROVE  IInv'
  <1>0. TypeOK BY DEF IInv
  <1>1. /\ op.kind = "recover" /\ op.phase = "apply" /\ io.kind = "none"
        /\ reservation = 0 /\ io.batch = <<>>
    BY DEF ApplyRecover, IInv, OpShape, WriteShape, Lifecycle
  <1>2. UNCHANGED <<exits, disk, journal, dirty, stopping, log, base, pendingDurable,
                    pendingRuntime, reservation, crashes>>
    BY DEF ApplyRecover, stream
  <1>3. CASE S # {} /\ ReserveWithPending(Cardinality(op.targets))
    <2> DEFINE batch == RunEvents("RunStarted", S, Started(S))
    <2>1. batch \in Seq(Event) /\ Len(batch) = Cardinality(S)
      BY <1>0, RunEventsType, StartedType DEF DurableKinds
    <2>2. /\ Cardinality(S) \in Nat /\ Cardinality(op.targets) \in Nat
          /\ Cardinality(S) <= Cardinality(op.targets)
      <3>1. op.targets \in SUBSET Entities BY <1>0 DEF TypeOK, Op
      <3>2. S \in SUBSET op.targets BY DEF ApplyRecover
      <3>3. S \in SUBSET Entities BY DEF Entities
      <3> QED BY <3>1, <3>2, <3>3, FiniteSets, FS_Subset
    <2> HIDE DEF batch
    <2>3. /\ io'.kind = "commit" /\ io'.batch = batch
          /\ io'.count = Cardinality(S) /\ io' \in IO
      <3>1. BeginWrite("commit", Started(S), batch, Cardinality(S), FALSE)
        BY <1>3 DEF ApplyRecover, batch
      <3>2. Started(S) \in [Entities -> Record] BY <1>0, StartedType
      <3> QED BY <2>1, <2>2, <3>1, <3>2 DEF BeginWrite, IO, IOKinds
    <2>4. op' \in Op /\ op'.kind = "recover" /\ op'.phase = "commit"
      <3>1. S \in SUBSET Entities BY DEF Entities
      <3>2. op' = [op EXCEPT !.phase = "commit", !.targets = S, !.undo = mem]
        BY <1>3 DEF ApplyRecover
      <3> QED BY <1>0, <1>1, <3>1, <3>2 DEF TypeOK, Op, Phases
    <2>5. TypeOK'
      <3>1. /\ mem' = Started(S) /\ life' = SetAll(life, S, "running")
            /\ reader' = SetAll(reader, S, "paused")
        BY <1>3 DEF ApplyRecover
      <3>2. mem' \in [Entities -> Record] BY <1>0, <3>1, StartedType
      <3>3. life' \in [Shells -> Lifecycles] /\ reader' \in [Shells -> Readers]
        BY <1>0, <3>1, SetAllType DEF TypeOK, Lifecycles, Readers
      <3> QED BY <1>0, <1>2, <2>3, <2>4, <3>2, <3>3 DEF TypeOK
    <2>6. Len(io'.batch) = Cardinality(S) BY <2>1, <2>3
    <2>7. WriteShape' BY <2>2, <2>3, <2>4, <2>6 DEF WriteShape
    <2>8. OpShape' BY <1>1, <1>2, <2>4 DEF OpShape, Lifecycle
    <2>9. QueueReleased' BY <2>3 DEF QueueReleased, Blocked, InFlight
    <2>10. CapacityReserved'
      BY <1>1, <1>2, <1>3, <2>2, <2>6, Lengths, SMTT(60)
      DEF CapacityReserved, Demand, ReserveWithPending, Reserved, EnsureCapacity
    <2> QED BY <2>5, <2>7, <2>8, <2>9, <2>10 DEF IInv
  <1>4. CASE ~(S # {} /\ ReserveWithPending(Cardinality(op.targets)))
    <2>1. op' = NoOp /\ UNCHANGED <<mem, life, reader, io>> BY <1>4 DEF ApplyRecover
    <2>2. TypeOK' BY <1>0, <1>2, <2>1, BlankTypes DEF TypeOK
    <2> QED BY <1>1, <1>2, <2>1, <2>2 DEF IInv, WriteShape, OpShape, NoOp, Lifecycle,
              QueueReleased, Blocked, InFlight, CapacityReserved, Demand
  <1> QED BY <1>3, <1>4

\* An output event is published or queued within its reservation.
LEMMA PublishOutputStep ==
  ASSUME IInv, NEW s \in Shells, PublishOutput(s)
  PROVE  IInv'
  <1>0. TypeOK BY DEF IInv
  <1> DEFINE e == Evt("OutputChanged", s, mem[s].gen)
  <1>1. e \in Event
    <2>1. mem[s].gen \in Nat BY <1>0 DEF TypeOK, Record, Entities
    <2> QED BY <2>1 DEF Evt, Event, Entities
  <1>2. UNCHANGED <<mem, life, reader, exits, disk, journal, dirty, stopping, base,
                    pendingDurable, reservation, op, io, crashes>>
    BY DEF PublishOutput, shells
  <1>3. ReserveWithPending(1) BY DEF PublishOutput
  <1>4. IF Blocked
        THEN pendingRuntime' = QueueRuntime(pendingRuntime, e) /\ UNCHANGED log
        ELSE log' = Append(log, e) /\ UNCHANGED pendingRuntime
    BY DEF PublishOutput
  <1> HIDE DEF e
  <1>5. /\ log' \in Seq(Event) /\ pendingRuntime' \in Seq(Event)
        /\ Len(log') + Len(pendingRuntime') <= Len(log) + Len(pendingRuntime) + 1
        /\ Len(log') \in Nat /\ Len(pendingRuntime') \in Nat
    <2>0. log \in Seq(Event) /\ pendingRuntime \in Seq(Event) BY <1>0 DEF TypeOK
    <2>1. CASE Blocked
      <3>1. pendingRuntime' = QueueRuntime(pendingRuntime, e) /\ log' = log
        BY <1>4, <2>1
      <3>2. /\ pendingRuntime' \in Seq(Event)
            /\ Len(pendingRuntime') <= Len(pendingRuntime) + 1
        BY <1>1, <2>0, <3>1, QueueRuntimeType
      <3> QED BY <2>0, <3>1, <3>2, LenProperties
    <2>2. CASE ~Blocked
      <3>1. log' = Append(log, e) /\ pendingRuntime' = pendingRuntime
        BY <1>4, <2>2
      <3>2. log' \in Seq(Event) /\ Len(log') = Len(log) + 1
        BY <1>1, <2>0, <3>1
      <3> QED BY <2>0, <3>1, <3>2, LenProperties
    <2> QED BY <2>1, <2>2
  <1>6. TypeOK' BY <1>0, <1>2, <1>5 DEF TypeOK
  <1>7. WriteShape' /\ OpShape' BY <1>2 DEF IInv, WriteShape, OpShape
  <1>8. QueueReleased'
    <2>1. CASE Blocked BY <1>2, <2>1 DEF QueueReleased, Blocked, InFlight
    <2>2. CASE ~Blocked
      BY <1>4, <2>2 DEF IInv, QueueReleased, Blocked, InFlight
    <2> QED BY <2>1, <2>2
  <1>9. CapacityReserved'
    <2>1. Len(log) + (io.count + Len(pendingDurable) + Len(pendingRuntime) + reservation + 1)
            <= MaxEventId
      BY <1>3 DEF ReserveWithPending, Reserved, EnsureCapacity
    <2>2. Len(log') + (Len(io.batch) + Len(pendingDurable) + Len(pendingRuntime')
            + reservation) <= MaxEventId
      <3>1. /\ Len(log') \in Nat /\ Len(pendingRuntime') \in Nat
            /\ Len(log') + Len(pendingRuntime') <= Len(log) + Len(pendingRuntime) + 1
        BY <1>5
      <3>2. /\ Len(log) \in Nat /\ Len(pendingDurable) \in Nat
            /\ Len(pendingRuntime) \in Nat /\ Len(io.batch) \in Nat
            /\ io.count \in Nat /\ reservation \in Nat /\ MaxEventId \in Nat
            /\ Len(io.batch) <= io.count
        BY Lengths
      <3> QED BY <2>1, <3>1, <3>2, OneMore
    <2> QED BY <1>2, <2>2 DEF CapacityReserved, Demand
  <1> QED BY <1>6, <1>7, <1>8, <1>9 DEF IInv

\* The queued output moves into the exit batch: demand grows by one.
LEMMA ApplyExitStep ==
  ASSUME IInv, NEW s \in Shells, ApplyExit(s)
  PROVE  IInv'
  <1>0. TypeOK BY DEF IInv
  <1>1. /\ op.kind = "exit" /\ op.phase = "apply" /\ io.kind = "none"
        /\ reservation = 0 /\ io.batch = <<>>
    BY DEF ApplyExit, IInv, OpShape, WriteShape, Lifecycle
  <1>2. /\ UNCHANGED <<reader, disk, journal, dirty, stopping, log, base,
                       pendingDurable, reservation, crashes>>
        /\ exits' \in SUBSET (Shells \X Nat)
    BY <1>0 DEF ApplyExit, TypeOK
  <1>3. CASE ReserveWithPending(1)
    <2> DEFINE exited == <<Evt("RunExited", s, mem[s].gen)>>
               batch == pendingRuntime \o exited
    <2>1. exited \in Seq(Event) /\ Len(exited) = 1
      <3>1. mem[s].gen \in Nat BY <1>0 DEF TypeOK, Record, Entities
      <3>2. Evt("RunExited", s, mem[s].gen) \in Event
        BY <3>1 DEF Evt, Event, Entities, DurableKinds
      <3> QED BY <3>2
    <2> HIDE DEF exited
    <2>2. batch \in Seq(Event) /\ Len(batch) = Len(pendingRuntime) + 1
      <3>1. pendingRuntime \in Seq(Event) BY <1>0 DEF TypeOK
      <3>2. Len(pendingRuntime \o exited) = Len(pendingRuntime) + Len(exited)
        BY <2>1, <3>1, ConcatProperties
      <3>3. pendingRuntime \o exited \in Seq(Event)
        BY <2>1, <3>1, ConcatProperties
      <3> QED BY <2>1, <3>2, <3>3
    <2> HIDE DEF batch
    <2>3. /\ mem' = Ended(mem, {s}) /\ life' = [life EXCEPT ![s] = "exited"]
          /\ pendingRuntime' = <<>>
          /\ BeginWrite("commit", Ended(mem, {s}), batch,
                        Len(pendingDurable) + Len(batch), FALSE)
          /\ op' = [op EXCEPT !.phase = "commit"]
      BY <1>3 DEF ApplyExit, batch, exited
    <2>4. /\ io'.kind = "commit" /\ io'.batch = batch
          /\ io'.count = Len(pendingDurable) + Len(batch) /\ io' \in IO
      <3>1. Ended(mem, {s}) \in [Entities -> Record] BY <1>0, RegistryTypes DEF TypeOK
      <3>2. Len(pendingDurable) + Len(batch) \in Nat BY <2>2, Lengths
      <3> QED BY <2>2, <2>3, <3>1, <3>2 DEF BeginWrite, IO, IOKinds
    <2>5. op' \in Op /\ op'.kind = "exit" /\ op'.phase = "commit"
      BY <1>0, <1>1, <2>3 DEF TypeOK, Op, Phases
    <2>6. TypeOK'
      BY <1>0, <1>2, <2>3, <2>4, <2>5, RegistryTypes, EmptySeq DEF TypeOK, Lifecycles
    <2>7. Len(io'.batch) = Len(pendingRuntime) + 1 BY <2>2, <2>4
    <2>8. WriteShape' BY <2>2, <2>4, <2>5, Lengths DEF WriteShape
    <2>9. OpShape' BY <1>1, <1>2, <2>5 DEF OpShape, Lifecycle
    <2>10. QueueReleased' BY <2>3 DEF QueueReleased
    <2>11. Len(pendingRuntime') = 0 BY <2>3, EmptySeq
    <2>12. CapacityReserved'
      BY <1>1, <1>2, <1>3, <2>7, <2>11, Lengths
      DEF CapacityReserved, Demand, ReserveWithPending, Reserved, EnsureCapacity
    <2> QED BY <2>6, <2>8, <2>9, <2>10, <2>12 DEF IInv
  <1>4. CASE ~ReserveWithPending(1)
    <2>1. op' = NoOp /\ UNCHANGED <<mem, life, pendingRuntime, io>> BY <1>4 DEF ApplyExit
    <2>2. TypeOK' BY <1>0, <1>2, <2>1, BlankTypes DEF TypeOK
    <2> QED BY <1>1, <1>2, <2>1, <2>2 DEF IInv, WriteShape, OpShape, NoOp, Lifecycle,
              QueueReleased, Blocked, InFlight, CapacityReserved, Demand
  <1> QED BY <1>3, <1>4

\* Queued batches and the exit are published together.
LEMMA FinishExitStep ==
  ASSUME IInv, FinishExit
  PROVE  IInv'
  <1> USE DEF FinishExit, shells, stream
  <1> DEFINE queue == pendingDurable \o io.batch
  <1>c. queue \in Seq(Event) /\ Len(queue) = Len(io.batch) + Len(pendingDurable)
    BY ConcatProperties, Lengths DEF IInv, TypeOK, IO
  <1> HIDE DEF queue
  <1>a. /\ log \in Seq(Event) /\ queue \in Seq(Event)
        /\ <<>> \in Seq(Event) /\ pendingRuntime \in Seq(Event)
        /\ reservation \in Nat /\ Len(<<>>) = 0
    BY EmptySeq, <1>c DEF IInv, TypeOK, IO
  <1>b. /\ log' \in Seq(Event) /\ pendingRuntime' \in Seq(Event)
        /\ pendingDurable' = <<>> /\ reservation' = reservation /\ base' = base
        /\ Len(log') + Len(pendingRuntime') = Len(log) + Len(queue) + Len(pendingRuntime)
        /\ pendingRuntime' = <<>> \/ pendingDurable' # <<>> \/ reservation' # 0
    <2>1. Settle(queue, <<>>, pendingRuntime, reservation, FALSE)
      BY DEF queue
    <2> HIDE DEF FinishExit
    <2> QED BY <1>a, <2>1, SettleEffect
  <1>1. TypeOK'
    BY <1>b, BlankTypes, <1>c, EmptySeq DEF IInv, TypeOK, IO, Op, Phases
  <1>2. WriteShape'
    BY <1>b, BlankTypes, <1>c DEF IInv, WriteShape, TypeOK, IO, Op, NoOp, NoIO
  <1>3. OpShape'
    BY <1>b, BlankTypes, <1>c DEF IInv, OpShape, WriteShape, TypeOK, IO, Op, NoOp, NoIO, Lifecycle
  <1>4. QueueReleased'
    BY <1>b, BlankTypes, <1>c DEF IInv, QueueReleased, Blocked, InFlight, TypeOK, IO, NoIO
  <1>5. CapacityReserved'
    <2>1. Len(io'.batch) = 0 BY EmptySeq DEF NoIO
    <2>2. Len(pendingDurable') = 0
      BY <1>b, <1>c DEF IInv, TypeOK, IO
    <2>3. Len(log') \in Nat /\ Len(pendingRuntime') \in Nat BY <1>b
    <2>4. Len(log') + Len(pendingRuntime') = Len(log) + Len(queue) + Len(pendingRuntime) BY <1>b
    <2>5. reservation' = reservation BY <1>b
    <2> HIDE DEF FinishExit
    <2>6. Len(log') + Len(io'.batch) + Len(pendingDurable') + Len(pendingRuntime')
            + reservation' <= MaxEventId
      BY <2>1, <2>2, <2>3, <2>4, <2>5, <1>c, Lengths
    <2> QED BY <1>b, <2>1, <2>2, <2>3, <2>6, Lengths DEF CapacityReserved, Demand
  <1> QED BY <1>1, <1>2, <1>3, <1>4, <1>5 DEF IInv

\* The exit batch joins the durable queue: demand is unchanged.
LEMMA ExitFailedStep ==
  ASSUME IInv, ExitFailed
  PROVE  IInv'
  <1> USE DEF ExitFailed, shells, stream
  <1> DEFINE queue == pendingDurable \o io.batch
  <1>c. queue \in Seq(Event) /\ Len(queue) = Len(io.batch) + Len(pendingDurable)
    BY ConcatProperties, Lengths DEF IInv, TypeOK, IO
  <1> HIDE DEF queue
  <1>a. /\ log \in Seq(Event) /\ <<>> \in Seq(Event)
        /\ queue \in Seq(Event) /\ pendingRuntime \in Seq(Event)
        /\ reservation \in Nat /\ Len(<<>>) = 0
    BY EmptySeq, <1>c DEF IInv, TypeOK, IO
  <1>b. /\ log' \in Seq(Event) /\ pendingRuntime' \in Seq(Event)
        /\ pendingDurable' = queue /\ reservation' = reservation /\ base' = base
        /\ Len(log') + Len(pendingRuntime') = Len(log) + Len(pendingRuntime)
        /\ pendingRuntime' = <<>> \/ pendingDurable' # <<>> \/ reservation' # 0
    <2>1. Settle(<<>>, queue, pendingRuntime, reservation, FALSE)
      BY DEF queue
    <2> HIDE DEF ExitFailed
    <2> QED BY <1>a, <2>1, SettleNothing
  <1>1. TypeOK'
    BY <1>b, BlankTypes, <1>c DEF IInv, TypeOK, IO, Op, Phases
  <1>2. WriteShape'
    BY <1>b, BlankTypes, <1>c DEF IInv, WriteShape, TypeOK, IO, Op, NoOp, NoIO
  <1>3. OpShape'
    BY <1>b, BlankTypes, <1>c DEF IInv, OpShape, WriteShape, TypeOK, IO, Op, NoOp, NoIO, Lifecycle
  <1>4. QueueReleased'
    BY <1>b, BlankTypes, <1>c DEF IInv, QueueReleased, Blocked, InFlight, TypeOK, IO, NoIO
  <1>5. CapacityReserved'
    <2>1. Len(io'.batch) = 0 BY EmptySeq DEF NoIO
    <2>2. Len(pendingDurable') = Len(io.batch) + Len(pendingDurable)
      BY <1>b, <1>c DEF IInv, TypeOK, IO
    <2>3. Len(log') \in Nat /\ Len(pendingRuntime') \in Nat BY <1>b
    <2>4. Len(log') + Len(pendingRuntime') = Len(log) + Len(pendingRuntime) BY <1>b
    <2>5. reservation' = reservation BY <1>b
    <2> HIDE DEF ExitFailed
    <2>6. Len(log') + Len(io'.batch) + Len(pendingDurable') + Len(pendingRuntime')
            + reservation' <= MaxEventId
      BY <2>1, <2>2, <2>3, <2>4, <2>5, Lengths, SMTT(60)
    <2> QED BY <1>b, <2>1, <2>2, <2>3, <2>6, Lengths, SMTT(60) DEF CapacityReserved, Demand
  <1> QED BY <1>1, <1>2, <1>3, <1>4, <1>5 DEF IInv

\* The reservation covers the commit and the compensation.
LEMMA AdmitLifecycleStep ==
  ASSUME IInv, AdmitLifecycle
  PROVE  IInv'
  <1>0. TypeOK /\ OpShape BY DEF IInv
  <1>1. /\ op.kind \in Lifecycle /\ op.phase = "admit" /\ reservation = 0
        /\ UNCHANGED <<mem, life, reader, exits, disk, journal, dirty, log, base,
                       pendingDurable, pendingRuntime, io, crashes>>
    BY <1>0 DEF AdmitLifecycle, OpShape, shells
  <1>2. CASE ~stopping /\ Selectable /\ ReserveWithPending(LifecycleCapacity(Selected))
    <2> DEFINE room == LifecycleCapacity(Selected)
    <2>1. /\ stopping' = (op.kind = "shutdown") /\ reservation' = room
          /\ op' = [op EXCEPT !.phase = "stop", !.targets = Selected]
      BY <1>2 DEF AdmitLifecycle
    <2>2. Selected \in SUBSET Shells
      BY <1>0 DEF Selected, OpShape
    <2>3. Selected \in SUBSET Entities /\ Cardinality(Selected) \in Nat
      BY <2>2, FiniteSets DEF Entities
    <2>4. op.kind = "close" => Selected = op.targets BY DEF Selected
    <2>5. /\ room \in Nat /\ Cardinality(Selected) <= room
          /\ op.kind # "shutdown" => 1 <= room
      BY <1>0, <1>1, <2>3, CommittedEventsType DEF LifecycleCapacity, Max2
    <2> HIDE DEF room
    <2>6. /\ op' \in Op /\ op'.kind = op.kind /\ op'.phase = "stop"
          /\ op'.targets = Selected /\ op'.stopped = op.stopped
      BY <1>0, <2>1, <2>3 DEF TypeOK, Op, Phases
    <2>7. op.stopped = {} BY <1>0, <1>1 DEF OpShape
    <2>8. stopping' \in BOOLEAN BY <2>1
    <2>9. TypeOK' BY <1>0, <1>1, <2>1, <2>5, <2>6, <2>8 DEF TypeOK
    <2>10. WriteShape'
      BY <1>0, <1>1, <2>6 DEF IInv, WriteShape
    <2>11. OpShape'
      BY <1>0, <1>1, <2>1, <2>2, <2>4, <2>5, <2>6, <2>7 DEF OpShape, Lifecycle
    <2>12. QueueReleased'
      BY <1>1, <2>1 DEF IInv, QueueReleased, Blocked, InFlight
    <2>13. CapacityReserved'
      <3>1. Len(log) + (io.count + Len(pendingDurable) + Len(pendingRuntime) + 0 + room)
              <= MaxEventId
        BY <1>1, <1>2 DEF ReserveWithPending, Reserved, EnsureCapacity, room
      <3>2. Len(log) + (Len(io.batch) + Len(pendingDurable) + Len(pendingRuntime) + room)
              <= MaxEventId
        BY <2>5, <3>1, Lengths, SMTT(60)
      <3> QED BY <1>1, <2>1, <3>2 DEF CapacityReserved, Demand
    <2> QED BY <2>9, <2>10, <2>11, <2>12, <2>13 DEF IInv
  <1>3. CASE ~(~stopping /\ Selectable /\ ReserveWithPending(LifecycleCapacity(Selected)))
    <2>1. op' = NoOp /\ UNCHANGED <<stopping, reservation>> BY <1>3 DEF AdmitLifecycle
    <2>2. TypeOK' BY <1>0, <1>1, <2>1, BlankTypes DEF TypeOK
    <2> QED BY <1>1, <2>1, <2>2 DEF IInv, WriteShape, OpShape, NoOp, Lifecycle,
              QueueReleased, Blocked, InFlight, CapacityReserved, Demand
  <1> QED BY <1>2, <1>3

\* A stopped Shell is added to the ones to compensate.
LEMMA StopRuntimeStep ==
  ASSUME IInv, NEW s \in Shells, StopRuntime(s)
  PROVE  IInv'
  <1> USE DEF StopRuntime, shells, stream
  <1>1. TypeOK'
    BY DEF IInv, TypeOK, IO, Op, Readers, Phases
  <1>2. WriteShape'
    BY DEF IInv, WriteShape, TypeOK, IO, Op
  <1>3. OpShape'
    BY DEF IInv, OpShape, WriteShape, TypeOK, IO, Op
  <1>4. QueueReleased'
    BY DEF IInv, QueueReleased, Blocked, InFlight, TypeOK, IO
  <1>5. CapacityReserved'
    BY Lengths DEF IInv, CapacityReserved, Demand, WriteShape, TypeOK, IO
  <1> QED BY <1>1, <1>2, <1>3, <1>4, <1>5 DEF IInv

\* A Shell that does not stop sends the operation to its abort.
LEMMA StopFailsStep ==
  ASSUME IInv, NEW s \in Shells, StopFails(s)
  PROVE  IInv'
  <1> USE DEF StopFails, shells, stream
  <1>1. TypeOK'
    <2>1. op' \in Op
      <3>1. PICK T \in {op.stopped, op.stopped \cup {s}} :
              op' = [op EXCEPT !.phase = "abort", !.stopped = T]
        OBVIOUS
      <3>2. T \in SUBSET Shells BY DEF IInv, TypeOK, Op
      <3> QED BY <3>1, <3>2 DEF IInv, TypeOK, Op, Phases
    <2>2. reader' \in [Shells -> Readers] BY DEF IInv, TypeOK, Readers
    <2> QED BY <2>1, <2>2 DEF IInv, TypeOK
  <1>2. WriteShape'
    BY DEF IInv, WriteShape, TypeOK, IO, Op
  <1>3. OpShape'
    BY DEF IInv, OpShape, WriteShape, TypeOK, IO, Op
  <1>4. QueueReleased'
    BY DEF IInv, QueueReleased, Blocked, InFlight, TypeOK, IO
  <1>5. CapacityReserved'
    BY Lengths DEF IInv, CapacityReserved, Demand, WriteShape, TypeOK, IO
  <1> QED BY <1>1, <1>2, <1>3, <1>4, <1>5 DEF IInv

\* A cold start holds no lock, queue or reservation.
LEMMA CrashAndRestoreStep ==
  ASSUME IInv, CrashAndRestore
  PROVE  IInv'
  <1> USE DEF CrashAndRestore
  <1>a. life' \in [Shells -> Lifecycles] /\ reader' \in [Shells -> Readers]
    BY DEF Lifecycles, Readers
  <1>b. Recovered \in [Entities -> Record] BY RecoveredType DEF IInv
  <1>1. TypeOK'
    <2>1. mem' \in [Entities -> Record] /\ disk' \in [Entities -> Record]
            /\ base' \in [Entities -> Record]
      BY <1>b
    <2>2. log' \in Seq(Event) /\ pendingDurable' \in Seq(Event)
            /\ pendingRuntime' \in Seq(Event)
      BY EmptySeq
    <2>3. /\ exits' \in SUBSET (Shells \X Nat) /\ journal' \in SUBSET Event
          /\ reservation' \in Nat
      OBVIOUS
    <2>5. crashes' \in Nat BY DEF IInv, TypeOK
    <2>6. dirty' \in BOOLEAN /\ stopping' \in BOOLEAN OBVIOUS
    <2>4. op' \in Op /\ io' \in IO BY BlankTypes
    <2> QED BY <1>a, <2>1, <2>2, <2>3, <2>4, <2>5, <2>6 DEF TypeOK
  <1>2. WriteShape'
    BY BlankTypes, RecoveredType, EmptySeq DEF IInv, WriteShape, TypeOK, IO, Op, NoIO, NoOp
  <1>3. OpShape'
    BY BlankTypes, RecoveredType, EmptySeq DEF IInv, OpShape, WriteShape, TypeOK, IO, Op, NoIO, NoOp, Lifecycle
  <1>4. QueueReleased'
    BY BlankTypes, RecoveredType, EmptySeq DEF IInv, QueueReleased, Blocked, InFlight, TypeOK, IO, NoIO
  <1>5. CapacityReserved'
    BY BlankTypes, RecoveredType, EmptySeq, Lengths, ConstantsAssumption DEF IInv, CapacityReserved, Demand, WriteShape, TypeOK, IO, NoIO
  <1> QED BY <1>1, <1>2, <1>3, <1>4, <1>5 DEF IInv

\* Exits within the reservation need no more room than it held.
LEMMA Compensated ==
  ASSUME NEW a \in Nat, NEW b \in Nat, NEW c \in Nat, NEW d \in Nat, NEW r \in Nat,
         NEW k \in Nat, NEW m \in Nat, k <= r, a + b + c + d + r <= m
  PROVE  a + (b + (c + d + k) + 0 + 0) <= m
  OBVIOUS

\* The compensation fits in the reservation it releases.
LEMMA AbortLifecycleStep ==
  ASSUME IInv, AbortLifecycle
  PROVE  IInv'
  <1>0. TypeOK BY DEF IInv
  <1> DEFINE killed == {s \in op.stopped : life[s] = "running"}
             exited == RunEvents("RunExited", killed, mem)
             batch == pendingRuntime \o exited
             queue == pendingDurable \o batch
  <1>1. /\ op.phase = "abort" /\ op.kind \in Lifecycle
        /\ op.stopped \in SUBSET op.targets /\ op.targets \in SUBSET Shells
        /\ Cardinality(op.targets) <= reservation
    BY DEF AbortLifecycle, IInv, OpShape
  <1>2. /\ killed \in SUBSET Shells /\ Cardinality(killed) \in Nat
        /\ Cardinality(killed) <= reservation
    <2>1. killed \in SUBSET op.targets BY <1>1
    <2>2. IsFiniteSet(op.targets) /\ Cardinality(op.targets) \in Nat
      BY <1>1, FiniteSets DEF Entities
    <2>3. Cardinality(killed) \in Nat /\ Cardinality(killed) <= Cardinality(op.targets)
      BY <2>1, <2>2, FS_Subset, FS_CardinalityType
    <2> QED BY <1>1, <2>1, <2>2, <2>3, Lengths
  <1> HIDE DEF killed
  <1>3. exited \in Seq(Event) /\ Len(exited) = Cardinality(killed)
    BY <1>0, <1>2, RunEventsType DEF TypeOK, DurableKinds
  <1> HIDE DEF exited
  <1>4. batch \in Seq(Event) /\ Len(batch) = Len(pendingRuntime) + Len(exited)
    <2>1. pendingRuntime \in Seq(Event) BY <1>0 DEF TypeOK
    <2> QED BY <1>3, <2>1, ConcatProperties
  <1> HIDE DEF batch
  <1>5. queue \in Seq(Event) /\ Len(queue) = Len(pendingDurable) + Len(batch)
    <2>1. pendingDurable \in Seq(Event) BY <1>0 DEF TypeOK
    <2> QED BY <1>4, <2>1, ConcatProperties
  <1> HIDE DEF queue
  <1>6. /\ mem' = Ended(mem, killed) /\ life' = SetAll(life, killed, "pending")
        /\ Settle(<<>>, queue, <<>>, 0, InFlight)
        /\ dirty' = (dirty \/ batch # <<>>)
        /\ io' = IF batch # <<>> THEN Touched ELSE io
        /\ stopping' = (stopping /\ op.kind # "shutdown")
        /\ op' = NoOp /\ UNCHANGED <<reader, exits, disk, journal, crashes>>
    BY DEF AbortLifecycle, Compensation, CancelStopping, killed, exited, batch, queue
  <1>7. /\ log' \in Seq(Event) /\ pendingRuntime' = <<>>
        /\ pendingDurable' = queue /\ reservation' = 0 /\ base' = base
        /\ Len(log') = Len(log)
    <2>1. log \in Seq(Event) BY <1>0 DEF TypeOK
    <2>2. log \o <<>> = log /\ log \o <<>> \o <<>> = log BY <2>1, ConcatEmptySeq
    <2> QED BY <1>6, <2>1, <2>2 DEF Settle
  <1>8. /\ io' \in IO /\ io'.kind = io.kind /\ io'.batch = io.batch
        /\ io'.count = io.count /\ io'.background = io.background
    BY <1>0, <1>6 DEF Touched, TypeOK, IO
  <1>9. TypeOK'
    <2>1. mem' \in [Entities -> Record] BY <1>0, <1>6, RegistryTypes DEF TypeOK
    <2>2. life' \in [Shells -> Lifecycles]
      BY <1>0, <1>6, SetAllType DEF TypeOK, Lifecycles
    <2>3. dirty' \in BOOLEAN /\ stopping' \in BOOLEAN BY <1>6
    <2>4. pendingDurable' \in Seq(Event) /\ pendingRuntime' \in Seq(Event)
      BY <1>5, <1>7, EmptySeq
    <2> QED BY <1>0, <1>6, <1>7, <1>8, <2>1, <2>2, <2>3, <2>4, BlankTypes DEF TypeOK
  <1>10. WriteShape'
    BY <1>1, <1>6, <1>8 DEF IInv, WriteShape, NoOp
  <1>11. OpShape' BY <1>6, <1>7 DEF OpShape, NoOp, Lifecycle
  <1>12. QueueReleased' BY <1>7 DEF QueueReleased
  <1>13. CapacityReserved'
    <2>1. Len(pendingDurable') = Len(pendingDurable) + Len(pendingRuntime) + Cardinality(killed)
      BY <1>2, <1>3, <1>4, <1>5, <1>7, Lengths
    <2>2. Len(pendingRuntime') = 0 BY <1>7, EmptySeq
    <2>3. Len(log') = Len(log) /\ reservation' = 0 /\ Len(io'.batch) = Len(io.batch)
      BY <1>7, <1>8
    <2>4. Len(log) + (Len(io.batch) + (Len(pendingDurable) + Len(pendingRuntime)
            + Cardinality(killed)) + 0 + 0) <= MaxEventId
      BY <1>2, Lengths, Compensated
    <2> QED BY <2>1, <2>2, <2>3, <2>4 DEF CapacityReserved, Demand
  <1> QED BY <1>9, <1>10, <1>11, <1>12, <1>13 DEF IInv

\* The reservation is split between the commit and the rest.
LEMMA ApplyLifecycleStep ==
  ASSUME IInv, ApplyLifecycle
  PROVE  IInv'
  <1>0. TypeOK /\ OpShape BY DEF IInv
  <1> DEFINE killed == {s \in op.targets : life[s] = "running"}
             events == CommittedEvents
             ended == Ended(mem, killed)
  <1>1. /\ op.kind \in Lifecycle /\ op.phase = "apply" /\ io.kind = "none"
        /\ op.targets \in SUBSET Shells /\ io.batch = <<>>
        /\ Cardinality(op.targets) <= reservation
        /\ op.kind # "shutdown" => 1 <= reservation
    BY DEF ApplyLifecycle, IInv, OpShape, WriteShape
  <1>2. /\ killed \in SUBSET Shells /\ Cardinality(killed) \in Nat
        /\ Cardinality(killed) <= reservation
    <2>1. killed \in SUBSET op.targets OBVIOUS
    <2>2. IsFiniteSet(op.targets) /\ Cardinality(op.targets) \in Nat
      BY <1>1, FiniteSets DEF Entities
    <2>3. Cardinality(killed) \in Nat /\ Cardinality(killed) <= Cardinality(op.targets)
      BY <2>1, <2>2, FS_Subset, FS_CardinalityType
    <2> QED BY <1>1, <2>1, <2>2, <2>3, Lengths
  <1>3. /\ events \in Seq(Event) /\ Len(events) \in Nat /\ Len(events) <= reservation
    <2>1. events \in Seq(Event) /\ Len(events) = IF op.kind = "shutdown" THEN 0 ELSE 1
      BY <1>0, <1>1, CommittedEventsType
    <2>2. reservation \in Nat BY <1>0 DEF TypeOK
    <2> HIDE DEF events
    <2> QED BY <1>1, <2>1, <2>2
  <1>4. ended \in [Entities -> Record] /\ Removed(ended) \in [Entities -> Record]
    BY <1>0, RegistryTypes DEF TypeOK
  <1>5. SetAll(life, op.targets, "closed") \in [Shells -> Lifecycles]
          /\ SetAll(life, killed, "pending") \in [Shells -> Lifecycles]
    BY <1>0, SetAllType DEF TypeOK, Lifecycles
  <1> HIDE DEF killed, events, ended
  <1>6. /\ mem' = Removed(ended) /\ life' = SetAll(life, op.targets, "closed")
        /\ BeginWrite("commit", Removed(ended), events, Len(events), FALSE)
        /\ reservation' = reservation - Len(events)
        /\ op' = [op EXCEPT !.phase = "commit", !.stopped = killed, !.undo = ended,
                            !.undoLife = SetAll(life, killed, "pending")]
        /\ UNCHANGED <<reader, exits, disk, journal, dirty, stopping, log, base,
                       pendingDurable, pendingRuntime, crashes>>
    BY DEF ApplyLifecycle, killed, events, ended
  <1>7. /\ io' \in IO /\ io'.kind = "commit" /\ io'.batch = events
        /\ io'.count = Len(events)
    BY <1>3, <1>4, <1>6 DEF BeginWrite, IO, IOKinds
  <1>8. /\ op' \in Op /\ op'.kind = op.kind /\ op'.phase = "commit"
        /\ op'.targets = op.targets /\ op'.stopped = killed
    BY <1>0, <1>2, <1>4, <1>5, <1>6 DEF TypeOK, Op, Phases
  <1>9. reservation' \in Nat /\ reservation' + Len(events) = reservation
    BY <1>3, <1>6, Lengths
  <1>10. TypeOK' BY <1>0, <1>4, <1>5, <1>6, <1>7, <1>8, <1>9 DEF TypeOK
  <1>11. WriteShape' BY <1>3, <1>7, <1>8 DEF WriteShape
  <1>12. OpShape'
    <2>1. Cardinality(op'.stopped) <= reservation' + Len(io'.batch)
      BY <1>2, <1>7, <1>8, <1>9
    <2> QED BY <1>0, <1>1, <1>8, <2>1 DEF OpShape, Lifecycle
  <1>13. QueueReleased' BY <1>7 DEF QueueReleased, Blocked, InFlight
  <1>14. CapacityReserved'
    <2>1. Len(io'.batch) = Len(events) BY <1>7
    <2>2. UNCHANGED <<log, pendingDurable, pendingRuntime>> BY <1>6
    <2>3. Len(io.batch) = 0 BY <1>1, EmptySeq
    <2> QED BY <1>3, <1>9, <2>1, <2>2, <2>3, Lengths DEF CapacityReserved, Demand
  <1> QED BY <1>10, <1>11, <1>12, <1>13, <1>14 DEF IInv

\* The close is published and what is left of the reservation released.
LEMMA FinishLifecycleStep ==
  ASSUME IInv, FinishLifecycle
  PROVE  IInv'
  <1> USE DEF FinishLifecycle, shells, stream
  <1>a. /\ log \in Seq(Event) /\ io.batch \in Seq(Event)
        /\ pendingDurable \in Seq(Event) /\ pendingRuntime \in Seq(Event)
        /\ 0 \in Nat /\ Len(<<>>) = 0
    BY EmptySeq DEF IInv, TypeOK, IO
  <1>b. /\ log' \in Seq(Event) /\ pendingRuntime' \in Seq(Event)
        /\ pendingDurable' = pendingDurable /\ reservation' = 0 /\ base' = base
        /\ Len(log') + Len(pendingRuntime') = Len(log) + Len(io.batch) + Len(pendingRuntime)
        /\ pendingRuntime' = <<>> \/ pendingDurable' # <<>> \/ reservation' # 0
    <2>1. Settle(io.batch, pendingDurable, pendingRuntime, 0, FALSE)
      OBVIOUS
    <2> HIDE DEF FinishLifecycle
    <2> QED BY <1>a, <2>1, SettleEffect
  <1>1. TypeOK'
    BY <1>b, BlankTypes DEF IInv, TypeOK, IO, Op, Phases
  <1>2. WriteShape'
    BY <1>b, BlankTypes DEF IInv, WriteShape, TypeOK, IO, Op, NoOp, NoIO
  <1>3. OpShape'
    BY <1>b, BlankTypes DEF IInv, OpShape, WriteShape, TypeOK, IO, Op, NoOp, NoIO, Lifecycle
  <1>4. QueueReleased'
    BY <1>b, BlankTypes DEF IInv, QueueReleased, Blocked, InFlight, TypeOK, IO, NoIO
  <1>5. CapacityReserved'
    <2>1. Len(io'.batch) = 0 BY EmptySeq DEF NoIO
    <2>2. Len(pendingDurable') = Len(pendingDurable)
      BY <1>b DEF IInv, TypeOK, IO
    <2>3. Len(log') \in Nat /\ Len(pendingRuntime') \in Nat BY <1>b
    <2>4. Len(log') + Len(pendingRuntime') = Len(log) + Len(io.batch) + Len(pendingRuntime) BY <1>b
    <2>5. reservation' = 0 BY <1>b
    <2> HIDE DEF FinishLifecycle
    <2>6. Len(log') + Len(io'.batch) + Len(pendingDurable') + Len(pendingRuntime')
            + reservation' <= MaxEventId
      BY <2>1, <2>2, <2>3, <2>4, <2>5, Lengths
    <2> QED BY <1>b, <2>1, <2>2, <2>3, <2>6, Lengths DEF CapacityReserved, Demand
  <1> QED BY <1>1, <1>2, <1>3, <1>4, <1>5 DEF IInv

\* The compensation of a failed commit fits in what was reserved.
LEMMA LifecycleFailedStep ==
  ASSUME IInv, LifecycleFailed
  PROVE  IInv'
  <1>0. TypeOK BY DEF IInv
  <1> DEFINE exited == RunEvents("RunExited", op.stopped, op.undo)
             batch == pendingRuntime \o exited
             queue == pendingDurable \o batch
  <1>1. /\ op.kind \in Lifecycle /\ op.phase = "commit"
        /\ op.stopped \in SUBSET Shells /\ Cardinality(op.stopped) \in Nat
        /\ Cardinality(op.stopped) <= reservation + Len(io.batch)
    <2>1. op.stopped \in SUBSET Shells BY <1>0 DEF TypeOK, Op
    <2> QED BY <2>1, FiniteSets DEF LifecycleFailed, IInv, OpShape, Entities
  <1>2. exited \in Seq(Event) /\ Len(exited) = Cardinality(op.stopped)
    <2>1. op.undo \in [Entities -> Record] BY <1>0 DEF TypeOK, Op
    <2> QED BY <1>1, <2>1, RunEventsType DEF DurableKinds
  <1> HIDE DEF exited
  <1>3. batch \in Seq(Event) /\ Len(batch) = Len(pendingRuntime) + Len(exited)
    <2>1. pendingRuntime \in Seq(Event) BY <1>0 DEF TypeOK
    <2> QED BY <1>2, <2>1, ConcatProperties
  <1> HIDE DEF batch
  <1>4. queue \in Seq(Event) /\ Len(queue) = Len(pendingDurable) + Len(batch)
    <2>1. pendingDurable \in Seq(Event) BY <1>0 DEF TypeOK
    <2> QED BY <1>3, <2>1, ConcatProperties
  <1> HIDE DEF queue
  <1>5. /\ mem' = op.undo /\ life' = op.undoLife
        /\ Settle(<<>>, queue, <<>>, 0, FALSE)
        /\ stopping' = (stopping /\ op.kind # "shutdown")
        /\ op' = NoOp /\ io' = NoIO
        /\ UNCHANGED <<reader, exits, disk, journal, dirty, crashes>>
    BY DEF LifecycleFailed, Compensation, CancelStopping, exited, batch, queue
  <1>6. /\ log' = log /\ pendingRuntime' = <<>>
        /\ pendingDurable' = queue /\ reservation' = 0 /\ base' = base
    <2>1. log \in Seq(Event) BY <1>0 DEF TypeOK
    <2>2. log \o <<>> = log /\ log \o <<>> \o <<>> = log BY <2>1, ConcatEmptySeq
    <2> QED BY <1>5, <2>1, <2>2 DEF Settle
  <1>7. TypeOK'
    <2>1. mem' \in [Entities -> Record] /\ life' \in [Shells -> Lifecycles]
      BY <1>0, <1>5 DEF TypeOK, Op
    <2>2. stopping' \in BOOLEAN BY <1>5
    <2>3. /\ pendingDurable' \in Seq(Event) /\ pendingRuntime' \in Seq(Event)
          /\ log' \in Seq(Event)
      BY <1>0, <1>4, <1>6, EmptySeq DEF TypeOK
    <2> QED BY <1>0, <1>5, <1>6, <2>1, <2>2, <2>3, BlankTypes DEF TypeOK
  <1>8. WriteShape' BY <1>5, EmptySeq DEF WriteShape, NoOp, NoIO
  <1>9. OpShape' BY <1>5, <1>6 DEF OpShape, NoOp, Lifecycle
  <1>10. QueueReleased' BY <1>6 DEF QueueReleased
  <1>11. CapacityReserved'
    <2>1. Len(pendingDurable') = Len(pendingDurable) + Len(pendingRuntime)
            + Cardinality(op.stopped)
      BY <1>1, <1>2, <1>3, <1>4, <1>6, Lengths, SMTT(60)
    <2>2. Len(pendingRuntime') = 0 /\ Len(io'.batch) = 0 BY <1>5, <1>6, EmptySeq DEF NoIO
    <2>3. Len(log') = Len(log) /\ reservation' = 0 BY <1>6
    <2> QED BY <1>1, <2>1, <2>2, <2>3, Lengths, SMTT(60) DEF CapacityReserved, Demand
  <1> QED BY <1>7, <1>8, <1>9, <1>10, <1>11 DEF IInv

-----------------------------------------------------------------------------
\* The invariant holds when the daemon begins.
LEMMA InitInv == Init => IInv
  <1> SUFFICES ASSUME Init PROVE IInv OBVIOUS
  <1> USE DEF Init
  <1>1. mem \in [Entities -> Record]
    <2>1. Workspace \in Entities BY DEF Entities
    <2>2. [Blank[Workspace] EXCEPT !.status = "live"] \in Record
      BY <2>1, BlankTypes DEF Record
    <2> QED BY <2>1, <2>2, BlankTypes
  <1>2. TypeOK
    <2>1. /\ life \in [Shells -> Lifecycles] /\ reader \in [Shells -> Readers]
          /\ exits \in SUBSET (Shells \X Nat) /\ journal \in SUBSET Event
          /\ reservation \in Nat /\ crashes \in Nat
      BY DEF Lifecycles, Readers
    <2>2. dirty \in BOOLEAN /\ stopping \in BOOLEAN OBVIOUS
    <2>3. /\ log \in Seq(Event) /\ pendingDurable \in Seq(Event)
          /\ pendingRuntime \in Seq(Event)
      BY EmptySeq
    <2>4. op \in Op /\ io \in IO BY BlankTypes
    <2> QED BY <1>1, <2>1, <2>2, <2>3, <2>4 DEF TypeOK
  <1>3. WriteShape BY EmptySeq DEF WriteShape, NoIO, NoOp
  <1>4. OpShape BY DEF OpShape, NoOp, Lifecycle
  <1>5. QueueReleased BY DEF QueueReleased
  <1>6. CapacityReserved
    <2>1. Len(log) = 0 /\ Len(pendingDurable) = 0 /\ Len(pendingRuntime) = 0
            /\ Len(io.batch) = 0
      BY EmptySeq DEF NoIO
    <2> QED BY <2>1, ConstantsAssumption DEF CapacityReserved, Demand
  <1> QED BY <1>2, <1>3, <1>4, <1>5, <1>6 DEF IInv

\* Every step of a write preserves the invariant.
LEMMA WritesStep == IInv /\ Writes => IInv'
  <1>1. IInv /\ BackgroundFlush => IInv' BY BeginFlushStep DEF BackgroundFlush
  <1> QED BY <1>1, SaveSucceedsStep, SaveFailsStep, FallbackResetFailsStep,
             AppendSucceedsStep, AppendFailsStep, OpFlushStep, FinishFlushStep,
             FlushFailedStep, WriteCheckpointStep, SkipCheckpointStep,
             FinishCheckpointStep, CheckpointFailedStep
          DEF Writes

\* Every request that takes mutation_lock preserves the invariant.
LEMMA RequestsStep == IInv /\ Requests => IInv'
  <1> SUFFICES ASSUME IInv, Requests PROVE IInv' OBVIOUS
  <1> USE DEF OpKinds, Lifecycle
  <1>1. ASSUME NEW e \in Entities, BeginMutation(e) PROVE IInv'
    BY <1>1, QuietBeginStep DEF BeginMutation
  <1>2. ASSUME NEW s \in Shells, BeginLocalCreate(s) PROVE IInv'
    BY <1>2, QuietBeginStep DEF BeginLocalCreate, Entities
  <1>3. ASSUME NEW s \in Shells, BeginClose(s) PROVE IInv'
    <2>1. {s} \in SUBSET Shells /\ {s} # {} /\ {s} \in SUBSET Entities BY DEF Entities
    <2> QED BY <1>3, <2>1, QuietBeginStep DEF BeginClose
  <1>4. ASSUME NEW S \in SUBSET Shells, BeginRecover(S) PROVE IInv'
    BY <1>4, QuietBeginStep DEF BeginRecover, Entities
  <1>5. BeginCloseWorkspace => IInv'
    BY QuietBeginStep DEF BeginCloseWorkspace, Entities
  <1>6. BeginShutdown => IInv'
    BY QuietBeginStep DEF BeginShutdown
  <1>7. BeginBaseline => IInv'
    BY QuietBeginStep DEF BeginBaseline
  <1>8. BeginCheckpoint => IInv'
    BY QuietBeginStep DEF BeginCheckpoint
  <1> QED BY <1>1, <1>2, <1>3, <1>4, <1>5, <1>6, <1>7, <1>8, BeginStartStep,
             RestartShellStep DEF Requests

\* Every step of the operation that owns mutation_lock preserves it.
LEMMA OperationsStep == IInv /\ Operations => IInv'
  BY ObserveBaselineStep, AdmitMutationStep, ApplyMutationStep, FinishMutationStep,
     MutationFailedStep, ApplyStartStep, ApplyExitStep, StartRefusedStep,
     ApplyRecoverStep, FinishStartStep, StartFailedStep, FinishExitStep,
     ExitFailedStep, AdmitLifecycleStep, AllStoppedStep, AbortLifecycleStep,
     StopRuntimeStep, StopFailsStep, ApplyLifecycleStep, FinishLifecycleStep,
     LifecycleFailedStep
  DEF Operations

\* Every step of a reader thread preserves the invariant.
LEMMA RunsStep == IInv /\ Runs => IInv'
  <1> SUFFICES ASSUME IInv, Runs PROVE IInv' OBVIOUS
  <1>1. ASSUME NEW x \in exits, BeginExit(x[1], x[2]) PROVE IInv'
    <2>1. x[1] \in Shells /\ x[2] \in Nat BY DEF IInv, TypeOK
    <2> QED BY <1>1, <2>1, BeginExitStep
  <1> QED BY <1>1, PublishOutputStep, OutputRefusedStep, CheckpointHistoryStep,
             ProcessExitsStep DEF Runs

\* The invariant depends on the variables alone.
LEMMA StutterStep == IInv /\ UNCHANGED vars => IInv'
  <1> SUFFICES ASSUME IInv, UNCHANGED vars PROVE IInv' OBVIOUS
  <1> USE DEF vars, IInv
  <1>1. TypeOK' BY DEF TypeOK
  <1>2. WriteShape' /\ OpShape' BY DEF WriteShape, OpShape
  <1>3. QueueReleased' BY DEF QueueReleased, Blocked, InFlight
  <1>4. CapacityReserved' BY DEF CapacityReserved, Demand
  <1> QED BY <1>1, <1>2, <1>3, <1>4

\* The invariant is inductive.
LEMMA NextStep == IInv /\ [Next]_vars => IInv'
  BY WritesStep, RequestsStep, OperationsStep, RunsStep, CrashAndRestoreStep,
     StutterStep DEF Next

\* The inductive invariant holds in every state of every behaviour.
THEOREM Invariance == Spec => []IInv
  BY InitInv, NextStep, PTL DEF Spec

\* Every variable of the coordinator keeps its type, for every set of Shells and
\* all bounds; in particular the lifecycle reservation that ApplyLifecycle hands
\* over to the write never becomes negative.
THEOREM TypeCorrect == Spec => []TypeOK
  <1>1. IInv => TypeOK BY DEF IInv
  <1> QED BY <1>1, Invariance, PTL

\* No accepted transition ever lacks event IDs: what is published, being written,
\* queued or reserved never exceeds the ID space, so the debug_assert of
\* append_batch_locked holds, whatever fails, is retried or is compensated.
THEOREM CapacityIsReserved == Spec => []CapacityReserved
  <1>1. IInv => CapacityReserved BY DEF IInv
  <1> QED BY <1>1, Invariance, PTL

\* Runtime events are never left in the queue once nothing blocks publication.
THEOREM QueueIsReleased == Spec => []QueueReleased
  <1>1. IInv => QueueReleased BY DEF IInv
  <1> QED BY <1>1, Invariance, PTL
=============================================================================
