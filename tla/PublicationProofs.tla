-------------------------- MODULE PublicationProofs --------------------------
(***************************************************************************)
(* What the coordinator announces is what stable storage knows: proofs     *)
(* that published events are persisted, announced once and in the order of *)
(* their runs, and that they describe the registry, for every finite set   *)
(* of Shells and every value of the bounds.                                *)
(***************************************************************************)
EXTENDS TransitionCoordinatorProofs

-----------------------------------------------------------------------------
(* The inductive invariant of PersistBeforePublish.  An event is covered   *)
(* by a registry that contains its effect; every registry an operation may *)
(* still publish, save or roll back to covers what the others have.        *)

Covered(d, S) == \A x \in S : Covers(d, x)
Behind(d, m) == \A x \in Event : Covers(d, x) => Covers(m, x)

\* Operations that roll the registry back when their write fails.
Undoing == {"mutate", "local", "recover"} \cup Lifecycle

\* Which operations write to the journal and commit.
Writers ==
  /\ io.kind = "fallback" => op.kind = "start"
  /\ io.kind = "journal" => op.kind \in {"local", "start"}
  /\ op.phase = "commit" => op.kind \in Undoing \cup {"start", "exit"}

RuntimeOnly == \A x \in Range(pendingRuntime) : x.kind = "OutputChanged"

\* The events that must not be lost: published, queued, or in the journal.
Held == Range(log) \cup Range(pendingDurable) \cup journal

\* The registry in memory is ahead of everything.
MemKnows == Covered(mem, Held \cup Range(io.batch)) /\ Behind(disk, mem)

\* The generation being written is ahead of the file it replaces and covers what
\* is published, what it publishes, and the journal it lets go of.
GenKnows ==
  io.kind # "none" =>
    /\ Covered(io.gen, Range(log) \cup Range(io.batch) \cup journal)
    /\ Behind(disk, io.gen) /\ Behind(io.gen, mem)
    /\ op.phase = "commit" => Covered(io.gen, Range(pendingDurable))

\* A rollback undoes nothing but the operation itself, and the runs it killed
\* have ended in the registry it restores.
UndoKnows ==
  op.phase = "commit" /\ op.kind \in Undoing /\ io.phase # "saved" =>
    /\ Covered(op.undo, Held) /\ Behind(disk, op.undo)
    /\ op.kind \in Lifecycle => \A s \in op.stopped : op.undo[s].run # "active"

\* A write that succeeded is in its place.
Saved ==
  io.phase = "saved" /\ io.kind # "none" =>
    IF io.kind = "journal" THEN Range(io.batch) \subseteq journal ELSE disk = io.gen

Persisted == \A x \in Range(log) : Durable(x)

Knowledge == RuntimeOnly /\ MemKnows /\ GenKnows /\ UndoKnows
KInv == Writers /\ Knowledge /\ Saved /\ Persisted

-----------------------------------------------------------------------------
(* Registries that follow one another.                                     *)

\* No entity of m is younger than in d.
Later(d, m) == \A e \in Entities :
  /\ d[e].status # "unborn" => m[e].status # "unborn"
  /\ d[e].status = "gone" => m[e].status = "gone"
  /\ d[e].rev <= m[e].rev /\ d[e].gen <= m[e].gen
  /\ d[e].gen = m[e].gen /\ d[e].run # "active" => m[e].run # "active"

\* A later registry covers what an earlier one covers.
LEMMA LaterBehind ==
  ASSUME NEW d \in [Entities -> Record], NEW m \in [Entities -> Record], Later(d, m)
  PROVE  Behind(d, m)
  <1> SUFFICES ASSUME NEW x \in Event, Covers(d, x)
               PROVE  Covers(m, x)
    BY DEF Behind
  <1>1. x.of \in Entities /\ x.n \in Nat BY DEF Event
  <1>2. d[x.of] \in Record /\ m[x.of] \in Record BY <1>1
  <1>3. /\ d[x.of].rev \in Nat /\ m[x.of].rev \in Nat
        /\ d[x.of].gen \in Nat /\ m[x.of].gen \in Nat
    BY <1>2 DEF Record
  <1> QED BY <1>1, <1>3 DEF Later, Covers

\* What a registry covers, one that is ahead of it covers.
LEMMA BehindCovered ==
  ASSUME NEW d, NEW m, Behind(d, m), NEW S \in SUBSET Event, Covered(d, S)
  PROVE  Covered(m, S)
  BY DEF Behind, Covered

\* Being behind is transitive.
LEMMA BehindChain ==
  ASSUME NEW c, NEW d, NEW m, Behind(c, d), Behind(d, m)
  PROVE  Behind(c, m)
  BY DEF Behind

\* Runtime events are covered by every registry.
LEMMA RuntimeCovered ==
  ASSUME NEW d, NEW x, x.kind = "OutputChanged"
  PROVE  Covers(d, x) /\ Durable(x) /\ ~IsDurable(x)
  BY DEF Covers, Durable, IsDurable, DurableKinds

\* A creation or a rename moves an entity forward, to where its event says.
LEMMA MutatedLater ==
  ASSUME TypeOK, NEW e \in Entities, Creates(e) \/ Renames(e)
  PROVE  Later(mem, Mutated(e)) /\ Covered(Mutated(e), Range(MutationEvents(e)))
  <1>0. \A f \in Entities : mem[f] \in Record /\ mem[f].rev \in Nat /\ mem[f].gen \in Nat
    BY DEF TypeOK, Record
  <1>1. Mutated(e) \in [Entities -> Record] BY MutatedType
  <1>2. CASE Creates(e)
    <2>1. Mutated(e) = [mem EXCEPT ![e].status = "live"] BY <1>2 DEF Mutated
    <2>2. Later(mem, Mutated(e))
      BY <1>0, <1>2, <2>1 DEF Later, TypeOK, Creates
    <2>3. Range(MutationEvents(e)) = {Evt("Created", e, 0)}
      BY <1>2 DEF MutationEvents, Range
    <2>4. Mutated(e)[e].status = "live" BY <1>0, <2>1 DEF TypeOK, Record
    <2>5. Covers(Mutated(e), Evt("Created", e, 0)) BY <2>4 DEF Covers, Evt
    <2> QED BY <2>2, <2>3, <2>5 DEF Covered
  <1>3. CASE ~Creates(e)
    <2>1. Mutated(e) = [mem EXCEPT ![e].rev = @ + 1] BY <1>3 DEF Mutated
    <2>2. Mutated(e)[e].rev = mem[e].rev + 1 BY <1>0, <2>1 DEF TypeOK, Record
    <2>3. Later(mem, Mutated(e))
      BY <1>0, <2>1, SMTT(60) DEF Later, TypeOK, Record
    <2>4. Range(MutationEvents(e)) = {Evt("Renamed", e, mem[e].rev + 1)}
      BY <1>3 DEF MutationEvents, Range
    <2>5. Covers(Mutated(e), Evt("Renamed", e, mem[e].rev + 1))
      BY <1>0, <2>2 DEF Covers, Evt
    <2> QED BY <2>3, <2>4, <2>5 DEF Covered
  <1> QED BY <1>2, <1>3

\* The events of RunEvents, as a set.
LEMMA RunEventsRange ==
  ASSUME NEW kind \in DurableKinds, NEW S \in SUBSET Shells,
         NEW m \in [Entities -> Record], NEW x \in Range(RunEvents(kind, S, m))
  PROVE  \E s \in S : x = Evt(kind, s, m[s].gen)
  <1>1. Cardinality(S) \in Nat BY FiniteSets DEF Entities
  <1>2. PICK i \in 1..Cardinality(S) :
          x = Evt(kind, Listed(S)[i], m[Listed(S)[i]].gen)
    BY <1>1 DEF Range, RunEvents
  <1>3. Listed(S)[i] \in S BY ListedType
  <1> QED BY <1>2, <1>3

\* A start moves the generation forward, to where its event says.
LEMMA StartedLater ==
  ASSUME TypeOK, NEW S \in SUBSET Shells
  PROVE  /\ Later(mem, Started(S))
         /\ Covered(Started(S), Range(RunEvents("RunStarted", S, Started(S))))
  <1>0. \A f \in Entities : mem[f] \in Record /\ mem[f].rev \in Nat /\ mem[f].gen \in Nat
    BY DEF TypeOK, Record
  <1>1. Started(S) \in [Entities -> Record] BY StartedType
  <1>2. Later(mem, Started(S))
    <2> SUFFICES ASSUME NEW e \in Entities
                 PROVE  /\ mem[e].status = Started(S)[e].status
                        /\ mem[e].rev = Started(S)[e].rev
                        /\ IF e \in S THEN Started(S)[e].gen = mem[e].gen + 1
                           ELSE Started(S)[e] = mem[e]
      BY <1>0 DEF Later
    <2> QED BY <1>0 DEF Started, Record
  <1>3. ASSUME NEW x \in Range(RunEvents("RunStarted", S, Started(S)))
        PROVE  Covers(Started(S), x)
    <2>1. PICK s \in S : x = Evt("RunStarted", s, Started(S)[s].gen)
      BY <1>1, <1>3, RunEventsRange DEF DurableKinds
    <2>2. Started(S)[s].gen \in Nat BY <1>1 DEF Record, Entities
    <2> QED BY <2>1, <2>2 DEF Covers, Evt
  <1> QED BY <1>2, <1>3 DEF Covered

\* A run that ends makes its Shell later.
LEMMA EndedAnyLater ==
  ASSUME NEW m \in [Entities -> Record], NEW S
  PROVE  Later(m, Ended(m, S))
  <1>1. \A f \in Entities : m[f] \in Record /\ m[f].rev \in Nat /\ m[f].gen \in Nat
    BY DEF Record
  <1> SUFFICES ASSUME NEW e \in Entities
               PROVE  /\ m[e].status = Ended(m, S)[e].status
                      /\ m[e].rev = Ended(m, S)[e].rev
                      /\ m[e].gen = Ended(m, S)[e].gen
                      /\ Ended(m, S)[e].run \in {m[e].run, "ended"}
    BY <1>1 DEF Later
  <1> QED BY <1>1 DEF Ended, Record

\* Recording exits covers their events.
LEMMA EndedLater ==
  ASSUME NEW m \in [Entities -> Record], NEW S \in SUBSET Shells
  PROVE  /\ Later(m, Ended(m, S))
         /\ \A s \in S : Ended(m, S)[s].gen = m[s].gen /\ Ended(m, S)[s].run = "ended"
         /\ Covered(Ended(m, S), Range(RunEvents("RunExited", S, m)))
  <1>0. \A f \in Entities : m[f] \in Record /\ m[f].rev \in Nat /\ m[f].gen \in Nat
    BY DEF Record
  <1>1. \A s \in S : Ended(m, S)[s].gen = m[s].gen /\ Ended(m, S)[s].run = "ended"
    BY <1>0 DEF Ended, Entities, Record
  <1>2. Later(m, Ended(m, S)) BY EndedAnyLater
  <1>3. ASSUME NEW x \in Range(RunEvents("RunExited", S, m))
        PROVE  Covers(Ended(m, S), x)
    <2>1. PICK s \in S : x = Evt("RunExited", s, m[s].gen)
      BY <1>3, RunEventsRange DEF DurableKinds
    <2>2. m[s].gen \in Nat BY <1>0 DEF Entities
    <2> QED BY <1>1, <2>1, <2>2 DEF Covers, Evt
  <1> QED BY <1>1, <1>2, <1>3 DEF Covered

\* A registry in which runs ended covers their exits.
LEMMA EndedCovers ==
  ASSUME NEW m \in [Entities -> Record], NEW S \in SUBSET Shells,
         \A s \in S : m[s].run # "active"
  PROVE  Covered(m, Range(RunEvents("RunExited", S, m)))
  <1> SUFFICES ASSUME NEW x \in Range(RunEvents("RunExited", S, m))
               PROVE  Covers(m, x)
    BY DEF Covered
  <1>1. PICK s \in S : x = Evt("RunExited", s, m[s].gen)
    BY RunEventsRange DEF DurableKinds
  <1>2. m[s].gen \in Nat BY DEF Record, Entities
  <1> QED BY <1>1, <1>2 DEF Covers, Evt

\* A removal makes entities disappear for good.
LEMMA RemovedLater ==
  ASSUME NEW m \in [Entities -> Record]
  PROVE  Later(m, Removed(m))
  <1>0. \A f \in Entities : m[f] \in Record /\ m[f].rev \in Nat /\ m[f].gen \in Nat
    BY DEF Record
  <1> SUFFICES ASSUME NEW e \in Entities
               PROVE  /\ Removed(m)[e].status \in {m[e].status, "gone"}
                      /\ m[e].rev = Removed(m)[e].rev
                      /\ m[e].gen = Removed(m)[e].gen /\ m[e].run = Removed(m)[e].run
    BY <1>0 DEF Later
  <1> QED BY <1>0 DEF Removed, Record

-----------------------------------------------------------------------------
(* The shapes of a step.                                                   *)

\* The events in the queues, the batch and the journal are events.
LEMMA Ranges ==
  ASSUME TypeOK
  PROVE  /\ Range(log) \in SUBSET Event /\ Range(pendingDurable) \in SUBSET Event
         /\ Range(pendingRuntime) \in SUBSET Event
         /\ Range(io.batch) \in SUBSET Event /\ Held \in SUBSET Event
  <1>1. /\ log \in Seq(Event) /\ pendingDurable \in Seq(Event)
        /\ pendingRuntime \in Seq(Event) /\ io.batch \in Seq(Event)
        /\ journal \in SUBSET Event
    BY DEF TypeOK, IO
  <1> QED BY <1>1, RangeOfSeq DEF Held

\* The registries are registries.
LEMMA Registries ==
  ASSUME TypeOK
  PROVE  /\ mem \in [Entities -> Record] /\ disk \in [Entities -> Record]
         /\ io.gen \in [Entities -> Record] /\ op.undo \in [Entities -> Record]
  BY DEF TypeOK, IO, Op

\* Settle publishes at most the batch and the runtime events it is given.
LEMMA SettleRange ==
  ASSUME NEW batch \in Seq(Event), NEW durable, NEW runtime \in Seq(Event),
         NEW held, NEW busy, log \in Seq(Event),
         Settle(batch, durable, runtime, held, busy)
  PROVE  /\ Range(log') \subseteq Range(log) \cup Range(batch) \cup Range(runtime)
         /\ Range(pendingRuntime') \subseteq Range(runtime)
         /\ pendingDurable' = durable
  <1>1. log \o batch \in Seq(Event) BY ConcatProperties
  <1>2. Range(log \o batch) = Range(log) \cup Range(batch) BY RangeConcatenation
  <1>3. Range(log \o batch \o runtime) = Range(log) \cup Range(batch) \cup Range(runtime)
    <2> DEFINE first == log \o batch
    <2>1. first \in Seq(Event) BY <1>1
    <2> HIDE DEF first
    <2>2. Range(first \o runtime) = Range(first) \cup Range(runtime)
      BY <2>1, RangeConcatenation
    <2> QED BY <1>2, <2>2 DEF first
  <1>4. Range(<<>>) = {} BY DEF Range
  <1> QED BY <1>2, <1>3, <1>4 DEF Settle

\* The empty sequence has no elements.
LEMMA EmptyRange == Range(<<>>) = {}
  BY DEF Range

\* Appending adds one element.
LEMMA AppendRange ==
  ASSUME NEW q \in Seq(Event), NEW e \in Event
  PROVE  Range(Append(q, e)) = Range(q) \cup {e}
  <1>1. Append(q, e) = q \o <<e>> /\ <<e>> \in Seq(Event) BY AppendIsConcat
  <1>2. Range(<<e>>) = {e} BY DEF Range
  <1>3. Range(q \o <<e>>) = Range(q) \cup Range(<<e>>) BY <1>1, RangeConcatenation, ZenonT(90)
  <1> QED BY <1>1, <1>2, <1>3

\* Queueing a runtime event adds nothing else to the queue.
LEMMA QueueRuntimeRange ==
  ASSUME NEW q \in Seq(Event), NEW e \in Event
  PROVE  Range(QueueRuntime(q, e)) \subseteq Range(q) \cup {e}
  <1>1. CASE \E i \in DOMAIN q : q[i] = e
    <2> DEFINE i == CHOOSE i \in DOMAIN q : q[i] = e
    <2>1. i \in 1..Len(q) BY <1>1
    <2> HIDE DEF i
    <2> DEFINE front == SubSeq(q, 1, i - 1)
               back == SubSeq(q, i + 1, Len(q))
    <2>2. front \in Seq(Event) /\ Range(front) \subseteq Range(q)
      <3>1. front \in Seq(Event) /\ Len(front) = i - 1
              /\ \A j \in 1..(i - 1) : front[j] = q[j]
        BY <2>1, SubSeqProperties, ElementOfSeq
      <3> HIDE DEF front
      <3> QED BY <2>1, <3>1, RangeEquality
    <2>3. back \in Seq(Event) /\ Range(back) \subseteq Range(q)
      <3>1. back \in Seq(Event) /\ Len(back) = Len(q) - i
              /\ \A j \in 1..(Len(q) - i) : back[j] = q[i + j]
        BY <2>1, SubSeqProperties, ElementOfSeq
      <3> HIDE DEF back
      <3> QED BY <2>1, <3>1, RangeEquality
    <2>4. QueueRuntime(q, e) = Append(front \o back, e) BY <1>1 DEF QueueRuntime, i
    <2> HIDE DEF front, back
    <2>5. front \o back \in Seq(Event) /\ Range(front \o back) \subseteq Range(q)
      BY <2>2, <2>3, ConcatProperties, RangeConcatenation
    <2> DEFINE rest == front \o back
    <2> HIDE DEF rest
    <2>6. Range(Append(rest, e)) = Range(rest) \cup {e}
      BY <2>5, AppendRange DEF rest
    <2> QED BY <2>4, <2>5, <2>6 DEF rest
  <1>2. CASE ~ \E i \in DOMAIN q : q[i] = e
    BY <1>2, AppendRange DEF QueueRuntime
  <1> QED BY <1>1, <1>2

\* What holds of no operation and of no write.
LEMMA NoOpFields ==
  /\ NoOp.kind = "none" /\ NoOp.phase = "admit"
  /\ NoIO.kind = "none" /\ NoIO.batch = <<>>
  BY DEF NoOp, NoIO

\* A step that moves no event and no registry, whatever it does to the operation,
\* the readers and the lifecycles.
LEMMA IdleStep ==
  ASSUME KInv, IInv', WriteShape,
         UNCHANGED <<mem, disk, journal, log, pendingDurable, pendingRuntime>>,
         io'.kind = io.kind, io'.phase = io.phase, io'.gen = io.gen,
         io'.batch = io.batch, op' = op \/ op'.phase # "commit"
  PROVE  KInv'
  <1>1. Held' = Held /\ Range(io.batch)' = Range(io.batch)
    BY DEF Held
  <1>2. Writers' BY DEF KInv, Writers, IInv, WriteShape
  <1>3. RuntimeOnly' BY DEF KInv, Knowledge, RuntimeOnly
  <1>4. MemKnows' BY <1>1 DEF KInv, Knowledge, MemKnows
  <1>5. GenKnows' BY <1>1 DEF KInv, Knowledge, GenKnows
  <1>6. UndoKnows' BY <1>1 DEF KInv, Knowledge, UndoKnows
  <1>7. Saved' BY DEF KInv, Saved
  <1>8. Persisted' BY DEF KInv, Persisted, Durable
  <1> QED BY <1>2, <1>3, <1>4, <1>5, <1>6, <1>7, <1>8 DEF KInv, Knowledge

\* A write that begins takes the registry as the step leaves it.
LEMMA BeginWriteStep ==
  ASSUME KInv, IInv, IInv', io.kind = "none", UNCHANGED <<disk, journal, log>>,
         Behind(mem, mem'), Covered(mem', Range(io.batch)'),
         io'.gen = mem', io'.phase = "saving",
         Range(pendingDurable)' \subseteq Range(pendingDurable),
         RuntimeOnly', Writers', UndoKnows'
  PROVE  KInv'
  <1>1. Range(log) \in SUBSET Event /\ Range(pendingDurable) \in SUBSET Event
          /\ Held \in SUBSET Event
    BY Ranges DEF IInv
  <1>2. Covered(mem', Held) /\ Behind(disk, mem')
    BY <1>1, BehindCovered, BehindChain DEF KInv, Knowledge, MemKnows, Covered
  <1>3. Range(log') = Range(log) BY DEF IInv
  <1>4. MemKnows'
    BY <1>2, <1>3 DEF MemKnows, Covered, Held
  <1>5. Behind(mem', mem') BY DEF Behind
  <1>6. GenKnows' BY <1>2, <1>3, <1>5 DEF GenKnows, Covered, Held
  <1>7. Saved' BY DEF Saved
  <1>8. Persisted' BY <1>3 DEF KInv, Persisted, Durable
  <1> QED BY <1>4, <1>6, <1>7, <1>8 DEF KInv, Knowledge

\* A write that ends publishes what is durable and leaves a registry in memory
\* that covers what is published and queued.
LEMMA EndWriteStep ==
  ASSUME KInv, IInv, IInv', io' = NoIO, op'.phase # "commit", UNCHANGED disk,
         NEW published \in SUBSET Event,
         \A x \in published : Durable(x)',
         Range(log)' \subseteq Range(log) \cup published \cup Range(pendingRuntime),
         Range(pendingRuntime)' \subseteq Range(pendingRuntime),
         journal' \subseteq journal, journal' = journal \/ Covered(disk, Range(log)),
         Covered(mem', Range(pendingDurable)'), Covered(mem', Held),
         Covered(mem', published), Behind(disk, mem')
  PROVE  KInv'
  <1>1. io'.kind = "none" /\ io'.batch = <<>> BY DEF NoIO
  <1>2. Range(io.batch)' = {} BY <1>1, EmptyRange
  <1>3. RuntimeOnly' BY DEF KInv, Knowledge, RuntimeOnly
  <1>4. ASSUME NEW x \in Range(log)'
        PROVE  Covers(mem', x) /\ Durable(x)'
    <2>1. CASE x \in Range(log)
      <3>1. Covers(mem', x) BY <2>1 DEF Covered, Held
      <3>2. Durable(x) BY <2>1 DEF KInv, Persisted
      <3> QED BY <2>1, <3>1, <3>2 DEF Durable, Covered
    <2>2. CASE x \in published
      BY <2>2 DEF Covered
    <2>3. CASE x \in Range(pendingRuntime)
      <3>1. x.kind = "OutputChanged" BY <2>3 DEF KInv, Knowledge, RuntimeOnly
      <3> QED BY <3>1 DEF Covers, Durable
    <2> QED BY <1>4, <2>1, <2>2, <2>3
  <1>5. MemKnows'
    BY <1>2, <1>4 DEF MemKnows, Covered, Held
  <1>6. GenKnows' /\ UndoKnows' /\ Saved' BY <1>1 DEF GenKnows, UndoKnows, Saved
  <1>7. Writers' BY <1>1 DEF Writers
  <1>8. Persisted' BY <1>4 DEF Persisted
  <1> QED BY <1>3, <1>5, <1>6, <1>7, <1>8 DEF KInv, Knowledge

-----------------------------------------------------------------------------
(* The writer's steps.                                                     *)

\* The rename puts the generation in place; a fallback then empties the journal,
\* whose records the generation covers.
LEMMA SaveSucceedsKeeps ==
  ASSUME KInv, IInv, IInv', SaveSucceeds
  PROVE  KInv'
  <1> USE DEF SaveSucceeds, shells, stream
  <1>0. /\ UNCHANGED <<mem, log, pendingDurable, pendingRuntime, op>>
        /\ disk' = io.gen /\ journal' \subseteq journal
        /\ io'.kind = io.kind /\ io'.gen = io.gen /\ io'.batch = io.batch
        /\ io'.phase = "saved" /\ io.kind # "none" /\ io.kind # "journal"
    BY DEF IInv, TypeOK, IO
  <1> HIDE DEF SaveSucceeds
  <1>1. Held' \subseteq Held BY <1>0 DEF Held
  <1>2. MemKnows'
    BY <1>0, <1>1 DEF KInv, Knowledge, MemKnows, GenKnows, Covered
  <1>3. GenKnows'
    BY <1>0 DEF KInv, Knowledge, GenKnows, Covered, Behind
  <1>4. Persisted' BY <1>0 DEF KInv, Knowledge, GenKnows, Covered, Persisted, Durable
  <1>5. UndoKnows' /\ Saved' BY <1>0 DEF UndoKnows, Saved
  <1>6. Writers' /\ RuntimeOnly' BY <1>0 DEF KInv, Knowledge, Writers, RuntimeOnly
  <1> QED BY <1>2, <1>3, <1>4, <1>5, <1>6 DEF KInv, Knowledge

\* A failed save leaves the file.
LEMMA SaveFailsKeeps ==
  ASSUME KInv, IInv, IInv', SaveFails
  PROVE  KInv'
  <1>0. /\ UNCHANGED <<mem, disk, journal, log, pendingDurable, pendingRuntime, op>>
        /\ io'.kind = io.kind /\ io'.gen = io.gen /\ io'.batch = io.batch
        /\ io'.phase = "failed" /\ io.phase = "saving"
    BY DEF SaveFails, shells, stream, IInv, TypeOK, IO
  <1>1. Held' = Held /\ Range(io.batch)' = Range(io.batch) BY <1>0 DEF Held
  <1>2. MemKnows' /\ GenKnows' /\ UndoKnows'
    BY <1>0, <1>1 DEF KInv, Knowledge, MemKnows, GenKnows, UndoKnows
  <1>3. Persisted' /\ Saved' BY <1>0 DEF KInv, Persisted, Durable, Saved
  <1>4. Writers' /\ RuntimeOnly' BY <1>0 DEF KInv, Knowledge, Writers, RuntimeOnly
  <1> QED BY <1>2, <1>3, <1>4 DEF KInv, Knowledge

\* The fallback's file is in place although the write counts as failed: a start
\* does not roll the registry back.
LEMMA FallbackResetFailsKeeps ==
  ASSUME KInv, IInv, IInv', FallbackResetFails
  PROVE  KInv'
  <1>0. /\ UNCHANGED <<mem, journal, log, pendingDurable, pendingRuntime, op>>
        /\ disk' = io.gen /\ op.kind = "start" /\ io.kind # "none"
        /\ io'.kind = io.kind /\ io'.gen = io.gen /\ io'.batch = io.batch
        /\ io'.phase = "failed"
    BY DEF FallbackResetFails, shells, stream, IInv, TypeOK, IO, KInv, Writers
  <1>1. Held' = Held /\ Range(io.batch)' = Range(io.batch) BY <1>0 DEF Held
  <1>2. MemKnows'
    BY <1>0, <1>1 DEF KInv, Knowledge, MemKnows, GenKnows
  <1>3. GenKnows' BY <1>0 DEF KInv, Knowledge, GenKnows, Behind, Covered
  <1>4. UndoKnows' BY <1>0 DEF UndoKnows, Undoing, Lifecycle
  <1>5. Persisted' BY <1>0 DEF KInv, Knowledge, GenKnows, Covered, Persisted, Durable
  <1>6. Saved' BY <1>0 DEF Saved
  <1>7. Writers' /\ RuntimeOnly' BY <1>0 DEF KInv, Knowledge, Writers, RuntimeOnly
  <1> QED BY <1>2, <1>3, <1>4, <1>5, <1>6, <1>7 DEF KInv, Knowledge

\* The journal holds the batch, which the registry and the generation cover.
LEMMA AppendSucceedsKeeps ==
  ASSUME KInv, IInv, IInv', AppendSucceeds
  PROVE  KInv'
  <1>0. /\ UNCHANGED <<mem, disk, log, pendingDurable, pendingRuntime, op>>
        /\ journal' = journal \cup Range(io.batch)
        /\ io'.kind = "journal" /\ io.kind = "journal"
        /\ io'.gen = io.gen /\ io'.batch = io.batch /\ io'.phase = "saved"
    BY DEF AppendSucceeds, shells, stream, IInv, TypeOK, IO
  <1>1. Held' = Held \cup Range(io.batch) /\ Range(io.batch)' = Range(io.batch)
    BY <1>0 DEF Held
  <1>2. MemKnows' BY <1>0, <1>1 DEF KInv, Knowledge, MemKnows, Covered
  <1>3. GenKnows' BY <1>0 DEF KInv, Knowledge, GenKnows, Covered
  <1>4. UndoKnows' /\ Saved' BY <1>0 DEF UndoKnows, Saved
  <1>5. Persisted' BY <1>0 DEF KInv, Persisted, Durable
  <1>6. Writers' /\ RuntimeOnly' BY <1>0 DEF KInv, Knowledge, Writers, RuntimeOnly
  <1> QED BY <1>2, <1>3, <1>4, <1>5, <1>6 DEF KInv, Knowledge

\* A failed append leaves the journal.
LEMMA AppendFailsKeeps ==
  ASSUME KInv, IInv, IInv', AppendFails
  PROVE  KInv'
  <1>0. /\ UNCHANGED <<mem, disk, journal, log, pendingDurable, pendingRuntime, op>>
        /\ \/ (io'.kind = "fallback" /\ op.kind = "start" /\ io'.phase = "saving")
           \/ (io'.kind = "journal" /\ io'.phase = "failed")
        /\ io'.gen = io.gen /\ io'.batch = io.batch
        /\ io.kind = "journal" /\ io.phase = "saving"
    <2>0. io \in IO BY DEF IInv, TypeOK
    <2>1. /\ UNCHANGED <<mem, disk, journal, log, pendingDurable, pendingRuntime, op>>
          /\ io.kind = "journal" /\ io.phase = "saving"
      BY DEF AppendFails, shells, stream
    <2>2. CASE op.kind = "start"
      <3>1. io' = [io EXCEPT !.kind = "fallback"] BY <2>2 DEF AppendFails
      <3>2. /\ io'.kind = "fallback" /\ io'.phase = "saving"
            /\ io'.gen = io.gen /\ io'.batch = io.batch
        BY <2>0, <2>1, <3>1 DEF IO
      <3> QED BY <2>1, <2>2, <3>2
    <2>3. CASE op.kind # "start"
      <3>1. io' = [io EXCEPT !.phase = "failed"] BY <2>3 DEF AppendFails
      <3>2. /\ io'.kind = "journal" /\ io'.phase = "failed"
            /\ io'.gen = io.gen /\ io'.batch = io.batch
        BY <2>0, <2>1, <3>1 DEF IO
      <3> QED BY <2>1, <2>3, <3>2
    <2> QED BY <2>2, <2>3
  <1>1. Held' = Held /\ Range(io.batch)' = Range(io.batch) BY <1>0 DEF Held
  <1>2. MemKnows' /\ GenKnows'
    BY <1>0, <1>1 DEF KInv, Knowledge, MemKnows, GenKnows
  <1>3. UndoKnows' BY <1>0, <1>1 DEF KInv, Knowledge, UndoKnows
  <1>4. Persisted' /\ Saved' BY <1>0 DEF KInv, Persisted, Durable, Saved
  <1>5. Writers' /\ RuntimeOnly' BY <1>0 DEF KInv, Knowledge, Writers, RuntimeOnly
  <1> QED BY <1>2, <1>3, <1>4, <1>5 DEF KInv, Knowledge

\* A flush takes the queued batches and the registry that covers them.
LEMMA BeginFlushKeeps ==
  ASSUME KInv, IInv, IInv', NEW b \in BOOLEAN, BeginFlush(b), op.phase # "commit"
  PROVE  KInv'
  <1>0. /\ UNCHANGED <<mem, disk, journal, log, pendingRuntime, op>>
        /\ io.kind = "none" /\ io'.kind = "flush" /\ io'.gen = mem
        /\ io'.batch = pendingDurable /\ io'.phase = "saving" /\ pendingDurable' = <<>>
    BY DEF BeginFlush, BeginWrite, shells
  <1>1. Range(pendingDurable)' = {} /\ Range(io.batch)' = Range(pendingDurable)
    BY <1>0, EmptyRange
  <1>2. Behind(mem, mem') /\ Covered(mem', Range(io.batch)')
    BY <1>0, <1>1 DEF KInv, Knowledge, MemKnows, Held, Behind, Covered
  <1>3. RuntimeOnly' BY <1>0 DEF KInv, Knowledge, RuntimeOnly
  <1>4. Writers' /\ UndoKnows' BY <1>0 DEF KInv, Writers, UndoKnows
  <1> QED BY <1>0, <1>1, <1>2, <1>3, <1>4, BeginWriteStep

\* An operation commits under a write of its own.
LEMMA CommitBusy ==
  ASSUME IInv
  PROVE  /\ io.kind \in {"none", "flush", "checkpoint"} => op.phase # "commit"
         /\ io.kind = "none" => io.batch = <<>> /\ Range(io.batch) = {}
         /\ op.phase = "commit" => io.kind \in {"commit", "journal", "fallback"}
  BY EmptyRange DEF IInv, WriteShape

\* An operation's own flush begins a write or moves on.
LEMMA OpFlushKeeps ==
  ASSUME KInv, IInv, IInv', OpFlush
  PROVE  KInv'
  <1>1. CASE pendingDurable # <<>> \/ dirty
    BY <1>1, BeginFlushKeeps DEF OpFlush
  <1>2. CASE ~(pendingDurable # <<>> \/ dirty)
    <2>1. /\ UNCHANGED <<mem, disk, journal, log, pendingDurable, pendingRuntime, io>>
          /\ op'.phase \in {"observe", "apply"}
      BY <1>2 DEF OpFlush, shells, stream, AfterFlush, IInv, TypeOK, Op
    <2> QED BY <2>1, IdleStep DEF IInv
  <1> QED BY <1>1, <1>2

\* What was flushed is in the file.
LEMMA FinishFlushKeeps ==
  ASSUME KInv, IInv, IInv', FinishFlush
  PROVE  KInv'
  <1>1. /\ UNCHANGED <<mem, disk, journal>> /\ io' = NoIO
        /\ io.kind = "flush" /\ io.phase = "saved"
        /\ op' = op \/ op'.phase \in {"observe", "apply"}
        /\ Settle(io.batch, pendingDurable, pendingRuntime, reservation, FALSE)
    BY DEF FinishFlush, shells, AfterFlush, IInv, TypeOK, Op
  <1>2. /\ Range(log)' \subseteq Range(log) \cup Range(io.batch) \cup Range(pendingRuntime)
        /\ Range(pendingRuntime)' \subseteq Range(pendingRuntime)
        /\ pendingDurable' = pendingDurable
    BY <1>1, SettleRange DEF IInv, TypeOK, IO
  <1>3. \A x \in Range(io.batch) : Durable(x)'
    BY <1>1 DEF KInv, Knowledge, GenKnows, Saved, Covered, Durable
  <1>4. Range(io.batch) \in SUBSET Event BY Ranges DEF IInv
  <1>5. op'.phase # "commit" BY <1>1, CommitBusy
  <1>6. /\ Covered(mem', Held) /\ Covered(mem', Range(pendingDurable)')
        /\ Covered(mem', Range(io.batch)) /\ Behind(disk, mem')
    BY <1>1, <1>2 DEF KInv, Knowledge, MemKnows, Covered, Held
  <1> QED BY <1>1, <1>2, <1>3, <1>4, <1>5, <1>6, EndWriteStep

\* The batches of a failed flush return to the queue.
LEMMA FlushFailedKeeps ==
  ASSUME KInv, IInv, IInv', FlushFailed
  PROVE  KInv'
  <1> DEFINE queue == io.batch \o pendingDurable
  <1>1. /\ UNCHANGED <<mem, disk, journal>> /\ io' = NoIO
        /\ io.kind = "flush"
        /\ op' = op \/ op'.phase \in {"abort", "admit"}
        /\ Settle(<<>>, queue, pendingRuntime, reservation, FALSE)
    BY DEF FlushFailed, shells, IInv, TypeOK, Op, NoOp
  <1>2. Range(queue) = Range(io.batch) \cup Range(pendingDurable)
    BY RangeConcatenation DEF IInv, TypeOK, IO
  <1> HIDE DEF queue
  <1>3. <<>> \in Seq(Event) /\ pendingRuntime \in Seq(Event) /\ log \in Seq(Event)
    BY DEF IInv, TypeOK
  <1>4. /\ Range(log)' \subseteq Range(log) \cup {} \cup Range(pendingRuntime)
        /\ Range(pendingRuntime)' \subseteq Range(pendingRuntime)
        /\ pendingDurable' = queue
    BY <1>1, <1>3, SettleRange, EmptyRange
  <1>5. op'.phase # "commit" BY <1>1, CommitBusy
  <1>6. /\ Covered(mem', Held) /\ Covered(mem', Range(pendingDurable)')
        /\ Covered(mem', {}) /\ Behind(disk, mem')
    BY <1>1, <1>2, <1>4 DEF KInv, Knowledge, MemKnows, Covered, Held
  <1> QED BY <1>1, <1>4, <1>5, <1>6, EndWriteStep

\* A journal checkpoint takes the registry in memory.
LEMMA WriteCheckpointKeeps ==
  ASSUME KInv, IInv, IInv', WriteCheckpoint
  PROVE  KInv'
  <1>0. /\ UNCHANGED <<mem, disk, journal, log, pendingDurable, pendingRuntime, op>>
        /\ io.kind = "none" /\ io'.kind = "checkpoint" /\ io'.gen = mem
        /\ io'.batch = <<>> /\ io'.phase = "saving"
    BY DEF WriteCheckpoint, BeginWrite, shells, stream
  <1>1. Range(io.batch)' = {} BY <1>0, EmptyRange
  <1>2. Behind(mem, mem') /\ Covered(mem', Range(io.batch)')
    BY <1>0, <1>1 DEF Behind, Covered
  <1>3. op.phase # "commit" BY <1>0, CommitBusy
  <1>4. Writers' /\ UndoKnows' /\ RuntimeOnly'
    BY <1>0, <1>3 DEF KInv, Knowledge, Writers, UndoKnows, RuntimeOnly
  <1> QED BY <1>0, <1>1, <1>2, <1>4, BeginWriteStep

\* The journal is cleared when the file covers it.
LEMMA FinishCheckpointKeeps ==
  ASSUME KInv, IInv, IInv', FinishCheckpoint \/ CheckpointFailed
  PROVE  KInv'
  <1>1. /\ UNCHANGED <<mem, disk, log, pendingDurable, pendingRuntime>> /\ io' = NoIO
        /\ io.kind = "checkpoint" /\ op'.phase = "admit"
        /\ journal' = journal \/ (journal' = {} /\ io.phase = "saved")
    <2>0. op \in Op BY DEF IInv, TypeOK
    <2>1. CASE FinishCheckpoint
      BY <2>0, <2>1, NoOpFields DEF FinishCheckpoint, shells, stream, Op
    <2>2. CASE CheckpointFailed
      BY <2>2, NoOpFields DEF CheckpointFailed, shells, stream
    <2> QED BY <2>1, <2>2
  <1>2. journal' = journal \/ Covered(disk, Range(log))
    BY <1>1 DEF KInv, Knowledge, Saved, GenKnows, Covered
  <1>3. /\ Covered(mem', Held) /\ Covered(mem', Range(pendingDurable)')
        /\ Covered(mem', {}) /\ Behind(disk, mem')
    BY <1>1 DEF KInv, Knowledge, MemKnows, Covered, Held
  <1>4. Range(log)' = Range(log) /\ Range(pendingRuntime)' = Range(pendingRuntime)
    BY <1>1
  <1>5. Range(log)' \subseteq Range(log) \cup {} \cup Range(pendingRuntime)
    BY <1>4
  <1>6. journal' \subseteq journal BY <1>1
  <1> QED BY <1>1, <1>2, <1>3, <1>4, <1>5, <1>6, EndWriteStep

-----------------------------------------------------------------------------
(* Steps that move no event.                                               *)

\* Taking mutation_lock.
LEMMA RequestsKeep ==
  ASSUME KInv, IInv, IInv', Requests
  PROVE  KInv'
  <1>1. ASSUME NEW kind, NEW phase, NEW targets, phase # "commit",
               Begin(kind, phase, targets)
        PROVE  op'.phase # "commit"
    BY <1>1 DEF Begin, NoOp
  <1>2. /\ UNCHANGED <<mem, disk, journal, log, pendingDurable, pendingRuntime, io>>
        /\ op' = op \/ op'.phase # "commit"
    <2>1. CASE \E s \in Shells : BeginStart(s) \/ RestartShell(s)
      BY <1>1, <2>1 DEF BeginStart, RestartShell, stream
    <2>2. CASE ~ \E s \in Shells : BeginStart(s) \/ RestartShell(s)
      <3>1. Quiet /\ op'.phase # "commit"
        BY <1>1, <2>2 DEF Requests, BeginMutation, BeginLocalCreate, BeginClose,
             BeginRecover, BeginCloseWorkspace, BeginShutdown, BeginBaseline,
             BeginCheckpoint
      <3> QED BY <3>1 DEF Quiet, stream
    <2> QED BY <2>1, <2>2
  <1> QED BY <1>2, IdleStep DEF IInv

\* Operations that are refused, admitted, stop their runs or observe.
Passing ==
  \/ SkipCheckpoint \/ ObserveBaseline \/ AdmitMutation \/ StartRefused
  \/ AdmitLifecycle \/ AllStopped
  \/ \E s \in Shells : StopRuntime(s) \/ StopFails(s)

\* None of them moves an event or a registry.
LEMMA PassingKeeps ==
  ASSUME KInv, IInv, IInv', Passing
  PROVE  KInv'
  <1>1. /\ UNCHANGED <<mem, disk, journal, log, pendingDurable, pendingRuntime, io>>
        /\ op' = op \/ op'.phase # "commit"
    <2>0. op \in Op BY DEF IInv, TypeOK
    <2>1. CASE SkipCheckpoint
      BY <2>0, <2>1 DEF SkipCheckpoint, shells, stream, Op, NoOp
    <2>2. CASE ObserveBaseline \/ AdmitMutation \/ StartRefused \/ AllStopped
      BY <2>0, <2>2 DEF ObserveBaseline, AdmitMutation, StartRefused, AllStopped,
           Quiet, shells, stream, Op, NoOp
    <2>3. CASE AdmitLifecycle
      <3>1. op' = NoOp \/ op' = [op EXCEPT !.phase = "stop", !.targets = Selected]
        BY <2>3 DEF AdmitLifecycle
      <3>2. CASE op' = NoOp BY <2>3, <3>2, NoOpFields DEF AdmitLifecycle
      <3>3. CASE op' = [op EXCEPT !.phase = "stop", !.targets = Selected]
        <4>1. op'.phase = "stop" BY <2>0, <3>3 DEF Op
        <4> QED BY <2>3, <4>1 DEF AdmitLifecycle
      <3> QED BY <3>1, <3>2, <3>3
    <2>4. ASSUME NEW s \in Shells, StopRuntime(s)
          PROVE  <1>1!1 /\ <1>1!2
      BY <2>0, <2>4 DEF StopRuntime, shells, stream, Op
    <2>5. ASSUME NEW s \in Shells, StopFails(s)
          PROVE  <1>1!1 /\ <1>1!2
      BY <2>0, <2>5 DEF StopFails, shells, stream, Op
    <2> QED BY <2>1, <2>2, <2>3, <2>4, <2>5 DEF Passing
  <1> QED BY <1>1, IdleStep DEF IInv

\* A reader publishes or queues output, which every registry covers, or changes
\* nothing that was announced.
LEMMA RunsKeep ==
  ASSUME KInv, IInv, IInv', Runs
  PROVE  KInv'
  <1>1. ASSUME NEW s \in Shells, PublishOutput(s)
        PROVE  KInv'
    <2> DEFINE e == Evt("OutputChanged", s, mem[s].gen)
    <2>1. UNCHANGED <<mem, disk, journal, pendingDurable, op, io>>
      BY <1>1 DEF PublishOutput
    <2>2. e \in Event
      <3>1. mem[s].gen \in Nat BY DEF IInv, TypeOK, Record, Entities
      <3> QED BY <3>1 DEF Evt, Event, Entities
    <2>3. /\ Range(log)' \subseteq Range(log) \cup {e}
          /\ Range(pendingRuntime)' \subseteq Range(pendingRuntime) \cup {e}
      <3>1. CASE Blocked
        <4>1. log' = log /\ pendingRuntime' = QueueRuntime(pendingRuntime, e)
          BY <1>1, <3>1 DEF PublishOutput
        <4> QED BY <2>2, <4>1, QueueRuntimeRange DEF IInv, TypeOK
      <3>2. CASE ~Blocked
        <4>1. log' = Append(log, e) /\ pendingRuntime' = pendingRuntime
          BY <1>1, <3>2 DEF PublishOutput
        <4>2. Range(Append(log, e)) = Range(log) \cup {e}
          BY <2>2, AppendRange DEF IInv, TypeOK
        <4> QED BY <4>1, <4>2
      <3> QED BY <3>1, <3>2
    <2>4. e.kind = "OutputChanged" BY DEF Evt
    <2> HIDE DEF e
    <2>5. \A d : Covers(d, e) BY <2>4, RuntimeCovered
    <2>6. Durable(e) BY <2>4, RuntimeCovered
    <2>7. RuntimeOnly' BY <2>3, <2>4 DEF KInv, Knowledge, RuntimeOnly
    <2>8. MemKnows'
      BY <2>1, <2>3, <2>5 DEF KInv, Knowledge, MemKnows, Covered, Held
    <2>9. GenKnows' BY <2>1, <2>3, <2>5 DEF KInv, Knowledge, GenKnows, Covered
    <2>10. UndoKnows'
      BY <2>1, <2>3, <2>5 DEF KInv, Knowledge, UndoKnows, Covered, Held
    <2>11. Persisted' BY <2>1, <2>3, <2>6 DEF KInv, Persisted, Durable
    <2>12. Writers' /\ Saved' BY <2>1 DEF KInv, Writers, Saved
    <2> QED BY <2>7, <2>8, <2>9, <2>10, <2>11, <2>12 DEF KInv, Knowledge
  <1>2. ASSUME NEW s \in Shells, OutputRefused(s) \/ ProcessExits(s)
        PROVE  KInv'
    BY <1>2, IdleStep DEF OutputRefused, ProcessExits, stream, IInv
  <1>3. ASSUME NEW s \in Shells, CheckpointHistory(s)
        PROVE  KInv'
    <2>1. /\ UNCHANGED <<mem, disk, journal, log, pendingDurable, pendingRuntime, op>>
          /\ io'.kind = io.kind /\ io'.phase = io.phase /\ io'.gen = io.gen
          /\ io'.batch = io.batch
      BY <1>3 DEF CheckpointHistory, Touched, stream, shells, IInv, TypeOK, IO
    <2> QED BY <2>1, IdleStep DEF IInv
  <1>4. ASSUME NEW x \in exits, BeginExit(x[1], x[2])
        PROVE  KInv'
    <2>1. op' = op \/ op'.phase # "commit" BY <1>4 DEF BeginExit, Begin, NoOp
    <2> QED BY <1>4, <2>1, IdleStep DEF BeginExit, stream, IInv
  <1> QED BY <1>1, <1>2, <1>3, <1>4 DEF Runs

-----------------------------------------------------------------------------
(* The operations' commits, publications and rollbacks.                    *)

\* A write that succeeded made its batch durable.
LEMMA BatchSaved ==
  ASSUME KInv, io.phase = "saved", io.kind # "none"
  PROVE  \A x \in Range(io.batch) : Durable(x)
  BY DEF KInv, Knowledge, GenKnows, Saved, Covered, Durable

\* The registry in memory covers what is held, and is ahead of the file.
LEMMA MemCovers ==
  ASSUME KInv
  PROVE  /\ Covered(mem, Held) /\ Covered(mem, Range(pendingDurable))
         /\ Covered(mem, Range(io.batch)) /\ Behind(disk, mem)
  BY DEF KInv, Knowledge, MemKnows, Covered, Held

\* A creation or rename keeps the registry it would restore.
LEMMA ApplyMutationKeeps ==
  ASSUME KInv, IInv, IInv', NEW e \in Entities, ApplyMutation(e)
  PROVE  KInv'
  <1>1. CASE op' = NoOp /\ UNCHANGED <<mem, life, io>>
    BY <1>1, NoOpFields, IdleStep DEF ApplyMutation, stream, IInv
  <1>2. ASSUME op' # NoOp \/ ~UNCHANGED <<mem, life, io>>
        PROVE  KInv'
    <2>1. /\ mem' = Mutated(e) /\ (Creates(e) \/ Renames(e))
          /\ op' = [op EXCEPT !.phase = "commit", !.undo = mem, !.undoLife = life]
          /\ op.kind \in {"mutate", "local"} /\ io.kind = "none"
          /\ io'.kind = IF op.kind = "local" THEN "journal" ELSE "commit"
          /\ io'.gen = mem' /\ io'.batch = MutationEvents(e) /\ io'.phase = "saving"
          /\ UNCHANGED <<disk, journal, log, pendingDurable, pendingRuntime>>
      BY <1>2 DEF ApplyMutation, BeginWrite, stream
    <2>2. op'.phase = "commit" /\ op'.undo = mem /\ op'.kind = op.kind
      BY <2>1 DEF IInv, TypeOK, Op
    <2>3. Later(mem, mem') /\ Covered(mem', Range(io.batch)')
      BY <2>1, MutatedLater DEF IInv
    <2>4. Behind(mem, mem')
      BY <2>3, LaterBehind DEF IInv, TypeOK
    <2>5. Writers' BY <2>1, <2>2 DEF Writers, Undoing
    <2>6. UndoKnows'
      BY <2>1, <2>2, MemCovers DEF UndoKnows, Lifecycle, Held
    <2>7. RuntimeOnly' BY <2>1 DEF KInv, Knowledge, RuntimeOnly
    <2> QED BY <2>1, <2>3, <2>4, <2>5, <2>6, <2>7, BeginWriteStep
  <1> QED BY <1>1, <1>2

\* The batch of a mutation, a start, a recovery or a removal is published.
LEMMA FinishedKeeps ==
  ASSUME KInv, IInv, IInv', FinishMutation \/ FinishStart \/ FinishLifecycle
  PROVE  KInv'
  <1>1. /\ UNCHANGED <<mem, disk, journal>> /\ io' = NoIO /\ op' = NoOp
        /\ op.phase = "commit" /\ io.phase = "saved"
        /\ \E held \in Nat :
             Settle(io.batch, pendingDurable, pendingRuntime, held, FALSE)
    BY DEF FinishMutation, FinishStart, FinishLifecycle, shells, IInv, TypeOK
  <1>2. /\ Range(log)' \subseteq Range(log) \cup Range(io.batch) \cup Range(pendingRuntime)
        /\ Range(pendingRuntime)' \subseteq Range(pendingRuntime)
        /\ pendingDurable' = pendingDurable
    BY <1>1, SettleRange DEF IInv, TypeOK, IO
  <1>3. io.kind # "none" BY <1>1, CommitBusy
  <1>4. \A x \in Range(io.batch) : Durable(x)'
    BY <1>1, <1>3, BatchSaved DEF Durable, Covers
  <1>5. Range(io.batch) \in SUBSET Event BY Ranges DEF IInv
  <1>6. /\ Covered(mem', Held) /\ Covered(mem', Range(pendingDurable)')
        /\ Covered(mem', Range(io.batch)) /\ Behind(disk, mem')
    BY <1>1, <1>2, MemCovers
  <1> QED BY <1>1, <1>2, <1>4, <1>5, <1>6, NoOpFields, EndWriteStep

\* The rollback of a mutation, a recovery or a failed start leaves a registry that
\* covers what is published and queued.
LEMMA RolledBackKeeps ==
  ASSUME KInv, IInv, IInv', MutationFailed \/ StartFailed
  PROVE  KInv'
  <1>1. /\ UNCHANGED <<disk, journal>> /\ io' = NoIO /\ op' = NoOp
        /\ op.phase = "commit" /\ io.phase = "failed"
        /\ \/ (mem' = op.undo /\ op.kind \in Undoing)
           \/ mem' = Ended(mem, op.targets)
        /\ Settle(<<>>, pendingDurable, pendingRuntime, reservation, FALSE)
    BY DEF MutationFailed, StartFailed, shells, Undoing
  <1>2. /\ Range(log)' \subseteq Range(log) \cup {} \cup Range(pendingRuntime)
        /\ Range(pendingRuntime)' \subseteq Range(pendingRuntime)
        /\ pendingDurable' = pendingDurable
    <2>1. <<>> \in Seq(Event) /\ pendingRuntime \in Seq(Event) /\ log \in Seq(Event)
      BY DEF IInv, TypeOK
    <2> QED BY <1>1, <2>1, SettleRange, EmptyRange
  <1>3. Covered(mem', Held) /\ Behind(disk, mem')
    <2>1. CASE mem' = op.undo /\ op.kind \in Undoing
      BY <1>1, <2>1 DEF KInv, Knowledge, UndoKnows
    <2>2. CASE mem' = Ended(mem, op.targets)
      <3>1. Later(mem, mem') BY <2>2, EndedAnyLater DEF IInv, TypeOK
      <3>2. Behind(mem, mem') BY <3>1, LaterBehind DEF IInv, TypeOK
      <3>3. Held \in SUBSET Event BY Ranges DEF IInv
      <3> QED BY <3>2, <3>3, MemCovers, BehindCovered, BehindChain
    <2> QED BY <1>1, <2>1, <2>2
  <1>4. Covered(mem', Range(pendingDurable)') /\ Covered(mem', {})
    BY <1>2, <1>3 DEF Covered, Held
  <1> QED BY <1>1, <1>2, <1>3, <1>4, NoOpFields, EndWriteStep

\* A start takes the registry with the run in it.
LEMMA ApplyStartKeeps ==
  ASSUME KInv, IInv, IInv', NEW s \in Shells, ApplyStart(s)
  PROVE  KInv'
  <1>1. /\ mem' = Started({s}) /\ op' = [op EXCEPT !.phase = "commit"]
        /\ op.kind = "start" /\ io.kind = "none" /\ io'.kind \in {"journal", "commit"}
        /\ io'.gen = mem' /\ io'.batch = RunEvents("RunStarted", {s}, Started({s}))
        /\ io'.phase = "saving"
        /\ UNCHANGED <<disk, journal, log, pendingDurable, pendingRuntime>>
    BY DEF ApplyStart, BeginWrite, stream
  <1>2. op'.phase = "commit" /\ op'.kind = "start" BY <1>1 DEF IInv, TypeOK, Op
  <1>3. Later(mem, mem') /\ Covered(mem', Range(io.batch)')
    BY <1>1, StartedLater DEF IInv
  <1>4. Behind(mem, mem') BY <1>3, LaterBehind DEF IInv, TypeOK
  <1>5. Writers' /\ UndoKnows' BY <1>1, <1>2 DEF Writers, UndoKnows, Undoing, Lifecycle
  <1>6. RuntimeOnly' BY <1>1 DEF KInv, Knowledge, RuntimeOnly
  <1> QED BY <1>1, <1>3, <1>4, <1>5, <1>6, BeginWriteStep

\* A recovery keeps the registry with the interrupted runs.
LEMMA ApplyRecoverKeeps ==
  ASSUME KInv, IInv, IInv', NEW S \in SUBSET Shells, ApplyRecover(S)
  PROVE  KInv'
  <1>1. CASE op' = NoOp /\ UNCHANGED <<mem, life, reader, io>>
    BY <1>1, NoOpFields, IdleStep DEF ApplyRecover, stream, IInv
  <1>2. ASSUME op' # NoOp \/ ~UNCHANGED <<mem, life, reader, io>>
        PROVE  KInv'
    <2>1. /\ mem' = Started(S) /\ op.kind = "recover" /\ io.kind = "none"
          /\ op' = [op EXCEPT !.phase = "commit", !.targets = S, !.undo = mem]
          /\ io'.kind = "commit" /\ io'.gen = mem' /\ io'.phase = "saving"
          /\ io'.batch = RunEvents("RunStarted", S, Started(S))
          /\ UNCHANGED <<disk, journal, log, pendingDurable, pendingRuntime>>
      BY <1>2 DEF ApplyRecover, BeginWrite, stream
    <2>2. op'.phase = "commit" /\ op'.kind = "recover" /\ op'.undo = mem
      BY <2>1 DEF IInv, TypeOK, Op
    <2>3. Later(mem, mem') /\ Covered(mem', Range(io.batch)')
      BY <2>1, StartedLater DEF IInv
    <2>4. Behind(mem, mem') BY <2>3, LaterBehind DEF IInv, TypeOK
    <2>5. Writers' BY <2>1, <2>2 DEF Writers, Undoing
    <2>6. UndoKnows' BY <2>1, <2>2, MemCovers DEF UndoKnows, Lifecycle, Held
    <2>7. RuntimeOnly' BY <2>1 DEF KInv, Knowledge, RuntimeOnly
    <2> QED BY <2>1, <2>3, <2>4, <2>5, <2>6, <2>7, BeginWriteStep
  <1> QED BY <1>1, <1>2

\* The exit and the output queued before it become the batch of a generation in
\* which the run has ended.
LEMMA ApplyExitKeeps ==
  ASSUME KInv, IInv, IInv', NEW s \in Shells, ApplyExit(s)
  PROVE  KInv'
  <1> DEFINE exit == Evt("RunExited", s, mem[s].gen)
             batch == pendingRuntime \o <<exit>>
  <1>1. CASE op' = NoOp /\ UNCHANGED <<mem, life, pendingRuntime, io>>
    BY <1>1, NoOpFields, IdleStep DEF ApplyExit, IInv
  <1>2. ASSUME op' # NoOp \/ ~UNCHANGED <<mem, life, pendingRuntime, io>>
        PROVE  KInv'
    <2>1. /\ mem' = Ended(mem, {s}) /\ op' = [op EXCEPT !.phase = "commit"]
          /\ op.kind = "exit" /\ io.kind = "none" /\ io'.kind = "commit"
          /\ io'.gen = mem' /\ io'.batch = batch /\ io'.phase = "saving"
          /\ pendingRuntime' = <<>>
          /\ UNCHANGED <<disk, journal, log, pendingDurable>>
      BY <1>2 DEF ApplyExit, BeginWrite
    <2>2. op'.phase = "commit" /\ op'.kind = "exit" BY <2>1 DEF IInv, TypeOK, Op
    <2>3. mem[s].gen \in Nat /\ s \in Entities BY DEF IInv, TypeOK, Record, Entities
    <2>4. exit \in Event BY <2>3 DEF Evt, Event, DurableKinds
    <2>5. Range(batch) = Range(pendingRuntime) \cup {exit}
      <3> HIDE DEF exit
      <3>1. Range(<<exit>>) = {exit} BY DEF Range
      <3>2. <<exit>> \in Seq(Event) BY <2>4
      <3>3. Range(batch) = Range(pendingRuntime) \cup Range(<<exit>>)
        BY <3>2, RangeConcatenation, ZenonT(90) DEF IInv, TypeOK
      <3> QED BY <3>1, <3>3
    <2>6. Covers(mem', exit)
      <3>1. mem'[s].gen = mem[s].gen /\ mem'[s].run = "ended"
        BY <2>1, EndedLater, SMTT(60) DEF IInv, TypeOK
      <3> QED BY <2>3, <3>1 DEF Covers, Evt
    <2> HIDE DEF batch
    <2>7. Covered(mem', Range(io.batch)')
      <3> HIDE DEF exit
      <3> SUFFICES ASSUME NEW x \in Range(pendingRuntime) PROVE Covers(mem', x)
        BY <2>1, <2>5, <2>6 DEF Covered
      <3>1. x.kind = "OutputChanged" BY DEF KInv, Knowledge, RuntimeOnly
      <3> QED BY <3>1, RuntimeCovered
    <2>8. Behind(mem, mem')
      <3>1. Later(mem, mem') BY <2>1, EndedAnyLater DEF IInv, TypeOK
      <3> QED BY <3>1, LaterBehind DEF IInv, TypeOK
    <2>9. RuntimeOnly' BY <2>1, EmptyRange DEF RuntimeOnly
    <2>10. Writers' /\ UndoKnows'
      BY <2>1, <2>2 DEF Writers, UndoKnows, Undoing, Lifecycle
    <2> QED BY <2>1, <2>7, <2>8, <2>9, <2>10, BeginWriteStep
  <1> QED BY <1>1, <1>2

\* The exit is published after the batches queued before it: the generation that
\* was saved covers those too.
LEMMA FinishExitKeeps ==
  ASSUME KInv, IInv, IInv', FinishExit
  PROVE  KInv'
  <1> DEFINE queue == pendingDurable \o io.batch
  <1>1. /\ UNCHANGED <<mem, disk, journal>> /\ io' = NoIO /\ op' = NoOp
        /\ op.kind = "exit" /\ op.phase = "commit" /\ io.phase = "saved"
        /\ Settle(queue, <<>>, pendingRuntime, reservation, FALSE)
    BY DEF FinishExit, shells
  <1>2. /\ queue \in Seq(Event)
        /\ Range(queue) = Range(pendingDurable) \cup Range(io.batch)
    BY ConcatProperties, RangeConcatenation DEF IInv, TypeOK, IO
  <1> HIDE DEF queue
  <1>3. /\ Range(log)' \subseteq Range(log) \cup Range(queue) \cup Range(pendingRuntime)
        /\ Range(pendingRuntime)' \subseteq Range(pendingRuntime)
        /\ pendingDurable' = <<>>
    BY <1>1, <1>2, SettleRange DEF IInv, TypeOK
  <1>4. \A x \in Range(queue) : Durable(x)'
    <2>1. io.kind # "none" /\ io.kind # "journal"
      BY <1>1, CommitBusy DEF KInv, Writers
    <2>2. disk = io.gen /\ disk' = disk BY <1>1, <2>1 DEF KInv, Saved
    <2> QED BY <1>1, <1>2, <2>1, <2>2 DEF KInv, Knowledge, GenKnows, Covered, Durable
  <1>5. Range(queue) \in SUBSET Event BY <1>2, Ranges DEF IInv
  <1>6. /\ Covered(mem', Held) /\ Covered(mem', Range(pendingDurable)')
        /\ Covered(mem', Range(queue)) /\ Behind(disk, mem')
    BY <1>1, <1>2, <1>3, EmptyRange, MemCovers DEF Covered
  <1> QED BY <1>1, <1>3, <1>4, <1>5, <1>6, NoOpFields, EndWriteStep

\* The exit stays in the registry and joins the queue.
LEMMA ExitFailedKeeps ==
  ASSUME KInv, IInv, IInv', ExitFailed
  PROVE  KInv'
  <1> DEFINE queue == pendingDurable \o io.batch
  <1>1. /\ UNCHANGED <<mem, disk, journal>> /\ io' = NoIO /\ op' = NoOp
        /\ Settle(<<>>, queue, pendingRuntime, reservation, FALSE)
    BY DEF ExitFailed, shells
  <1>2. Range(queue) = Range(pendingDurable) \cup Range(io.batch)
    BY RangeConcatenation DEF IInv, TypeOK, IO
  <1> HIDE DEF queue
  <1>3. <<>> \in Seq(Event) /\ pendingRuntime \in Seq(Event) /\ log \in Seq(Event)
    BY DEF IInv, TypeOK
  <1>4. /\ Range(log)' \subseteq Range(log) \cup {} \cup Range(pendingRuntime)
        /\ Range(pendingRuntime)' \subseteq Range(pendingRuntime)
        /\ pendingDurable' = queue
    BY <1>1, <1>3, SettleRange, EmptyRange
  <1>5. /\ Covered(mem', Held) /\ Covered(mem', Range(pendingDurable)')
        /\ Covered(mem', {}) /\ Behind(disk, mem')
    BY <1>1, <1>2, <1>4, MemCovers DEF Covered
  <1> QED BY <1>1, <1>4, <1>5, NoOpFields, EndWriteStep

\* The compensation's events and the queue it joins, as sets.
LEMMA CompensationRange ==
  ASSUME TypeOK, NEW S \in SUBSET Shells, NEW m \in [Entities -> Record]
  PROVE  /\ Compensation(S, m) \in Seq(Event)
         /\ pendingDurable \o Compensation(S, m) \in Seq(Event)
         /\ Range(pendingDurable \o Compensation(S, m)) =
              Range(pendingDurable) \cup Range(pendingRuntime)
                \cup Range(RunEvents("RunExited", S, m))
  <1> DEFINE exited == RunEvents("RunExited", S, m)
             batch == pendingRuntime \o exited
  <1>1. exited \in Seq(Event) BY RunEventsType DEF DurableKinds
  <1> HIDE DEF exited
  <1>2. batch \in Seq(Event) /\ Range(batch) = Range(pendingRuntime) \cup Range(exited)
    BY <1>1, ConcatProperties, RangeConcatenation DEF TypeOK
  <1> HIDE DEF batch
  <1>3. /\ pendingDurable \o batch \in Seq(Event)
        /\ Range(pendingDurable \o batch) = Range(pendingDurable) \cup Range(batch)
    BY <1>2, ConcatProperties, RangeConcatenation DEF TypeOK
  <1>4. Compensation(S, m) = batch BY DEF Compensation, batch, exited
  <1> QED BY <1>2, <1>3, <1>4 DEF exited

\* An abort ends the runs it killed, whether or not the background retry is
\* writing an earlier generation meanwhile.
LEMMA AbortLifecycleKeeps ==
  ASSUME KInv, IInv, IInv', AbortLifecycle
  PROVE  KInv'
  <1>0. TypeOK BY DEF IInv
  <1> DEFINE killed == {s \in op.stopped : life[s] = "running"}
             exited == RunEvents("RunExited", killed, mem)
             queue == pendingDurable \o Compensation(killed, mem)
  <1>1. killed \in SUBSET Shells BY DEF IInv, TypeOK, Op
  <1>2. /\ op.phase = "abort" /\ mem' = Ended(mem, killed) /\ op' = NoOp
        /\ UNCHANGED <<disk, journal>>
        /\ Settle(<<>>, queue, <<>>, 0, InFlight)
        /\ io' = io \/ io' = Touched
    BY DEF AbortLifecycle
  <1>3. /\ io'.kind = io.kind /\ io'.phase = io.phase /\ io'.gen = io.gen
        /\ io'.batch = io.batch
    BY <1>0, <1>2 DEF Touched, TypeOK, IO
  <1>4. /\ Range(queue) = Range(pendingDurable) \cup Range(pendingRuntime) \cup Range(exited)
        /\ queue \in Seq(Event)
    BY <1>0, <1>1, CompensationRange DEF TypeOK
  <1>5. Later(mem, mem') /\ Covered(mem', Range(exited))
    BY <1>0, <1>1, <1>2, EndedLater DEF TypeOK
  <1> HIDE DEF queue, exited, killed
  <1>6. /\ Range(log)' \subseteq Range(log) /\ Range(pendingRuntime)' = {}
        /\ pendingDurable' = queue
    <2>1. <<>> \in Seq(Event) /\ log \in Seq(Event) BY <1>0 DEF TypeOK
    <2>2. /\ Range(log)' \subseteq Range(log) \cup Range(<<>>) \cup Range(<<>>)
          /\ Range(pendingRuntime)' \subseteq Range(<<>>) /\ pendingDurable' = queue
      BY <1>2, <2>1, SettleRange
    <2> QED BY <2>2, EmptyRange
  <1>7. Behind(mem, mem') BY <1>5, LaterBehind DEF IInv, TypeOK
  <1>8. /\ Covered(mem', Held) /\ Covered(mem', Range(io.batch))
        /\ Covered(mem', Range(pendingDurable)) /\ Behind(disk, mem')
    <2>1. /\ Held \in SUBSET Event /\ Range(io.batch) \in SUBSET Event
          /\ Range(pendingDurable) \in SUBSET Event
      BY <1>0, Ranges
    <2> QED BY <1>7, <2>1, MemCovers, BehindCovered, BehindChain
  <1>9. Covered(mem', Range(pendingRuntime))
    BY RuntimeCovered DEF KInv, Knowledge, RuntimeOnly, Covered
  <1>10. MemKnows'
    BY <1>2, <1>3, <1>4, <1>5, <1>6, <1>8, <1>9 DEF MemKnows, Covered, Held
  <1>11. op'.phase # "commit" /\ op.phase # "commit" BY <1>2, NoOpFields
  <1>12. GenKnows'
    <2>1. io.kind # "none" => Behind(io.gen, mem')
      BY <1>7, BehindChain DEF KInv, Knowledge, GenKnows
    <2> QED BY <1>2, <1>3, <1>6, <1>11, <2>1 DEF KInv, Knowledge, GenKnows, Covered
  <1>13. UndoKnows' /\ RuntimeOnly' BY <1>6, <1>11 DEF UndoKnows, RuntimeOnly
  <1>14. Writers' BY <1>11 DEF IInv, WriteShape, Writers
  <1>15. Saved' /\ Persisted'
    BY <1>2, <1>3, <1>6 DEF KInv, Saved, Persisted, Durable
  <1> QED BY <1>10, <1>12, <1>13, <1>14, <1>15 DEF KInv, Knowledge

\* The committed events of a lifecycle operation, as a set.
LEMMA CommittedEventsCovered ==
  ASSUME TypeOK, OpShape, op.kind \in Lifecycle, NEW m \in [Entities -> Record]
  PROVE  Covered(Removed(m), Range(CommittedEvents))
  <1>1. CASE op.kind = "shutdown"
    BY <1>1, EmptyRange DEF CommittedEvents, Covered
  <1>2. CASE op.kind = "closeWorkspace"
    <2>1. Range(CommittedEvents) = {Evt("Closed", Workspace, 0)}
      BY <1>2 DEF CommittedEvents, Range
    <2>2. Removed(m)[Workspace].status = "gone"
      BY <1>2 DEF Removed, Entities, Record
    <2> QED BY <2>1, <2>2 DEF Covered, Covers, Evt
  <1>3. CASE op.kind = "close"
    <2> DEFINE t == CHOOSE s \in op.targets : TRUE
    <2>1. t \in op.targets /\ t \in Entities BY <1>3 DEF OpShape, Entities
    <2>2. Range(CommittedEvents) = {Evt("Closed", t, 0)}
      <3>1. CommittedEvents = <<Evt("Closed", t, 0)>> BY <1>3 DEF CommittedEvents
      <3> HIDE DEF t
      <3> QED BY <3>1 DEF Range
    <2> HIDE DEF t
    <2>3. Removed(m)[t].status = "gone" BY <1>3, <2>1 DEF Removed, Record
    <2> QED BY <2>2, <2>3 DEF Covered, Covers, Evt
  <1> QED BY <1>1, <1>2, <1>3 DEF Lifecycle

\* A removal keeps the registry it would restore, in which the killed runs have
\* ended.
LEMMA ApplyLifecycleKeeps ==
  ASSUME KInv, IInv, IInv', ApplyLifecycle
  PROVE  KInv'
  <1> DEFINE killed == {s \in op.targets : life[s] = "running"}
             ended == Ended(mem, killed)
  <1>1. /\ mem' = Removed(ended) /\ op.kind \in Lifecycle /\ io.kind = "none"
        /\ op' = [op EXCEPT !.phase = "commit", !.stopped = killed, !.undo = ended,
                            !.undoLife = SetAll(life, killed, "pending")]
        /\ io'.kind = "commit" /\ io'.gen = mem' /\ io'.batch = CommittedEvents
        /\ io'.phase = "saving"
        /\ UNCHANGED <<disk, journal, log, pendingDurable, pendingRuntime>>
    BY DEF ApplyLifecycle, BeginWrite
  <1>2. op.phase = "apply" BY DEF ApplyLifecycle
  <1>3. killed \in SUBSET Shells BY <1>1, <1>2 DEF IInv, OpShape
  <1>4. /\ ended \in [Entities -> Record] /\ Later(mem, ended)
        /\ \A s \in killed : ended[s].run # "active"
    BY <1>3, EndedLater, RegistryTypes, ZenonT(90) DEF IInv, TypeOK
  <1> HIDE DEF killed, ended
  <1>5. Later(ended, mem') /\ Covered(mem', Range(io.batch)')
    BY <1>1, <1>4, RemovedLater, CommittedEventsCovered DEF IInv
  <1>6. Behind(mem, ended) /\ Behind(ended, mem')
    BY <1>4, <1>5, LaterBehind DEF IInv, TypeOK
  <1>7. Behind(mem, mem') BY <1>6, BehindChain
  <1>8. /\ op'.phase = "commit" /\ op'.kind = op.kind /\ op'.stopped = killed
        /\ op'.undo = ended
    BY <1>1 DEF IInv, TypeOK, Op
  <1>9. Covered(ended, Held) /\ Behind(disk, ended)
    <2>1. Held \in SUBSET Event BY Ranges DEF IInv
    <2> QED BY <1>6, <2>1, MemCovers, BehindCovered, BehindChain
  <1>10. UndoKnows' BY <1>1, <1>4, <1>8, <1>9 DEF UndoKnows, Held
  <1>11. Writers' BY <1>1, <1>8 DEF Writers, Undoing
  <1>12. RuntimeOnly' BY <1>1 DEF KInv, Knowledge, RuntimeOnly
  <1> QED BY <1>1, <1>5, <1>7, <1>10, <1>11, <1>12, BeginWriteStep

\* The rollback of a removal restores what was there and records the runs that
\* were killed, which the restored registry covers.
LEMMA LifecycleFailedKeeps ==
  ASSUME KInv, IInv, IInv', LifecycleFailed
  PROVE  KInv'
  <1>0. TypeOK BY DEF IInv
  <1> DEFINE exited == RunEvents("RunExited", op.stopped, op.undo)
             queue == pendingDurable \o Compensation(op.stopped, op.undo)
  <1>1. /\ mem' = op.undo /\ op' = NoOp /\ io' = NoIO /\ UNCHANGED <<disk, journal>>
        /\ op.kind \in Lifecycle /\ op.phase = "commit" /\ io.phase = "failed"
        /\ Settle(<<>>, queue, <<>>, 0, FALSE)
    BY DEF LifecycleFailed
  <1>2. op.stopped \in SUBSET Shells /\ op.undo \in [Entities -> Record]
    BY <1>0 DEF TypeOK, Op
  <1>3. /\ Range(queue) = Range(pendingDurable) \cup Range(pendingRuntime) \cup Range(exited)
        /\ queue \in Seq(Event)
    BY <1>0, <1>2, CompensationRange
  <1>4. /\ Covered(op.undo, Held) /\ Behind(disk, op.undo)
        /\ \A s \in op.stopped : op.undo[s].run # "active"
    BY <1>1 DEF KInv, Knowledge, UndoKnows, Undoing
  <1>5. Covered(op.undo, Range(exited)) BY <1>2, <1>4, EndedCovers
  <1> HIDE DEF queue, exited
  <1>6. /\ Range(log)' \subseteq Range(log) \cup {} \cup Range(pendingRuntime)
        /\ Range(pendingRuntime)' \subseteq Range(pendingRuntime)
        /\ pendingDurable' = queue
    <2>1. <<>> \in Seq(Event) /\ log \in Seq(Event) BY <1>0 DEF TypeOK
    <2>2. /\ Range(log)' \subseteq Range(log) \cup Range(<<>>) \cup Range(<<>>)
          /\ Range(pendingRuntime)' \subseteq Range(<<>>) /\ pendingDurable' = queue
      BY <1>1, <2>1, SettleRange
    <2> QED BY <2>2, EmptyRange
  <1>7. Covered(op.undo, Range(pendingRuntime))
    BY RuntimeCovered DEF KInv, Knowledge, RuntimeOnly, Covered
  <1>8. /\ Covered(mem', Held) /\ Covered(mem', Range(pendingDurable)')
        /\ Covered(mem', {}) /\ Behind(disk, mem')
    BY <1>1, <1>3, <1>4, <1>5, <1>6, <1>7 DEF Covered, Held
  <1> QED BY <1>1, <1>6, <1>8, NoOpFields, EndWriteStep

\* A restart begins with the registry it recovered and an empty stream.
LEMMA CrashKeeps ==
  ASSUME CrashAndRestore
  PROVE  KInv'
  <1>1. /\ mem' = disk' /\ journal' = {} /\ log' = <<>> /\ pendingDurable' = <<>>
        /\ pendingRuntime' = <<>> /\ op' = NoOp /\ io' = NoIO
    BY DEF CrashAndRestore
  <1>2. /\ Range(log)' = {} /\ Range(pendingDurable)' = {} /\ Range(pendingRuntime)' = {}
        /\ Range(io.batch)' = {} /\ io'.kind = "none" /\ op'.phase = "admit"
    BY <1>1, EmptyRange, NoOpFields
  <1>3. MemKnows' BY <1>1, <1>2 DEF MemKnows, Held, Covered, Behind
  <1>4. GenKnows' /\ UndoKnows' /\ RuntimeOnly' BY <1>2 DEF GenKnows, UndoKnows, RuntimeOnly
  <1>5. Writers' /\ Saved' /\ Persisted' BY <1>2 DEF Writers, Saved, Persisted
  <1> QED BY <1>3, <1>4, <1>5 DEF KInv, Knowledge

\* The coordinator starts with an empty stream and the registry of the file.
LEMMA InitKeeps == Init => KInv
  <1> SUFFICES ASSUME Init PROVE KInv OBVIOUS
  <1>1. /\ mem = disk /\ journal = {} /\ log = <<>> /\ pendingDurable = <<>>
        /\ pendingRuntime = <<>> /\ op = NoOp /\ io = NoIO
    BY DEF Init
  <1>2. /\ Range(log) = {} /\ Range(pendingDurable) = {} /\ Range(pendingRuntime) = {}
        /\ Range(io.batch) = {} /\ io.kind = "none" /\ op.phase = "admit"
    BY <1>1, EmptyRange, NoOpFields
  <1>3. MemKnows BY <1>1, <1>2 DEF MemKnows, Held, Covered, Behind
  <1>4. GenKnows /\ UndoKnows /\ RuntimeOnly BY <1>2 DEF GenKnows, UndoKnows, RuntimeOnly
  <1>5. Writers /\ Saved /\ Persisted BY <1>2 DEF Writers, Saved, Persisted
  <1> QED BY <1>3, <1>4, <1>5 DEF KInv, Knowledge

\* Every step of the writer keeps what is known.
LEMMA WritesKeep == KInv /\ IInv /\ IInv' /\ Writes => KInv'
  <1> SUFFICES ASSUME KInv, IInv, IInv', Writes PROVE KInv' OBVIOUS
  <1>1. BackgroundFlush => KInv'
    <2>1. BackgroundFlush => op.phase # "commit"
      BY CommitBusy DEF BackgroundFlush, BeginFlush
    <2> QED BY <2>1, BeginFlushKeeps DEF BackgroundFlush
  <1>2. SkipCheckpoint => KInv' BY PassingKeeps DEF Passing
  <1> QED BY <1>1, <1>2, SaveSucceedsKeeps, SaveFailsKeeps, FallbackResetFailsKeeps,
             AppendSucceedsKeeps, AppendFailsKeeps, OpFlushKeeps, FinishFlushKeeps,
             FlushFailedKeeps, WriteCheckpointKeeps, FinishCheckpointKeeps
          DEF Writes

\* Every step of an operation keeps what is known.
LEMMA OperationsKeep == KInv /\ IInv /\ IInv' /\ Operations => KInv'
  <1> SUFFICES ASSUME KInv, IInv, IInv', Operations PROVE KInv' OBVIOUS
  <1>1. Passing => KInv' BY PassingKeeps
  <1> QED BY <1>1, ApplyMutationKeeps, FinishedKeeps, RolledBackKeeps, ApplyStartKeeps,
             ApplyExitKeeps, ApplyRecoverKeeps, FinishExitKeeps, ExitFailedKeeps,
             AbortLifecycleKeeps, ApplyLifecycleKeeps, LifecycleFailedKeeps
          DEF Operations, Passing

\* The knowledge invariant is inductive.
LEMMA KnowledgeStep == KInv /\ IInv /\ IInv' /\ [Next]_vars => KInv'
  <1> SUFFICES ASSUME KInv, IInv, IInv', [Next]_vars PROVE KInv' OBVIOUS
  <1>1. CASE UNCHANGED vars
    BY <1>1, IdleStep DEF vars, IInv
  <1> QED BY <1>1, WritesKeep, RequestsKeep, OperationsKeep, RunsKeep, CrashKeeps DEF Next

\* What memory, the write in flight, a rollback, the file and the journal know of
\* each other holds in every state of every behaviour.
THEOREM Knowing == Spec => []KInv
  <1> QED BY InitKeeps, KnowledgeStep, Invariance, PTL DEF Spec

\* No event a client can read announces a transition that a crash would undo,
\* whatever rollbacks, retries, compensations, fallbacks and journal checkpoints
\* came before: append_batch only follows the write that made its events durable.
THEOREM PersistedBeforePublished == Spec => []PersistBeforePublish
  <1>1. IInv /\ KInv => PersistBeforePublish
    <2> SUFFICES ASSUME IInv, KInv, NEW i \in DOMAIN log PROVE Durable(log[i])
      BY DEF PersistBeforePublish
    <2>1. log[i] \in Range(log) BY DEF Range
    <2> QED BY <2>1 DEF KInv, Persisted
  <1> QED BY <1>1, Invariance, Knowing, PTL

-----------------------------------------------------------------------------
(* The inductive invariant of PublishedOnce.  An event is new when its     *)
(* operation makes it: the registry in memory does not cover it yet.       *)

\* A run that goes on has not ended in the registry.
Running == \A s \in Shells : life[s] = "running" => mem[s].run = "active"

\* A rollback brings back runs that go on in the registry it restores, and
\* touches no other Shell than those it started.
UndoRunning ==
  op.phase = "commit" =>
    /\ op.kind \in {"mutate", "local"} \cup Lifecycle =>
         \A s \in Shells : op.undoLife[s] = "running" => op.undo[s].run = "active"
    /\ op.kind = "recover" => \A s \in Shells \ op.targets : mem[s] = op.undo[s]

\* An admitted exit or removal is of something that still runs or lives.
TargetsLive ==
  /\ op.kind = "exit" => op.phase \in {"apply", "commit"}
  /\ op.kind = "exit" /\ op.phase = "apply" =>
       \A s \in op.targets \cap Shells : life[s] = "running"
  /\ op.kind = "closeWorkspace" /\ op.phase \in {"checkpoint", "admit"} =>
       Workspace \in op.targets
  /\ op.kind = "closeWorkspace" /\ op.phase \in {"stop", "flush", "apply"} =>
       Live(Workspace)
  /\ op.kind = "close" /\ op.phase \in {"stop", "flush", "apply"} =>
       \A s \in op.targets : Live(s)

\* The exits a rollback of a removal would announce are not announced yet.
ExitsNew ==
  op.kind \in Lifecycle /\ op.phase = "commit" =>
    \A s \in op.stopped :
      Evt("RunExited", s, op.undo[s].gen) \notin Range(log) \cup Range(pendingDurable)

LInv == Running /\ UndoRunning /\ TargetsLive /\ ExitsNew

\* No durable event is twice in a sequence, or in two sets.
Distinct(q) == \A i, j \in DOMAIN q : i # j /\ IsDurable(q[i]) => q[i] # q[j]
Apart(P, Q) == \A x \in P \cap Q : ~IsDurable(x)

Once ==
  /\ Distinct(log) /\ Distinct(pendingDurable) /\ Distinct(io.batch)
  /\ Apart(Range(log), Range(pendingDurable))
  /\ Apart(Range(log), Range(io.batch))
  /\ Apart(Range(pendingDurable), Range(io.batch))

-----------------------------------------------------------------------------
(* Sequences without repetition.                                           *)

\* Two sequences without durable repetition that share no durable event make one.
LEMMA ConcatDistinct ==
  ASSUME NEW p \in Seq(Event), NEW q \in Seq(Event), Distinct(p), Distinct(q),
         Apart(Range(p), Range(q))
  PROVE  Distinct(p \o q)
  <1> DEFINE both == p \o q
  <1>1. /\ Len(p) \in Nat /\ Len(q) \in Nat
        /\ both \in Seq(Event) /\ Len(both) = Len(p) + Len(q)
        /\ \A i \in 1..Len(both) : both[i] = IF i <= Len(p) THEN p[i] ELSE q[i - Len(p)]
    BY ConcatProperties
  <1>2. /\ DOMAIN p = 1..Len(p) /\ DOMAIN q = 1..Len(q) /\ DOMAIN both = 1..Len(both)
    BY <1>1
  <1>3. /\ \A i \in 1..Len(p) : p[i] \in Range(p)
        /\ \A i \in 1..Len(q) : q[i] \in Range(q)
    BY RangeEquality
  <1> HIDE DEF both
  <1> SUFFICES ASSUME NEW i \in 1..Len(both), NEW j \in 1..Len(both), i # j,
                      IsDurable(both[i]), both[i] = both[j]
               PROVE  FALSE
    BY <1>2 DEF Distinct, both
  <1>4. CASE i <= Len(p) /\ j <= Len(p)
    <2>1. i \in DOMAIN p /\ j \in DOMAIN p BY <1>1, <1>2, <1>4
    <2>2. both[i] = p[i] /\ both[j] = p[j] BY <1>1, <1>4
    <2> QED BY <2>1, <2>2 DEF Distinct
  <1>5. CASE i > Len(p) /\ j > Len(p)
    <2>1. i - Len(p) \in DOMAIN q /\ j - Len(p) \in DOMAIN q BY <1>1, <1>2, <1>5
    <2>2. both[i] = q[i - Len(p)] /\ both[j] = q[j - Len(p)] BY <1>1, <1>5
    <2>3. i - Len(p) # j - Len(p) BY <1>1
    <2> QED BY <2>1, <2>2, <2>3 DEF Distinct
  <1>6. ASSUME NEW a \in 1..Len(both), NEW b \in 1..Len(both), a <= Len(p), b > Len(p),
               both[a] = both[b], IsDurable(both[a])
        PROVE  FALSE
    <2>1. both[a] \in Range(p) BY <1>1, <1>3, <1>6
    <2>2. b - Len(p) \in 1..Len(q) /\ both[b] = q[b - Len(p)] BY <1>1, <1>6
    <2>3. both[b] \in Range(q) BY <1>3, <2>2
    <2> QED BY <1>6, <2>1, <2>3 DEF Apart
  <1>7. CASE i <= Len(p) /\ j > Len(p) BY <1>6, <1>7
  <1>8. CASE i > Len(p) /\ j <= Len(p)
    <2>1. both[j] = both[i] /\ IsDurable(both[j]) OBVIOUS
    <2> QED BY <1>6, <1>8, <2>1
  <1> QED BY <1>1, <1>4, <1>5, <1>7, <1>8

\* An event appended to a batch is the one event its range gains.
LEMMA RangeAppended ==
  ASSUME NEW p \in Seq(Event), NEW e \in Event
  PROVE  Range(p \o <<e>>) = Range(p) \cup {e}
<1>1. <<e>> \in Seq(Event) OBVIOUS
<1>2. Range(<<e>>) = {e} BY DEF Range
<1>3. Range(p \o <<e>>) = Range(p) \cup Range(<<e>>) BY <1>1, RangeConcatenation
<1> QED BY <1>2, <1>3

\* Runtime events are not durable: they repeat no durable event.
LEMMA RuntimeDistinct ==
  ASSUME NEW q \in Seq(Event), \A x \in Range(q) : x.kind = "OutputChanged"
  PROVE  /\ Distinct(q)
         /\ \A S : Apart(S, Range(q)) /\ Apart(Range(q), S)
  <1>1. \A x \in Range(q) : ~IsDurable(x) BY DEF IsDurable, DurableKinds
  <1>2. \A i \in DOMAIN q : q[i] \in Range(q) BY DEF Range
  <1> QED BY <1>1, <1>2 DEF Distinct, Apart

\* One event, or none, repeats nothing.
LEMMA ShortDistinct ==
  /\ Distinct(<<>>) /\ \A S : Apart(S, Range(<<>>)) /\ Apart(Range(<<>>), S)
  /\ \A x : Distinct(<<x>>)
  BY DEF Distinct, Apart, Range

\* RunEvents names every Shell once.
LEMMA RunEventsDistinct ==
  ASSUME NEW kind \in DurableKinds, NEW S \in SUBSET Shells,
         NEW m \in [Entities -> Record]
  PROVE  Distinct(RunEvents(kind, S, m))
  <1> DEFINE n == Cardinality(S)
  <1>1. IsFiniteSet(S) /\ n \in Nat BY FiniteSets DEF Entities
  <1>2. ExistsBijection(1..n, S) BY <1>1, FS_CardinalityType
  <1>3. PICK f \in [1..n -> S] : IsInjective(f)
    BY <1>2 DEF ExistsBijection, Bijection, Injection, Surjection, IsInjective
  <1>4. Listed(S) \in [1..n -> S] /\ IsInjective(Listed(S)) BY <1>3 DEF Listed
  <1>5. ASSUME NEW i \in 1..n, NEW j \in 1..n, i # j
        PROVE  RunEvents(kind, S, m)[i] # RunEvents(kind, S, m)[j]
    <2>1. Listed(S)[i] # Listed(S)[j] BY <1>4, <1>5 DEF IsInjective
    <2> QED BY <2>1 DEF RunEvents, Evt
  <1>6. DOMAIN RunEvents(kind, S, m) = 1..n BY DEF RunEvents
  <1> QED BY <1>5, <1>6 DEF Distinct

\* What the registry in memory does not cover is neither published, queued nor
\* being written.
LEMMA FreshApart ==
  ASSUME KInv, NEW S, \A x \in S : IsDurable(x) => ~Covers(mem, x)
  PROVE  /\ Apart(Range(log), S) /\ Apart(Range(pendingDurable), S)
         /\ Apart(Range(io.batch), S)
  BY DEF KInv, Knowledge, MemKnows, Covered, Held, Apart

\* A write ends, or an abort queues its compensation: the events move between
\* sequences that share none.
LEMMA SettleOnce ==
  ASSUME Once, TypeOK, NEW batch \in Seq(Event), NEW durable \in Seq(Event),
         NEW runtime \in Seq(Event), NEW held, NEW busy,
         Settle(batch, durable, runtime, held, busy),
         \A x \in Range(runtime) : x.kind = "OutputChanged",
         Distinct(batch), Distinct(durable), Distinct(io.batch)',
         Apart(Range(log), Range(batch)), Apart(Range(log), Range(durable)),
         Apart(Range(batch), Range(durable)),
         Apart(Range(log), Range(io.batch)'), Apart(Range(batch), Range(io.batch)'),
         Apart(Range(durable), Range(io.batch)')
  PROVE  Once'
  <1>0. log \in Seq(Event) BY DEF TypeOK
  <1> DEFINE first == log \o batch
  <1>1. first \in Seq(Event) /\ Range(first) = Range(log) \cup Range(batch)
    BY <1>0, ConcatProperties, RangeConcatenation
  <1>2. Distinct(first) BY <1>0, ConcatDistinct DEF Once
  <1> HIDE DEF first
  <1>3. Distinct(runtime) /\ \A S : Apart(S, Range(runtime)) /\ Apart(Range(runtime), S)
    BY RuntimeDistinct
  <1>4. Distinct(first \o runtime) BY <1>1, <1>2, <1>3, ConcatDistinct
  <1>5. Distinct(log') BY <1>2, <1>4 DEF Settle, first
  <1>6. /\ Range(log)' \subseteq Range(log) \cup Range(batch) \cup Range(runtime)
        /\ pendingDurable' = durable
    BY <1>0, SettleRange
  <1>7. /\ Apart(Range(log)', Range(pendingDurable)')
        /\ Apart(Range(log)', Range(io.batch)')
    BY <1>3, <1>6 DEF Apart
  <1> QED BY <1>5, <1>6, <1>7 DEF Once

-----------------------------------------------------------------------------
(* Runs, rollbacks and admitted targets.                                   *)

\* A step that changes neither the registry nor the operation, and announces no
\* exit while an operation commits.
LEMMA SameLives ==
  ASSUME LInv, UNCHANGED <<mem, life, op>>,
         op.phase = "commit" =>
           /\ Range(log)' \subseteq Range(log)
                 \cup {x \in Range(log)' : x.kind = "OutputChanged"}
           /\ Range(pendingDurable)' \subseteq Range(pendingDurable)
  PROVE  LInv'
  <1>1. Running' BY DEF LInv, Running
  <1>2. UndoRunning' /\ TargetsLive' BY DEF LInv, UndoRunning, TargetsLive, Live
  <1>3. ExitsNew' BY DEF LInv, ExitsNew, Evt
  <1> QED BY <1>1, <1>2, <1>3 DEF LInv

\* An operation that ends leaves runs to be consistent, and nothing else.
LEMMA DoneLives ==
  ASSUME op' = NoOp, Running'
  PROVE  LInv'
  BY NoOpFields DEF LInv, UndoRunning, TargetsLive, ExitsNew, Lifecycle

\* An operation that goes on to its next phase keeps the targets it admitted.
LEMMA MoveLives ==
  ASSUME LInv, UNCHANGED <<mem, life>>, op'.kind = op.kind, op'.targets = op.targets,
         op.kind # "exit", op'.phase # "commit",
         \/ op'.phase \in {"abort", "observe"} \/ op.kind \notin Lifecycle
         \/ (op.phase = "checkpoint" /\ op'.phase = "admit")
         \/ (op.phase \in {"stop", "flush", "apply"}
                /\ op'.phase \in {"stop", "flush", "apply"})
  PROVE  LInv'
  <1>1. Running' BY DEF LInv, Running
  <1>2. UndoRunning' /\ ExitsNew' BY DEF UndoRunning, ExitsNew
  <1>3. TargetsLive' BY DEF LInv, TargetsLive, Live, Lifecycle
  <1> QED BY <1>1, <1>2, <1>3 DEF LInv

\* After its own flush an operation applies or observes.
LEMMA FlushedLives ==
  ASSUME LInv, IInv, UNCHANGED <<mem, life>>, op.phase = "flush",
         op' = [op EXCEPT !.phase = AfterFlush]
  PROVE  LInv'
  <1>1. op \in Op BY DEF IInv, TypeOK
  <1>2. /\ op'.kind = op.kind /\ op'.targets = op.targets
        /\ op'.phase \in {"observe", "apply"}
    BY <1>1 DEF Op, AfterFlush
  <1>3. op.kind # "exit" BY DEF LInv, TargetsLive
  <1> QED BY <1>2, <1>3, MoveLives

\* The writer's steps end operations or let them go on.
LEMMA WritesLives ==
  ASSUME LInv, IInv, Writes
  PROVE  LInv'
  <1>0. op \in Op /\ io \in IO BY DEF IInv, TypeOK
  <1>r. UNCHANGED <<mem, life>> => Running' BY DEF LInv, Running
  <1>1. CASE SaveSucceeds \/ SaveFails \/ FallbackResetFails \/ AppendSucceeds
               \/ AppendFails \/ WriteCheckpoint
    <2>1. UNCHANGED <<mem, life, op, log, pendingDurable>>
      BY <1>1 DEF SaveSucceeds, SaveFails, FallbackResetFails, AppendSucceeds,
           AppendFails, WriteCheckpoint, shells, stream
    <2> QED BY <2>1, SameLives
  <1>2. CASE BackgroundFlush
    <2>1. UNCHANGED <<mem, life, op>> /\ op.phase # "commit"
      BY <1>2, CommitBusy DEF BackgroundFlush, BeginFlush, shells
    <2> QED BY <2>1, SameLives
  <1>3. CASE OpFlush
    <2>1. CASE pendingDurable # <<>> \/ dirty
      <3>1. UNCHANGED <<mem, life, op>> /\ op.phase # "commit"
        BY <1>3, <2>1 DEF OpFlush, BeginFlush, shells
      <3> QED BY <3>1, SameLives
    <2>2. CASE ~(pendingDurable # <<>> \/ dirty)
      <3>1. /\ UNCHANGED <<mem, life>> /\ op' = [op EXCEPT !.phase = AfterFlush]
            /\ op.phase = "flush"
        BY <1>3, <2>2 DEF OpFlush, shells
      <3> QED BY <1>0, <3>1, FlushedLives
    <2> QED BY <2>1, <2>2
  <1>4. CASE FinishFlush
    <2>1. UNCHANGED <<mem, life>> /\ io.kind = "flush" BY <1>4 DEF FinishFlush, shells
    <2>2. CASE io.background
      BY <1>4, <2>1, <2>2, CommitBusy, SameLives DEF FinishFlush
    <2>3. CASE ~io.background
      <3>1. op' = [op EXCEPT !.phase = AfterFlush] BY <1>4, <2>3 DEF FinishFlush
      <3>2. op.phase = "flush" BY <2>1, <2>3 DEF IInv, WriteShape
      <3> QED BY <2>1, <3>1, <3>2, FlushedLives
    <2> QED BY <2>2, <2>3
  <1>5. CASE FlushFailed
    <2>1. UNCHANGED <<mem, life>> /\ io.kind = "flush" BY <1>5 DEF FlushFailed, shells
    <2>2. CASE io.background
      BY <1>5, <2>1, <2>2, CommitBusy, SameLives DEF FlushFailed
    <2>3. CASE op' = NoOp
      BY <1>r, <2>1, <2>3, DoneLives
    <2>4. CASE ~io.background /\ op' # NoOp
      <3>1. op' = [op EXCEPT !.phase = "abort"] /\ op.kind \in Lifecycle
        BY <1>5, <2>4 DEF FlushFailed
      <3>2. /\ op'.kind = op.kind /\ op'.targets = op.targets /\ op'.phase = "abort"
        BY <1>0, <3>1 DEF Op
      <3> QED BY <2>1, <3>1, <3>2, MoveLives DEF Lifecycle
    <2> QED BY <2>2, <2>3, <2>4
  <1>6. CASE SkipCheckpoint \/ FinishCheckpoint \/ CheckpointFailed
    <2>1. /\ UNCHANGED <<mem, life>>
          /\ op' = NoOp \/ op' = [op EXCEPT !.phase = "admit"]
      BY <1>6 DEF SkipCheckpoint, FinishCheckpoint, CheckpointFailed, shells
    <2>2. op.phase = "checkpoint"
      BY <1>6 DEF SkipCheckpoint, FinishCheckpoint, CheckpointFailed, IInv, WriteShape
    <2>3. CASE op' = NoOp
      BY <1>r, <2>1, <2>3, DoneLives
    <2>4. CASE op' = [op EXCEPT !.phase = "admit"]
      <3>1. /\ op'.kind = op.kind /\ op'.targets = op.targets /\ op'.phase = "admit"
        BY <1>0, <2>4 DEF Op
      <3>2. op.kind # "exit" BY <2>2 DEF LInv, TargetsLive
      <3> QED BY <2>1, <2>2, <3>1, <3>2, MoveLives
    <2> QED BY <2>1, <2>3, <2>4
  <1> QED BY <1>1, <1>2, <1>3, <1>4, <1>5, <1>6 DEF Writes

\* An operation that begins has nothing to roll back; a start forgets the exited
\* run.
LEMMA RequestsLives ==
  ASSUME LInv, IInv, Requests
  PROVE  LInv'
  <1>1. ASSUME NEW kind, NEW phase, NEW targets, Begin(kind, phase, targets), Running',
               phase \in {"checkpoint", "flush"}, kind # "exit",
               kind \in {"close", "closeWorkspace"} => phase = "checkpoint",
               kind = "closeWorkspace" => Workspace \in targets
        PROVE  LInv'
    <2>1. op'.kind = kind /\ op'.phase = phase /\ op'.targets = targets
      BY <1>1 DEF Begin, NoOp
    <2>2. UndoRunning' /\ ExitsNew' BY <1>1, <2>1 DEF UndoRunning, ExitsNew
    <2>3. TargetsLive' BY <1>1, <2>1 DEF TargetsLive
    <2> QED BY <1>1, <2>2, <2>3 DEF LInv
  <1>2. Quiet => Running' BY DEF Quiet, shells, LInv, Running
  <1>3. ASSUME NEW s \in Shells, BeginStart(s)
        PROVE  LInv'
    <2>1. mem' = mem /\ life' = [life EXCEPT ![s] = "pending"]
      BY <1>3 DEF BeginStart
    <2>2. Running' BY <2>1 DEF LInv, Running, IInv, TypeOK
    <2> QED BY <1>1, <1>3, <2>2 DEF BeginStart
  <1>4. ASSUME NEW s \in Shells, RestartShell(s)
        PROVE  LInv'
    <2>1. /\ UNCHANGED <<mem, op>> /\ life' = [life EXCEPT ![s] = "pending"]
          /\ op.kind = "none"
      BY <1>4 DEF RestartShell
    <2>2. Running' BY <2>1 DEF LInv, Running, IInv, TypeOK
    <2>3. UndoRunning' /\ TargetsLive' /\ ExitsNew'
      BY <2>1 DEF UndoRunning, TargetsLive, ExitsNew, Lifecycle
    <2> QED BY <2>2, <2>3 DEF LInv
  <1>5. CASE \E e \in Entities : BeginMutation(e)
    BY <1>1, <1>2, <1>5 DEF BeginMutation
  <1>6. CASE \E s \in Shells : BeginLocalCreate(s) \/ BeginClose(s)
    BY <1>1, <1>2, <1>6 DEF BeginLocalCreate, BeginClose
  <1>7. CASE \E S \in SUBSET Shells : S # {} /\ BeginRecover(S)
    BY <1>1, <1>2, <1>7 DEF BeginRecover
  <1>8. CASE BeginCloseWorkspace \/ BeginShutdown \/ BeginBaseline \/ BeginCheckpoint
    BY <1>1, <1>2, <1>8
    DEF BeginCloseWorkspace, BeginShutdown, BeginBaseline, BeginCheckpoint
  <1> QED BY <1>3, <1>4, <1>5, <1>6, <1>7, <1>8 DEF Requests

\* An exit is admitted only for the run that goes on.
LEMMA RunsLives ==
  ASSUME LInv, IInv, Runs
  PROVE  LInv'
  <1>1. ASSUME NEW s \in Shells, PublishOutput(s)
        PROVE  LInv'
    <2> DEFINE e == Evt("OutputChanged", s, mem[s].gen)
    <2>1. UNCHANGED <<mem, life, op, pendingDurable>>
      BY <1>1 DEF PublishOutput, shells
    <2>2. e \in Event /\ e.kind = "OutputChanged"
      <3>1. mem[s].gen \in Nat BY DEF IInv, TypeOK, Record, Entities
      <3> QED BY <3>1 DEF Evt, Event, Entities
    <2>3. log' = log \/ log' = Append(log, e) BY <1>1 DEF PublishOutput
    <2> HIDE DEF e
    <2>4. Range(log)' \subseteq Range(log) \cup {e}
      BY <2>2, <2>3, AppendRange, ZenonT(90) DEF IInv, TypeOK
    <2> QED BY <2>1, <2>2, <2>4, SameLives
  <1>2. ASSUME NEW s \in Shells, OutputRefused(s) \/ CheckpointHistory(s) \/ ProcessExits(s)
        PROVE  LInv'
    <2>1. UNCHANGED <<mem, life, op, log, pendingDurable>>
      BY <1>2 DEF OutputRefused, CheckpointHistory, ProcessExits, shells, stream
    <2> QED BY <2>1, SameLives
  <1>3. ASSUME NEW x \in exits, BeginExit(x[1], x[2])
        PROVE  LInv'
    <2>1. UNCHANGED <<mem, life, log, pendingDurable>> BY <1>3 DEF BeginExit, stream
    <2>2. CASE op' = op
      BY <2>1, <2>2, SameLives
    <2>3. CASE op' # op
      <3>1. Begin("exit", "apply", {x[1]}) /\ life[x[1]] = "running"
        BY <1>3, <2>3 DEF BeginExit, Current
      <3>2. op'.kind = "exit" /\ op'.phase = "apply" /\ op'.targets = {x[1]}
        BY <3>1 DEF Begin, NoOp
      <3>3. Running' BY <2>1 DEF LInv, Running
      <3>4. UndoRunning' /\ TargetsLive' /\ ExitsNew'
        BY <2>1, <3>1, <3>2 DEF UndoRunning, TargetsLive, ExitsNew, Lifecycle
      <3> QED BY <3>3, <3>4 DEF LInv
    <2> QED BY <2>2, <2>3
  <1> QED BY <1>1, <1>2, <1>3 DEF Runs

\* Refusals, admissions and stops: a removal admits what it found alive.
LEMMA PassingLives ==
  ASSUME LInv, IInv, Passing
  PROVE  LInv'
  <1>0. op \in Op BY DEF IInv, TypeOK
  <1>r. UNCHANGED <<mem, life>> => Running' BY DEF LInv, Running
  <1>1. CASE SkipCheckpoint
    BY <1>1, WritesLives DEF Writes
  <1>2. CASE ObserveBaseline \/ StartRefused
    BY <1>r, <1>2, DoneLives DEF ObserveBaseline, StartRefused, Quiet, shells
  <1>3. CASE AdmitMutation
    <2>1. /\ UNCHANGED <<mem, life>> /\ op.kind \in {"mutate", "recover"}
          /\ op' = NoOp \/ op' = [op EXCEPT !.phase = "flush"]
      BY <1>3 DEF AdmitMutation, Quiet, shells
    <2>2. CASE op' = NoOp BY <1>r, <2>1, <2>2, DoneLives
    <2>3. CASE op' = [op EXCEPT !.phase = "flush"]
      <3>1. op'.kind = op.kind /\ op'.targets = op.targets /\ op'.phase = "flush"
        BY <1>0, <2>3 DEF Op
      <3> QED BY <2>1, <3>1, MoveLives DEF Lifecycle
    <2> QED BY <2>1, <2>2, <2>3
  <1>4. CASE AllStopped
    <2>1. /\ UNCHANGED <<mem, life>> /\ op.phase = "stop"
          /\ op' = [op EXCEPT !.phase = "flush"]
      BY <1>4 DEF AllStopped, Quiet, shells
    <2>2. op'.kind = op.kind /\ op'.targets = op.targets /\ op'.phase = "flush"
      BY <1>0, <2>1 DEF Op
    <2>3. op.kind # "exit" BY <2>1 DEF LInv, TargetsLive
    <2> QED BY <2>1, <2>2, <2>3, MoveLives
  <1>5. CASE \E s \in Shells : StopRuntime(s) \/ StopFails(s)
    <2>1. PICK s \in Shells : StopRuntime(s) \/ StopFails(s) BY <1>5
    <2>2. /\ UNCHANGED <<mem, life>> /\ op.phase = "stop"
          /\ op'.kind = op.kind /\ op'.targets = op.targets
          /\ op'.phase \in {"stop", "abort"}
      BY <1>0, <2>1 DEF StopRuntime, StopFails, Op
    <2>3. op.kind # "exit" BY <2>2 DEF LInv, TargetsLive
    <2> QED BY <2>2, <2>3, MoveLives
  <1>6. CASE AdmitLifecycle
    <2>1. /\ UNCHANGED <<mem, life>> /\ op.kind \in Lifecycle /\ op.phase = "admit"
          /\ op' = NoOp
               \/ (Selectable /\ op' = [op EXCEPT !.phase = "stop", !.targets = Selected])
      BY <1>6 DEF AdmitLifecycle, shells
    <2>2. CASE op' = NoOp BY <1>r, <2>1, <2>2, DoneLives
    <2>3. CASE Selectable /\ op' = [op EXCEPT !.phase = "stop", !.targets = Selected]
      <3>1. op'.kind = op.kind /\ op'.targets = Selected /\ op'.phase = "stop"
        BY <1>0, <2>3 DEF Op
      <3>2. \A e \in op.targets : Live(e) BY <2>3 DEF Selectable
      <3>3. op.kind = "close" => Selected = op.targets BY DEF Selected
      <3>4. TargetsLive'
        BY <2>1, <3>1, <3>2, <3>3 DEF LInv, TargetsLive, Live, Lifecycle
      <3>5. UndoRunning' /\ ExitsNew' BY <3>1 DEF UndoRunning, ExitsNew
      <3> QED BY <1>r, <2>1, <3>4, <3>5 DEF LInv
    <2> QED BY <2>1, <2>2, <2>3
  <1> QED BY <1>1, <1>2, <1>3, <1>4, <1>5, <1>6 DEF Passing

\* An operation that ends leaves the registry and the runs, or restores both.
LEMMA EndedLives ==
  ASSUME LInv, IInv,
         \/ FinishMutation \/ FinishStart \/ FinishExit \/ ExitFailed \/ FinishLifecycle
         \/ MutationFailed \/ LifecycleFailed \/ StartFailed \/ AbortLifecycle
  PROVE  LInv'
  <1>0. TypeOK BY DEF IInv
  <1>1. CASE FinishMutation \/ FinishStart \/ FinishExit \/ ExitFailed \/ FinishLifecycle
    <2>1. UNCHANGED <<mem, life>> /\ op' = NoOp
      BY <1>1 DEF FinishMutation, FinishStart, FinishExit, ExitFailed, FinishLifecycle, shells
    <2>2. Running' BY <2>1 DEF LInv, Running
    <2> QED BY <2>1, <2>2, DoneLives
  <1>2. CASE MutationFailed \/ LifecycleFailed
    <2>1. /\ mem' = op.undo /\ life' = op.undoLife /\ op' = NoOp /\ op.phase = "commit"
          /\ op.kind \in {"mutate", "local"} \cup Lifecycle
      BY <1>2 DEF MutationFailed, LifecycleFailed
    <2>2. Running' BY <2>1 DEF LInv, UndoRunning, Running
    <2> QED BY <2>1, <2>2, DoneLives
  <1>3. CASE StartFailed
    <2>1. /\ op.kind \in {"start", "recover"} /\ op.phase = "commit" /\ op' = NoOp
          /\ mem' = IF op.kind = "start" THEN Ended(mem, op.targets) ELSE op.undo
          /\ life' = SetAll(life, op.targets, "pending")
      BY <1>3 DEF StartFailed
    <2>2. ASSUME NEW s \in Shells, life'[s] = "running"
          PROVE  mem'[s].run = "active"
      <3>1. s \notin op.targets /\ life[s] = "running" /\ s \in Entities
        BY <2>1, <2>2 DEF SetAll, Entities
      <3>2. mem'[s] = mem[s]
        BY <2>1, <3>1 DEF Ended, LInv, UndoRunning
      <3> QED BY <3>1, <3>2 DEF LInv, Running
    <2>3. Running' BY <2>2 DEF Running
    <2> QED BY <2>1, <2>3, DoneLives
  <1>4. CASE AbortLifecycle
    <2> DEFINE killed == {s \in op.stopped : life[s] = "running"}
    <2>1. /\ mem' = Ended(mem, killed) /\ life' = SetAll(life, killed, "pending")
          /\ op' = NoOp
      BY <1>4 DEF AbortLifecycle
    <2> HIDE DEF killed
    <2>2. ASSUME NEW s \in Shells, life'[s] = "running"
          PROVE  mem'[s].run = "active"
      <3>1. s \notin killed /\ life[s] = "running" /\ s \in Entities
        BY <2>1, <2>2 DEF SetAll, Entities
      <3>2. mem'[s] = mem[s] BY <2>1, <3>1 DEF Ended
      <3> QED BY <3>1, <3>2 DEF LInv, Running
    <2>3. Running' BY <2>2 DEF Running
    <2> QED BY <2>1, <2>3, DoneLives
  <1> QED BY <1>1, <1>2, <1>3, <1>4

\* A creation or rename leaves every run.
LEMMA ApplyMutationLives ==
  ASSUME LInv, IInv, NEW e \in Entities, ApplyMutation(e)
  PROVE  LInv'
  <1>0. op \in Op /\ mem \in [Entities -> Record] /\ life \in [Shells -> Lifecycles]
    BY DEF IInv, TypeOK
  <1>1. CASE op' = NoOp /\ UNCHANGED <<mem, life, io>>
    <2>1. Running' BY <1>1 DEF LInv, Running
    <2> QED BY <1>1, <2>1, DoneLives
  <1>2. ASSUME op' # NoOp \/ ~UNCHANGED <<mem, life, io>>
        PROVE  LInv'
    <2>1. /\ mem' = Mutated(e) /\ op.kind \in {"mutate", "local"}
          /\ op' = [op EXCEPT !.phase = "commit", !.undo = mem, !.undoLife = life]
          /\ life' = IF Creates(e) THEN [life EXCEPT ![e] = "pending"] ELSE life
      BY <1>2 DEF ApplyMutation
    <2>2. /\ op'.kind = op.kind /\ op'.phase = "commit" /\ op'.undo = mem
          /\ op'.undoLife = life
      BY <1>0, <2>1 DEF Op
    <2>3. ASSUME NEW s \in Shells PROVE mem'[s].run = mem[s].run
      BY <1>0, <2>1 DEF Mutated, Entities, Record
    <2>4. ASSUME NEW s \in Shells, life'[s] = "running" PROVE life[s] = "running"
      BY <1>0, <2>1, <2>4
    <2>5. Running' BY <2>3, <2>4 DEF LInv, Running
    <2>6. UndoRunning' BY <2>1, <2>2 DEF LInv, Running, UndoRunning
    <2>7. TargetsLive' /\ ExitsNew'
      BY <2>1, <2>2 DEF TargetsLive, ExitsNew, Lifecycle
    <2> QED BY <2>5, <2>6, <2>7 DEF LInv
  <1> QED BY <1>1, <1>2

\* A start makes the run go on in the registry too, and leaves the others.
LEMMA ApplyStartLives ==
  ASSUME LInv, IInv, NEW s \in Shells, ApplyStart(s)
  PROVE  LInv'
  <1>0. op \in Op /\ mem \in [Entities -> Record] /\ life \in [Shells -> Lifecycles]
    BY DEF IInv, TypeOK
  <1>1. /\ mem' = Started({s}) /\ op' = [op EXCEPT !.phase = "commit"]
        /\ life' = [life EXCEPT ![s] = "running"] /\ op.kind = "start"
    BY DEF ApplyStart
  <1>2. op'.kind = "start" /\ op'.phase = "commit" BY <1>0, <1>1 DEF Op
  <1>3. ASSUME NEW t \in Shells, life'[t] = "running"
        PROVE  mem'[t].run = "active"
    <2>1. t \in Entities /\ s \in Entities BY DEF Entities
    <2>2. CASE t = s
      <3>1. mem'[s] = [mem[s] EXCEPT !.gen = @ + 1, !.run = "active"]
        BY <1>1, <2>1 DEF Started
      <3> QED BY <1>0, <2>1, <2>2, <3>1 DEF Record
    <2>3. CASE t # s
      <3>1. mem'[t] = mem[t] /\ life[t] = "running"
        BY <1>0, <1>1, <1>3, <2>1, <2>3 DEF Started
      <3> QED BY <3>1 DEF LInv, Running
    <2> QED BY <2>2, <2>3
  <1>4. Running' BY <1>3 DEF Running
  <1>5. UndoRunning' /\ TargetsLive' /\ ExitsNew'
    BY <1>2 DEF UndoRunning, TargetsLive, ExitsNew, Lifecycle
  <1> QED BY <1>4, <1>5 DEF LInv

\* A recovery starts only the Shells it would roll back.
LEMMA ApplyRecoverLives ==
  ASSUME LInv, IInv, NEW S \in SUBSET Shells, ApplyRecover(S)
  PROVE  LInv'
  <1>0. op \in Op /\ mem \in [Entities -> Record] /\ life \in [Shells -> Lifecycles]
    BY DEF IInv, TypeOK
  <1>1. CASE op' = NoOp /\ UNCHANGED <<mem, life, reader, io>>
    <2>1. Running' BY <1>1 DEF LInv, Running
    <2> QED BY <1>1, <2>1, DoneLives
  <1>2. ASSUME op' # NoOp \/ ~UNCHANGED <<mem, life, reader, io>>
        PROVE  LInv'
    <2>1. /\ mem' = Started(S) /\ op.kind = "recover"
          /\ op' = [op EXCEPT !.phase = "commit", !.targets = S, !.undo = mem]
          /\ life' = SetAll(life, S, "running")
      BY <1>2 DEF ApplyRecover
    <2>2. /\ op'.kind = "recover" /\ op'.phase = "commit" /\ op'.targets = S
          /\ op'.undo = mem
      BY <1>0, <2>1 DEF Op
    <2>3. ASSUME NEW t \in Shells, t \notin S
          PROVE  mem'[t] = mem[t] /\ life'[t] = life[t]
      BY <2>1, <2>3 DEF Started, SetAll, Entities
    <2>4. ASSUME NEW t \in Shells, life'[t] = "running"
          PROVE  mem'[t].run = "active"
      <3>1. CASE t \in S
        <4>1. t \in Entities BY DEF Entities
        <4>2. mem'[t] = [mem[t] EXCEPT !.gen = @ + 1, !.run = "active"]
          BY <2>1, <3>1, <4>1 DEF Started
        <4> QED BY <1>0, <4>1, <4>2 DEF Record
      <3>2. CASE t \notin S
        BY <2>3, <2>4, <3>2 DEF LInv, Running
      <3> QED BY <3>1, <3>2
    <2>5. Running' BY <2>4 DEF Running
    <2>6. UndoRunning' BY <2>2, <2>3 DEF UndoRunning, Lifecycle
    <2>7. TargetsLive' /\ ExitsNew' BY <2>2 DEF TargetsLive, ExitsNew, Lifecycle
    <2> QED BY <2>5, <2>6, <2>7 DEF LInv
  <1> QED BY <1>1, <1>2

\* A recorded exit ends the run for everyone.
LEMMA ApplyExitLives ==
  ASSUME LInv, IInv, NEW s \in Shells, ApplyExit(s)
  PROVE  LInv'
  <1>0. op \in Op /\ mem \in [Entities -> Record] /\ life \in [Shells -> Lifecycles]
    BY DEF IInv, TypeOK
  <1>1. CASE op' = NoOp /\ UNCHANGED <<mem, life, pendingRuntime, io>>
    <2>1. Running' BY <1>1 DEF LInv, Running
    <2> QED BY <1>1, <2>1, DoneLives
  <1>2. ASSUME op' # NoOp \/ ~UNCHANGED <<mem, life, pendingRuntime, io>>
        PROVE  LInv'
    <2>1. /\ mem' = Ended(mem, {s}) /\ op' = [op EXCEPT !.phase = "commit"]
          /\ life' = [life EXCEPT ![s] = "exited"] /\ op.kind = "exit"
      BY <1>2 DEF ApplyExit
    <2>2. op'.kind = "exit" /\ op'.phase = "commit" BY <1>0, <2>1 DEF Op
    <2>3. ASSUME NEW t \in Shells, life'[t] = "running"
          PROVE  mem'[t].run = "active"
      <3>1. t # s /\ life[t] = "running" /\ t \in Entities
        BY <1>0, <2>1, <2>3 DEF Entities
      <3>2. mem'[t] = mem[t] BY <2>1, <3>1 DEF Ended
      <3> QED BY <3>1, <3>2 DEF LInv, Running
    <2>4. Running' BY <2>3 DEF Running
    <2>5. UndoRunning' /\ TargetsLive' /\ ExitsNew'
      BY <2>2 DEF UndoRunning, TargetsLive, ExitsNew, Lifecycle
    <2> QED BY <2>4, <2>5 DEF LInv
  <1> QED BY <1>1, <1>2

\* A removal closes its targets; the runs it killed had not been announced as ended.
LEMMA ApplyLifecycleLives ==
  ASSUME LInv, KInv, IInv, ApplyLifecycle
  PROVE  LInv'
  <1>0. op \in Op /\ mem \in [Entities -> Record] /\ life \in [Shells -> Lifecycles]
    BY DEF IInv, TypeOK
  <1> DEFINE killed == {s \in op.targets : life[s] = "running"}
             ended == Ended(mem, killed)
  <1>1. /\ mem' = Removed(ended) /\ op.kind \in Lifecycle
        /\ op' = [op EXCEPT !.phase = "commit", !.stopped = killed, !.undo = ended,
                            !.undoLife = SetAll(life, killed, "pending")]
        /\ life' = SetAll(life, op.targets, "closed")
        /\ UNCHANGED <<log, pendingDurable>>
    BY DEF ApplyLifecycle
  <1>2. op.phase = "apply" BY DEF ApplyLifecycle
  <1>3. killed \in SUBSET Shells BY <1>1, <1>2 DEF IInv, OpShape
  <1>4. \A s \in killed : s \in op.targets /\ life[s] = "running" OBVIOUS
  <1>5. \A s \in op.targets : life[s] = "running" => s \in killed OBVIOUS
  <1>6. /\ op'.kind = op.kind /\ op'.phase = "commit" /\ op'.undo = ended
        /\ op'.stopped = killed /\ op'.undoLife = SetAll(life, killed, "pending")
    BY <1>0, <1>1 DEF Op
  <1> HIDE DEF killed
  <1>7. ASSUME NEW s \in Shells, s \notin killed
        PROVE  ended[s] = mem[s]
    BY <1>7 DEF Ended, Entities
  <1>8. ASSUME NEW s \in Shells, life[s] = "running", s \notin killed
        PROVE  ended[s].run = "active"
    BY <1>7, <1>8 DEF LInv, Running
  <1>9. ended \in [Entities -> Record] BY <1>0, RegistryTypes
  <1>10. Running'
    <2> SUFFICES ASSUME NEW s \in Shells, life'[s] = "running"
                 PROVE  mem'[s].run = "active"
      BY DEF Running
    <2>1. s \notin op.targets /\ life[s] = "running" BY <1>1 DEF SetAll
    <2>2. s \notin killed BY <1>4, <2>1
    <2>3. ended[s].run = "active" BY <1>8, <2>1, <2>2
    <2> HIDE DEF ended
    <2>4. Removed(ended)[s].run = ended[s].run
      BY <1>9 DEF Removed, Entities, Record
    <2> QED BY <1>1, <2>3, <2>4
  <1>11. UndoRunning'
    <2>1. ASSUME NEW s \in Shells, SetAll(life, killed, "pending")[s] = "running"
          PROVE  ended[s].run = "active"
      <3>1. s \notin killed /\ life[s] = "running" BY <2>1 DEF SetAll
      <3> QED BY <1>8, <3>1
    <2> HIDE DEF ended
    <2> QED BY <1>1, <1>6, <2>1 DEF UndoRunning, Lifecycle
  <1>12. ExitsNew'
    <2>1. ASSUME NEW s \in killed
          PROVE  Evt("RunExited", s, ended[s].gen) \notin Range(log) \cup Range(pendingDurable)
      <3>1. s \in Shells /\ s \in Entities BY <1>3 DEF Entities
      <3>2. mem[s].run = "active" /\ mem[s].gen \in Nat
        BY <1>0, <1>4, <3>1 DEF LInv, Running, Record
      <3>3. ended[s].gen = mem[s].gen
        BY <1>0, <1>3, EndedLater
      <3>4. ~Covers(mem, Evt("RunExited", s, ended[s].gen))
        BY <3>2, <3>3 DEF Covers, Evt
      <3> QED BY <3>4 DEF KInv, Knowledge, MemKnows, Covered, Held
    <2> HIDE DEF ended
    <2> QED BY <1>1, <1>6, <2>1 DEF ExitsNew
  <1>13. TargetsLive' BY <1>1, <1>6 DEF TargetsLive, Lifecycle
  <1> QED BY <1>10, <1>11, <1>12, <1>13 DEF LInv

\* A restart runs nothing.
LEMMA CrashLives ==
  ASSUME CrashAndRestore
  PROVE  LInv'
  <1>1. op' = NoOp BY DEF CrashAndRestore
  <1>2. \A s \in Shells : life'[s] \in {"pending", "none"} BY DEF CrashAndRestore
  <1>3. Running' BY <1>2 DEF Running
  <1> QED BY <1>1, <1>3, DoneLives

\* The coordinator starts with no run.
LEMMA InitLives == Init => LInv
  BY NoOpFields
  DEF Init, LInv, Running, UndoRunning, TargetsLive, ExitsNew, Lifecycle

\* The invariant on runs and targets is inductive.
LEMMA LivesStep == LInv /\ KInv /\ IInv /\ [Next]_vars => LInv'
  <1> SUFFICES ASSUME LInv, KInv, IInv, [Next]_vars PROVE LInv' OBVIOUS
  <1>1. CASE UNCHANGED vars
    BY <1>1, SameLives DEF vars
  <1>2. CASE Operations
    BY <1>2, PassingLives, EndedLives, ApplyMutationLives, ApplyStartLives,
       ApplyRecoverLives, ApplyExitLives, ApplyLifecycleLives
    DEF Operations, Passing
  <1> QED BY <1>1, <1>2, WritesLives, RequestsLives, RunsLives, CrashLives DEF Next

\* Runs, rollbacks and admitted targets agree in every state of every behaviour.
THEOREM Living == Spec => []LInv
  BY InitLives, LivesStep, Knowing, Invariance, PTL DEF Spec

-----------------------------------------------------------------------------
(* No durable event is announced twice.                                    *)

\* A step that moves no durable event, or drops what it was writing.
LEMMA SameOnce ==
  ASSUME Once, UNCHANGED <<log, pendingDurable>>,
         io'.batch = io.batch \/ io'.batch = <<>>
  PROVE  Once'
  BY ShortDistinct DEF Once

\* A new write takes a batch no part of which is known yet.
LEMMA FreshOnce ==
  ASSUME Once, KInv, UNCHANGED <<log, pendingDurable>>, Distinct(io.batch)',
         \A x \in Range(io.batch)' : IsDurable(x) => ~Covers(mem, x)
  PROVE  Once'
  <1>1. /\ Apart(Range(log), Range(io.batch)')
        /\ Apart(Range(pendingDurable), Range(io.batch)')
    BY FreshApart
  <1> QED BY <1>1 DEF Once

\* The writer moves batches between the queue, the write and the log.
LEMMA WritesOnce ==
  ASSUME Once, KInv, IInv, Writes
  PROVE  Once'
  <1>0. TypeOK /\ io \in IO /\ io.batch \in Seq(Event) /\ pendingDurable \in Seq(Event)
          /\ pendingRuntime \in Seq(Event) /\ <<>> \in Seq(Event)
    BY DEF IInv, TypeOK, IO
  <1>q. \A x \in Range(pendingRuntime) : x.kind = "OutputChanged"
    BY DEF KInv, Knowledge, RuntimeOnly
  <1>1. CASE SaveSucceeds \/ SaveFails \/ FallbackResetFails \/ AppendSucceeds
               \/ AppendFails
    <2>1. UNCHANGED <<log, pendingDurable>>
      BY <1>1 DEF SaveSucceeds, SaveFails, FallbackResetFails, AppendSucceeds,
           AppendFails, stream
    <2>2. io'.batch = io.batch
      BY <1>0, <1>1 DEF SaveSucceeds, SaveFails, FallbackResetFails, AppendSucceeds,
           AppendFails, IO
    <2> QED BY <2>1, <2>2, SameOnce
  <1>2. CASE \E b \in BOOLEAN : BeginFlush(b)
    <2>1. /\ log' = log /\ pendingDurable' = <<>> /\ io'.batch = pendingDurable
      BY <1>2 DEF BeginFlush, BeginWrite
    <2> QED BY <2>1, ShortDistinct DEF Once
  <1>3. CASE WriteCheckpoint \/ SkipCheckpoint \/ FinishCheckpoint \/ CheckpointFailed
    <2>1. UNCHANGED <<log, pendingDurable>>
      BY <1>3 DEF WriteCheckpoint, SkipCheckpoint, FinishCheckpoint, CheckpointFailed, stream
    <2>2. io'.batch = io.batch \/ io'.batch = <<>>
      BY <1>3, NoOpFields
      DEF WriteCheckpoint, SkipCheckpoint, FinishCheckpoint, CheckpointFailed, BeginWrite
    <2> QED BY <2>1, <2>2, SameOnce
  <1>4. CASE OpFlush /\ ~(pendingDurable # <<>> \/ dirty)
    BY <1>4, SameOnce DEF OpFlush, stream
  <1>5. CASE FinishFlush
    <2>1. /\ Settle(io.batch, pendingDurable, pendingRuntime, reservation, FALSE)
          /\ io'.batch = <<>>
      BY <1>5, NoOpFields DEF FinishFlush
    <2>2. Apart(Range(io.batch), Range(pendingDurable)) BY DEF Once, Apart
    <2> QED BY <1>0, <1>q, <2>1, <2>2, ShortDistinct, SettleOnce DEF Once
  <1>6. CASE FlushFailed
    <2> DEFINE queue == io.batch \o pendingDurable
    <2>1. /\ Settle(<<>>, queue, pendingRuntime, reservation, FALSE)
          /\ io'.batch = <<>>
      BY <1>6, NoOpFields DEF FlushFailed
    <2>2. Apart(Range(io.batch), Range(pendingDurable)) BY DEF Once, Apart
    <2>3. /\ queue \in Seq(Event) /\ Distinct(queue)
          /\ Range(queue) = Range(io.batch) \cup Range(pendingDurable)
      BY <1>0, <2>2, ConcatProperties, ConcatDistinct, RangeConcatenation DEF Once
    <2> HIDE DEF queue
    <2>4. Apart(Range(log), Range(queue)) BY <2>3 DEF Once, Apart
    <2> QED BY <1>0, <1>q, <2>1, <2>3, <2>4, ShortDistinct, SettleOnce
  <1> QED BY <1>1, <1>2, <1>3, <1>4, <1>5, <1>6 DEF Writes, BackgroundFlush, OpFlush

\* Output is not durable, and a reader does nothing else to the stream.
LEMMA RunsOnce ==
  ASSUME Once, IInv, Runs
  PROVE  Once'
  <1>1. ASSUME NEW s \in Shells, PublishOutput(s)
        PROVE  Once'
    <2> DEFINE e == Evt("OutputChanged", s, mem[s].gen)
    <2>1. UNCHANGED <<io, pendingDurable>> /\ (log' = log \/ log' = Append(log, e))
      BY <1>1 DEF PublishOutput
    <2>2. e \in Event /\ e.kind = "OutputChanged"
      <3>1. mem[s].gen \in Nat BY DEF IInv, TypeOK, Record, Entities
      <3> QED BY <3>1 DEF Evt, Event, Entities
    <2> HIDE DEF e
    <2>3. log \in Seq(Event) /\ <<e>> \in Seq(Event) /\ Range(<<e>>) = {e}
      BY <2>2 DEF IInv, TypeOK, Range
    <2>4. Distinct(<<e>>) /\ \A S : Apart(S, Range(<<e>>)) /\ Apart(Range(<<e>>), S)
      BY <2>2, <2>3, RuntimeDistinct
    <2>5. Distinct(log \o <<e>>) /\ Range(log \o <<e>>) = Range(log) \cup {e}
      <3>1. Distinct(log) /\ Apart(Range(log), Range(<<e>>)) BY <2>4 DEF Once
      <3>2. Distinct(log \o <<e>>) BY <2>3, <2>4, <3>1, ConcatDistinct
      <3>3. Range(log \o <<e>>) = Range(log) \cup Range(<<e>>)
        BY <2>3, RangeConcatenation, ZenonT(90)
      <3> QED BY <2>3, <3>2, <3>3
    <2>6. Append(log, e) = log \o <<e>> BY <2>2, <2>3, AppendIsConcat
    <2>7. Distinct(log') /\ Range(log)' \subseteq Range(log) \cup {e}
      BY <2>1, <2>5, <2>6 DEF Once
    <2>8. ~IsDurable(e) BY <2>2, RuntimeCovered
    <2> QED BY <2>1, <2>7, <2>8 DEF Once, Apart
  <1>2. ASSUME NEW s \in Shells, OutputRefused(s) \/ ProcessExits(s)
        PROVE  Once'
    BY <1>2, SameOnce DEF OutputRefused, ProcessExits, stream
  <1>3. ASSUME NEW s \in Shells, CheckpointHistory(s)
        PROVE  Once'
    <2>1. io \in IO BY DEF IInv, TypeOK
    <2>2. io'.batch = io.batch BY <1>3, <2>1 DEF CheckpointHistory, Touched, IO
    <2> QED BY <1>3, <2>2, SameOnce DEF CheckpointHistory, stream
  <1>4. ASSUME NEW x \in exits, BeginExit(x[1], x[2])
        PROVE  Once'
    BY <1>4, SameOnce DEF BeginExit, stream
  <1> QED BY <1>1, <1>2, <1>3, <1>4 DEF Runs

\* What an operation announces is new to the registry it changes.
LEMMA ApplyOnce ==
  ASSUME Once, KInv, LInv, IInv,
         \/ \E e \in Entities : ApplyMutation(e)
         \/ \E s \in Shells : ApplyStart(s) \/ ApplyExit(s)
         \/ \E S \in SUBSET Shells : ApplyRecover(S)
         \/ ApplyLifecycle
  PROVE  Once'
  <1>0. /\ TypeOK /\ mem \in [Entities -> Record] /\ pendingRuntime \in Seq(Event)
        /\ \A f \in Entities : mem[f].rev \in Nat /\ mem[f].gen \in Nat
    BY DEF IInv, TypeOK, Record
  <1>1. ASSUME NEW e \in Entities, ApplyMutation(e)
        PROVE  Once'
    <2>1. CASE UNCHANGED io
      BY <1>1, <2>1, SameOnce DEF ApplyMutation, stream
    <2>2. ASSUME ~UNCHANGED io
          PROVE  Once'
      <3>1. /\ io'.batch = MutationEvents(e) /\ UNCHANGED <<log, pendingDurable>>
            /\ Creates(e) \/ Renames(e)
        BY <1>1, <2>2 DEF ApplyMutation, BeginWrite, stream
      <3>2. PICK x : /\ MutationEvents(e) = <<x>>
                     /\ x = IF Creates(e) THEN Evt("Created", e, 0)
                                          ELSE Evt("Renamed", e, mem[e].rev + 1)
        BY DEF MutationEvents
      <3>3. ~Covers(mem, x)
        BY <1>0, <3>2 DEF Covers, Evt, Creates
      <3>4. Range(io.batch)' = {x} BY <3>1, <3>2 DEF Range
      <3>5. Distinct(io.batch)' BY <3>1, <3>2, ShortDistinct
      <3> QED BY <3>1, <3>3, <3>4, <3>5, FreshOnce
    <2> QED BY <2>1, <2>2
  <1>2. ASSUME NEW S \in SUBSET Shells, UNCHANGED <<log, pendingDurable>>,
               io'.batch = RunEvents("RunStarted", S, Started(S))
        PROVE  Once'
    <2>1. Started(S) \in [Entities -> Record] BY <1>0, StartedType
    <2>2. ASSUME NEW x \in Range(io.batch)'
          PROVE  ~Covers(mem, x)
      <3>1. PICK s \in S : x = Evt("RunStarted", s, Started(S)[s].gen)
        BY <1>2, <2>1, <2>2, RunEventsRange DEF DurableKinds
      <3>2. s \in Entities BY DEF Entities
      <3>3. Started(S)[s].gen = mem[s].gen + 1
        BY <1>0, <3>2 DEF Started, Record
      <3> QED BY <1>0, <3>1, <3>2, <3>3 DEF Covers, Evt
    <2>3. Distinct(io.batch)' BY <1>2, <2>1, RunEventsDistinct DEF DurableKinds
    <2> QED BY <1>2, <2>2, <2>3, FreshOnce
  <1>3. ASSUME NEW s \in Shells, ApplyStart(s)
        PROVE  Once'
    <2>1. /\ UNCHANGED <<log, pendingDurable>>
          /\ io'.batch = RunEvents("RunStarted", {s}, Started({s}))
      BY <1>3 DEF ApplyStart, BeginWrite, stream
    <2> QED BY <1>2, <2>1
  <1>4. ASSUME NEW S \in SUBSET Shells, ApplyRecover(S)
        PROVE  Once'
    <2>1. UNCHANGED <<log, pendingDurable>> BY <1>4 DEF ApplyRecover, stream
    <2>2. UNCHANGED io \/ io'.batch = RunEvents("RunStarted", S, Started(S))
      <3>1. CASE S # {} /\ ReserveWithPending(Cardinality(op.targets))
        <4>1. BeginWrite("commit", Started(S), RunEvents("RunStarted", S, Started(S)),
                         Cardinality(S), FALSE)
          BY <1>4, <3>1 DEF ApplyRecover
        <4> QED BY <4>1 DEF BeginWrite
      <3>2. CASE ~(S # {} /\ ReserveWithPending(Cardinality(op.targets)))
        BY <1>4, <3>2 DEF ApplyRecover
      <3> QED BY <3>1, <3>2
    <2> QED BY <1>2, <2>1, <2>2, SameOnce
  <1>5. ASSUME NEW s \in Shells, ApplyExit(s)
        PROVE  Once'
    <2> DEFINE exit == Evt("RunExited", s, mem[s].gen)
    <2>1. UNCHANGED <<log, pendingDurable>> BY <1>5 DEF ApplyExit
    <2>2. CASE UNCHANGED io
      BY <2>1, <2>2, SameOnce
    <2>3. CASE io'.batch = pendingRuntime \o <<exit>>
      <3>0. s \in Entities BY DEF Entities
      <3>1. op.kind = "exit" /\ op.phase = "apply" /\ s \in op.targets
        BY <1>5 DEF ApplyExit
      <3>2. mem[s].run = "active" BY <3>1 DEF LInv, TargetsLive, Running
      <3>3. ~Covers(mem, exit) BY <1>0, <3>0, <3>2 DEF Covers, Evt
      <3>4. exit \in Event BY <1>0, <3>0 DEF Evt, Event, DurableKinds
      <3> HIDE DEF exit
      <3>5. <<exit>> \in Seq(Event) /\ Range(<<exit>>) = {exit} BY <3>4 DEF Range
      <3>6. \A x \in Range(pendingRuntime) : x.kind = "OutputChanged" /\ ~IsDurable(x)
        BY RuntimeCovered DEF KInv, Knowledge, RuntimeOnly
      <3>7. Distinct(pendingRuntime) /\ Apart(Range(pendingRuntime), Range(<<exit>>))
        BY <1>0, <3>6, RuntimeDistinct
      <3>8. Distinct(io.batch)' BY <1>0, <2>3, <3>5, <3>7, ShortDistinct, ConcatDistinct
      <3>9. Range(io.batch)' = Range(pendingRuntime) \cup {exit}
        <4>1. Range(pendingRuntime \o <<exit>>) = Range(pendingRuntime) \cup {exit}
          BY <1>0, <3>4, RangeAppended
        <4> QED BY <2>3, <3>5, <4>1 DEF exit
      <3>10. \A x \in Range(io.batch)' : IsDurable(x) => ~Covers(mem, x)
        BY <3>3, <3>6, <3>9
      <3> QED BY <2>1, <3>8, <3>10, FreshOnce
    <2> QED BY <1>5, <2>2, <2>3 DEF ApplyExit, BeginWrite
  <1>6. CASE ApplyLifecycle
    <2>1. /\ UNCHANGED <<log, pendingDurable>> /\ io'.batch = CommittedEvents
          /\ op.kind \in Lifecycle /\ op.phase = "apply"
      BY <1>6 DEF ApplyLifecycle, BeginWrite
    <2>2. CASE op.kind = "shutdown"
      BY <2>1, <2>2, SameOnce DEF CommittedEvents
    <2>3. CASE op.kind # "shutdown"
      <3>1. PICK e \in Entities : CommittedEvents = <<Evt("Closed", e, 0)>> /\ Live(e)
        <4>1. CASE op.kind = "closeWorkspace"
          BY <2>1, <4>1 DEF CommittedEvents, LInv, TargetsLive, Entities
        <4>2. CASE op.kind = "close"
          <5> DEFINE t == CHOOSE s \in op.targets : TRUE
          <5>1. t \in op.targets /\ t \in Entities
            BY <4>2 DEF IInv, OpShape, Entities
          <5>2. CommittedEvents = <<Evt("Closed", t, 0)>> BY <4>2 DEF CommittedEvents
          <5> HIDE DEF t
          <5>3. Live(t) BY <2>1, <4>2, <5>1 DEF LInv, TargetsLive
          <5> QED BY <5>1, <5>2, <5>3
        <4> QED BY <2>1, <2>3, <4>1, <4>2 DEF Lifecycle
      <3>2. ~Covers(mem, Evt("Closed", e, 0)) BY <3>1 DEF Covers, Evt, Live
      <3>3. Range(io.batch)' = {Evt("Closed", e, 0)} BY <2>1, <3>1 DEF Range
      <3>4. Distinct(io.batch)' BY <2>1, <3>1, ShortDistinct
      <3> QED BY <2>1, <3>2, <3>3, <3>4, FreshOnce
    <2> QED BY <2>2, <2>3
  <1> QED BY <1>1, <1>3, <1>4, <1>5, <1>6

\* What ends publishes or queues its batch, and a compensation is new.
LEMMA EndOnce ==
  ASSUME Once, KInv, LInv, IInv,
         \/ FinishMutation \/ FinishStart \/ FinishExit \/ ExitFailed \/ FinishLifecycle
         \/ MutationFailed \/ LifecycleFailed \/ StartFailed \/ AbortLifecycle
  PROVE  Once'
  <1>0. /\ TypeOK /\ io.batch \in Seq(Event) /\ pendingDurable \in Seq(Event)
        /\ pendingRuntime \in Seq(Event) /\ <<>> \in Seq(Event)
    BY DEF IInv, TypeOK, IO
  <1>q. \A x \in Range(pendingRuntime) : x.kind = "OutputChanged"
    BY DEF KInv, Knowledge, RuntimeOnly
  <1> DEFINE queue == pendingDurable \o io.batch
  <1>c. /\ queue \in Seq(Event) /\ Distinct(queue)
        /\ Range(queue) = Range(pendingDurable) \cup Range(io.batch)
        /\ Apart(Range(log), Range(queue))
    <2>1. /\ queue \in Seq(Event) /\ Distinct(queue)
          /\ Range(queue) = Range(pendingDurable) \cup Range(io.batch)
      BY <1>0, ConcatProperties, ConcatDistinct, RangeConcatenation DEF Once
    <2> HIDE DEF queue
    <2> QED BY <2>1 DEF Once, Apart
  <1> HIDE DEF queue
  <1>1. CASE FinishMutation \/ FinishStart \/ FinishLifecycle
    <2>1. /\ \E held : Settle(io.batch, pendingDurable, pendingRuntime, held, FALSE)
          /\ io'.batch = <<>>
      BY <1>1, NoOpFields DEF FinishMutation, FinishStart, FinishLifecycle
    <2>2. Apart(Range(io.batch), Range(pendingDurable)) BY DEF Once, Apart
    <2> QED BY <1>0, <1>q, <2>1, <2>2, ShortDistinct, SettleOnce DEF Once
  <1>2. CASE MutationFailed \/ StartFailed
    <2>1. /\ Settle(<<>>, pendingDurable, pendingRuntime, reservation, FALSE)
          /\ io'.batch = <<>>
      BY <1>2, NoOpFields DEF MutationFailed, StartFailed
    <2> QED BY <1>0, <1>q, <2>1, ShortDistinct, SettleOnce DEF Once
  <1>3. CASE FinishExit
    <2>1. /\ Settle(queue, <<>>, pendingRuntime, reservation, FALSE)
          /\ io'.batch = <<>>
      BY <1>3, NoOpFields DEF FinishExit, queue
    <2> QED BY <1>0, <1>q, <1>c, <2>1, ShortDistinct, SettleOnce
  <1>4. CASE ExitFailed
    <2>1. /\ Settle(<<>>, queue, pendingRuntime, reservation, FALSE)
          /\ io'.batch = <<>>
      BY <1>4, NoOpFields DEF ExitFailed, queue
    <2> QED BY <1>0, <1>q, <1>c, <2>1, ShortDistinct, SettleOnce
  <1>5. ASSUME NEW S \in SUBSET Shells, NEW m \in [Entities -> Record],
               \A s \in S : Evt("RunExited", s, m[s].gen)
                              \notin Range(log) \cup Range(pendingDurable) \cup Range(io.batch)',
               io'.batch = io.batch \/ io'.batch = <<>>, NEW held, NEW busy,
               Settle(<<>>, pendingDurable \o Compensation(S, m), <<>>, held, busy)
        PROVE  Once'
    <2> DEFINE exited == RunEvents("RunExited", S, m)
               added == pendingRuntime \o exited
               all == pendingDurable \o added
    <2>1. exited \in Seq(Event) /\ Distinct(exited)
      BY RunEventsType, RunEventsDistinct DEF DurableKinds
    <2>2. \A x \in Range(exited) : x \notin Range(log) \cup Range(pendingDurable)
                                                 \cup Range(io.batch)'
      BY <1>5, RunEventsRange DEF DurableKinds
    <2> HIDE DEF exited
    <2>3. /\ Distinct(pendingRuntime)
          /\ \A T : Apart(T, Range(pendingRuntime)) /\ Apart(Range(pendingRuntime), T)
      BY <1>0, <1>q, RuntimeDistinct
    <2>4. /\ added \in Seq(Event) /\ Distinct(added)
          /\ Range(added) = Range(pendingRuntime) \cup Range(exited)
      BY <1>0, <2>1, <2>3, ConcatProperties, ConcatDistinct, RangeConcatenation
    <2> HIDE DEF added
    <2>5. Apart(Range(pendingDurable), Range(added))
      BY <2>2, <2>3, <2>4 DEF Apart
    <2>6. /\ all \in Seq(Event) /\ Distinct(all)
          /\ Range(all) = Range(pendingDurable) \cup Range(added)
      <3>1. Distinct(pendingDurable) BY DEF Once
      <3>2. Distinct(all) BY <1>0, <2>4, <2>5, <3>1, ConcatDistinct
      <3>3. all \in Seq(Event) BY <1>0, <2>4, ConcatProperties
      <3>4. Range(all) = Range(pendingDurable) \cup Range(added)
        BY <1>0, <2>4, RangeConcatenation
      <3> QED BY <3>2, <3>3, <3>4
    <2>7. Settle(<<>>, all, <<>>, held, busy)
      BY <1>5 DEF Compensation, added, exited
    <2> HIDE DEF all
    <2>8. Apart(Range(log), Range(all)) BY <2>2, <2>3, <2>4, <2>6 DEF Once, Apart
    <2>9. /\ Distinct(io.batch)' /\ Apart(Range(log), Range(io.batch)')
          /\ Apart(Range(pendingDurable), Range(io.batch)')
      BY <1>5, ShortDistinct DEF Once
    <2>10. Apart(Range(all), Range(io.batch)')
      BY <2>2, <2>3, <2>4, <2>6, <2>9 DEF Apart
    <2>11. \A x \in Range(<<>>) : x.kind = "OutputChanged" BY EmptyRange
    <2> QED BY <1>0, <2>6, <2>7, <2>8, <2>9, <2>10, <2>11, ShortDistinct, SettleOnce
  <1>6. CASE LifecycleFailed
    <2>1. /\ op.kind \in Lifecycle /\ op.phase = "commit" /\ io'.batch = <<>>
          /\ Settle(<<>>, pendingDurable \o Compensation(op.stopped, op.undo), <<>>, 0, FALSE)
      BY <1>6, NoOpFields DEF LifecycleFailed
    <2>2. op.stopped \in SUBSET Shells /\ op.undo \in [Entities -> Record]
      BY <1>0 DEF TypeOK, Op
    <2>3. Range(io.batch)' = {} BY <2>1, EmptyRange
    <2> QED BY <1>5, <2>1, <2>2, <2>3 DEF LInv, ExitsNew
  <1>7. CASE AbortLifecycle
    <2> DEFINE killed == {s \in op.stopped : life[s] = "running"}
    <2>1. /\ Settle(<<>>, pendingDurable \o Compensation(killed, mem), <<>>, 0, InFlight)
          /\ io' = io \/ io' = Touched
      BY <1>7 DEF AbortLifecycle
    <2>2. io'.batch = io.batch BY <1>0, <2>1 DEF Touched, TypeOK, IO
    <2>3. killed \in SUBSET Shells /\ \A s \in killed : life[s] = "running"
      BY <1>0 DEF TypeOK, Op
    <2> HIDE DEF killed
    <2>4. ASSUME NEW s \in killed
          PROVE  Evt("RunExited", s, mem[s].gen)
                   \notin Range(log) \cup Range(pendingDurable) \cup Range(io.batch)'
      <3>1. s \in Shells /\ mem[s].gen \in Nat
        BY <1>0, <2>3 DEF TypeOK, Record, Entities
      <3>2. mem[s].run = "active" BY <2>3, <3>1 DEF LInv, Running
      <3>3. ~Covers(mem, Evt("RunExited", s, mem[s].gen))
        BY <3>1, <3>2 DEF Covers, Evt
      <3> QED BY <2>2, <3>3 DEF KInv, Knowledge, MemKnows, Covered, Held
    <2>5. mem \in [Entities -> Record] BY <1>0 DEF TypeOK
    <2> QED BY <1>5, <2>1, <2>2, <2>3, <2>4, <2>5
  <1> QED BY <1>1, <1>2, <1>3, <1>4, <1>6, <1>7

\* Operations that only change their own state leave the stream.
LEMMA PassingOnce ==
  ASSUME Once, Passing \/ Requests
  PROVE  Once'
  <1>1. UNCHANGED <<log, pendingDurable, io>>
    <2>1. CASE \E s \in Shells : BeginStart(s) \/ RestartShell(s)
      BY <2>1 DEF BeginStart, RestartShell, stream
    <2>2. CASE Requests /\ ~ \E s \in Shells : BeginStart(s) \/ RestartShell(s)
      <3>1. Quiet
        BY <2>2 DEF Requests, BeginMutation, BeginLocalCreate, BeginClose,
             BeginRecover, BeginCloseWorkspace, BeginShutdown, BeginBaseline,
             BeginCheckpoint
      <3> QED BY <3>1 DEF Quiet, stream
    <2>3. CASE Passing
      BY <2>3 DEF Passing, SkipCheckpoint, ObserveBaseline, AdmitMutation, StartRefused,
           AdmitLifecycle, AllStopped, StopRuntime, StopFails, Quiet, stream
    <2> QED BY <2>1, <2>2, <2>3
  <1> QED BY <1>1, SameOnce

\* The invariant of PublishedOnce is inductive.
LEMMA OnceStep == Once /\ LInv /\ KInv /\ IInv /\ [Next]_vars => Once'
  <1> SUFFICES ASSUME Once, LInv, KInv, IInv, [Next]_vars PROVE Once' OBVIOUS
  <1>1. CASE UNCHANGED vars
    BY <1>1, SameOnce DEF vars
  <1>2. CASE Operations
    BY <1>2, PassingOnce, ApplyOnce, EndOnce DEF Operations, Passing
  <1>3. CASE CrashAndRestore
    <2>1. log' = <<>> /\ pendingDurable' = <<>> /\ io'.batch = <<>>
      BY <1>3, NoOpFields DEF CrashAndRestore
    <2> QED BY <2>1, ShortDistinct DEF Once
  <1> QED BY <1>1, <1>2, <1>3, WritesOnce, PassingOnce, RunsOnce DEF Next

\* Nothing is announced when the coordinator starts.
LEMMA InitOnce == Init => Once
  BY NoOpFields, ShortDistinct DEF Init, Once

\* No durable event is twice in the log, in the queue and in the batch being written.
THEOREM Announcing == Spec => []Once
  BY InitOnce, OnceStep, Living, Knowing, Invariance, PTL DEF Spec

\* A durable event is never announced twice, nor queued or written again once
\* announced: flush_pending, try_record_run_exit and lifecycle_transaction put back
\* what they took and nothing else, and what an operation announces is new.
THEOREM AnnouncedOnce == Spec => []PublishedOnce
  <1>1. IInv /\ Once => PublishedOnce
    <2> SUFFICES ASSUME IInv, Once PROVE PublishedOnce OBVIOUS
    <2>1. /\ log \in Seq(Event) /\ pendingDurable \in Seq(Event)
          /\ io.batch \in Seq(Event)
      BY DEF IInv, TypeOK, IO
    <2>2. /\ Unpublished \in Seq(Event)
          /\ Range(Unpublished) = Range(pendingDurable) \cup Range(io.batch)
      BY <2>1, ConcatProperties, RangeConcatenation DEF Unpublished
    <2>3. Distinct(Unpublished) BY <2>1, ConcatDistinct DEF Once, Unpublished
    <2>4. Apart(Range(log), Range(Unpublished)) BY <2>2 DEF Once, Apart
    <2>5. Distinct(log) BY DEF Once
    <2>6. Distinct(log \o Unpublished) BY <2>1, <2>2, <2>3, <2>4, <2>5, ConcatDistinct
    <2> QED BY <2>6 DEF Distinct, PublishedOnce
  <1> QED BY <1>1, Announcing, Invariance, PTL

-----------------------------------------------------------------------------
(* The coordinator implements the event ledger.  Two more invariants: the  *)
(* events stay within the bounds the model is checked with, and a restart  *)
(* replays every record of the journal.                                    *)

Within(m) == \A e \in Entities : m[e].rev <= MaxRevision /\ m[e].gen <= MaxGeneration
InUniverse(S) == \A x \in S : IsDurable(x) => x \in Universe

\* Registries and durable events are within the bounds.
Bounds ==
  /\ Within(mem)
  /\ op.phase = "commit" /\ op.kind \in Undoing => Within(op.undo)
  /\ op.kind = "start" /\ op.phase \in {"flush", "apply"} =>
       \A s \in op.targets : mem[s].gen < MaxGeneration
  /\ InUniverse(Range(log)) /\ InUniverse(Range(pendingDurable))
  /\ InUniverse(Range(io.batch))

\* The journal records creations and starts, of which every Shell has a last one;
\* what is appended to it is a creation or the start in the registry.
Replayed ==
  /\ \A x \in journal : \/ x = Evt("Created", x.of, 0)
                        \/ x.kind = "RunStarted" /\ LastStarts(x.of) # {}
  /\ io.kind = "journal" => \A x \in Range(io.batch) :
       x \in {Evt("Created", x.of, 0), Evt("RunStarted", x.of, mem[x.of].gen)}

\* Generations and revisions within the bounds make durable events of the universe.
LEMMA InTheUniverse ==
  ASSUME NEW kind \in DurableKinds, NEW e \in Entities, NEW n \in Nat,
         n <= MaxRevision \/ n <= MaxGeneration
  PROVE  Evt(kind, e, n) \in Universe
  <1>1. n \in 0..(MaxRevision + MaxGeneration) BY ConstantsAssumption
  <1> QED BY <1>1 DEF Evt, Universe

\* Runs that end and entities that go do not move a bound.
LEMMA EndedWithin ==
  ASSUME NEW m \in [Entities -> Record], Within(m), NEW S
  PROVE  Within(Ended(m, S)) /\ Within(Removed(m))
  <1>1. ASSUME NEW e \in Entities
        PROVE  /\ Ended(m, S)[e].rev = m[e].rev /\ Ended(m, S)[e].gen = m[e].gen
               /\ Removed(m)[e].rev = m[e].rev /\ Removed(m)[e].gen = m[e].gen
    <2>1. m[e] \in Record OBVIOUS
    <2> QED BY <2>1 DEF Ended, Removed, Record
  <1> QED BY <1>1 DEF Within

\* The events of runs of a registry within the bounds.
LEMMA RunsWithin ==
  ASSUME NEW kind \in DurableKinds, NEW S \in SUBSET Shells,
         NEW m \in [Entities -> Record], Within(m)
  PROVE  InUniverse(Range(RunEvents(kind, S, m)))
  <1> SUFFICES ASSUME NEW x \in Range(RunEvents(kind, S, m))
               PROVE  x \in Universe
    BY DEF InUniverse
  <1>1. PICK s \in S : x = Evt(kind, s, m[s].gen) BY RunEventsRange
  <1>2. s \in Entities /\ m[s].gen \in Nat BY DEF Entities, Record
  <1>3. m[s].gen <= MaxGeneration BY <1>2 DEF Within
  <1> QED BY <1>1, <1>2, <1>3, InTheUniverse

\* Output is in no way durable.
LEMMA RuntimeWithin ==
  ASSUME NEW S, \A x \in S : x.kind = "OutputChanged"
  PROVE  InUniverse(S)
  BY DEF InUniverse, IsDurable, DurableKinds

\* A step that leaves the registry and admits no start.
LEMMA SameBounds ==
  ASSUME Bounds, UNCHANGED mem, op' = op \/ op'.phase # "commit",
         op'.kind = "start" /\ op'.phase \in {"flush", "apply"} =>
           \A s \in op'.targets : mem[s].gen < MaxGeneration,
         InUniverse(Range(log)'), InUniverse(Range(pendingDurable)'),
         InUniverse(Range(io.batch)')
  PROVE  Bounds'
  <1>1. Within(mem') BY DEF Bounds
  <1>2. op'.phase = "commit" /\ op'.kind \in Undoing => Within(op'.undo) BY DEF Bounds
  <1> QED BY <1>1, <1>2 DEF Bounds, Within, InUniverse, Undoing, Lifecycle

\* Settle moves events that are within the bounds.
LEMMA SettleBounds ==
  ASSUME TypeOK, RuntimeOnly, InUniverse(Range(log)), NEW batch \in Seq(Event),
         NEW durable, NEW runtime \in {pendingRuntime, <<>>}, NEW held, NEW busy,
         Settle(batch, durable, runtime, held, busy), InUniverse(Range(batch)),
         InUniverse(Range(durable))
  PROVE  InUniverse(Range(log)') /\ InUniverse(Range(pendingDurable)')
  <1>1. runtime \in Seq(Event) /\ log \in Seq(Event)
    <2>1. <<>> \in Seq(Event) OBVIOUS
    <2> QED BY <2>1 DEF TypeOK
  <1>2. /\ Range(log)' \subseteq Range(log) \cup Range(batch) \cup Range(runtime)
        /\ pendingDurable' = durable
    BY <1>1, SettleRange
  <1>3. InUniverse(Range(runtime)) BY RuntimeWithin, EmptyRange DEF RuntimeOnly
  <1> QED BY <1>2, <1>3 DEF InUniverse

\* The writer keeps the bounds.
LEMMA WritesBounds ==
  ASSUME Bounds, KInv, IInv, IInv', Writes
  PROVE  Bounds'
  <1>0. /\ TypeOK /\ op \in Op /\ io \in IO /\ io.batch \in Seq(Event)
        /\ pendingDurable \in Seq(Event) /\ <<>> \in Seq(Event) /\ RuntimeOnly
    BY DEF IInv, TypeOK, IO, KInv, Knowledge
  <1>e. InUniverse(Range(<<>>)) BY EmptyRange DEF InUniverse
  <1>1. CASE SaveSucceeds \/ SaveFails \/ FallbackResetFails \/ AppendSucceeds
               \/ AppendFails
    <2>1. UNCHANGED <<mem, op, log, pendingDurable>>
      BY <1>1 DEF SaveSucceeds, SaveFails, FallbackResetFails, AppendSucceeds,
           AppendFails, stream
    <2>2. io'.batch = io.batch
      BY <1>0, <1>1 DEF SaveSucceeds, SaveFails, FallbackResetFails, AppendSucceeds,
           AppendFails, IO
    <2> QED BY <2>1, <2>2, SameBounds DEF Bounds
  <1>2. CASE \E b \in BOOLEAN : BeginFlush(b)
    <2>1. /\ UNCHANGED <<mem, op, log>> /\ pendingDurable' = <<>>
          /\ io'.batch = pendingDurable
      BY <1>2 DEF BeginFlush, BeginWrite
    <2> QED BY <1>e, <2>1, SameBounds DEF Bounds
  <1>3. CASE WriteCheckpoint \/ SkipCheckpoint \/ FinishCheckpoint \/ CheckpointFailed
    <2>1. UNCHANGED <<mem, log, pendingDurable>>
      BY <1>3 DEF WriteCheckpoint, SkipCheckpoint, FinishCheckpoint, CheckpointFailed, stream
    <2>2. io'.batch = io.batch \/ io'.batch = <<>>
      BY <1>3, NoOpFields
      DEF WriteCheckpoint, SkipCheckpoint, FinishCheckpoint, CheckpointFailed, BeginWrite
    <2>3. op' = op \/ op'.phase = "admit"
      BY <1>0, <1>3, NoOpFields
      DEF WriteCheckpoint, SkipCheckpoint, FinishCheckpoint, CheckpointFailed, Op
    <2> QED BY <1>e, <2>1, <2>2, <2>3, SameBounds DEF Bounds
  <1>4. ASSUME op' = [op EXCEPT !.phase = AfterFlush], op.phase = "flush"
        PROVE  /\ op'.kind = op.kind /\ op'.targets = op.targets
               /\ op'.phase \in {"observe", "apply"}
    BY <1>0, <1>4 DEF Op, AfterFlush
  <1>5. CASE OpFlush /\ ~(pendingDurable # <<>> \/ dirty)
    <2>1. /\ UNCHANGED <<mem, log, pendingDurable, io>> /\ op.phase = "flush"
          /\ op' = [op EXCEPT !.phase = AfterFlush]
      BY <1>5 DEF OpFlush, stream
    <2> QED BY <1>4, <2>1, SameBounds DEF Bounds
  <1>6. CASE FinishFlush
    <2>1. /\ Settle(io.batch, pendingDurable, pendingRuntime, reservation, FALSE)
          /\ io'.batch = <<>> /\ UNCHANGED mem
      BY <1>6, NoOpFields DEF FinishFlush
    <2>2. InUniverse(Range(log)') /\ InUniverse(Range(pendingDurable)')
      BY <1>0, <2>1, SettleBounds DEF Bounds
    <2>3. op' = op \/ (op' = [op EXCEPT !.phase = AfterFlush] /\ op.phase = "flush")
      BY <1>6 DEF FinishFlush, IInv, WriteShape
    <2>4. op' = op \/ op'.phase # "commit" BY <1>4, <2>3
    <2>5. op'.kind = "start" /\ op'.phase \in {"flush", "apply"} =>
            \A s \in op'.targets : mem[s].gen < MaxGeneration
      BY <1>4, <2>3 DEF Bounds
    <2> QED BY <1>e, <2>1, <2>2, <2>4, <2>5, SameBounds
  <1>7. CASE FlushFailed
    <2> DEFINE queue == io.batch \o pendingDurable
    <2>1. /\ Settle(<<>>, queue, pendingRuntime, reservation, FALSE)
          /\ io'.batch = <<>> /\ UNCHANGED mem
      BY <1>7, NoOpFields DEF FlushFailed
    <2>2. Range(queue) = Range(io.batch) \cup Range(pendingDurable)
      BY <1>0, RangeConcatenation
    <2> HIDE DEF queue
    <2>3. InUniverse(Range(queue)) BY <2>2 DEF Bounds, InUniverse
    <2>4. InUniverse(Range(log)') /\ InUniverse(Range(pendingDurable)')
      BY <1>0, <1>e, <2>1, <2>3, SettleBounds DEF Bounds
    <2>5. op' = op \/ op'.phase \in {"abort", "admit"}
      BY <1>0, <1>7, NoOpFields DEF FlushFailed, Op
    <2> QED BY <1>e, <2>1, <2>4, <2>5, SameBounds DEF Bounds
  <1> QED BY <1>1, <1>2, <1>3, <1>5, <1>6, <1>7 DEF Writes, BackgroundFlush, OpFlush

\* A start is admitted while a generation is left.
LEMMA RequestsBounds ==
  ASSUME Bounds, IInv, Requests
  PROVE  Bounds'
  <1>1. UNCHANGED <<mem, log, pendingDurable, io>>
    <2>1. CASE \E s \in Shells : BeginStart(s) \/ RestartShell(s)
      BY <2>1 DEF BeginStart, RestartShell, stream
    <2>2. CASE ~ \E s \in Shells : BeginStart(s) \/ RestartShell(s)
      <3>1. Quiet
        BY <2>2 DEF Requests, BeginMutation, BeginLocalCreate, BeginClose,
             BeginRecover, BeginCloseWorkspace, BeginShutdown, BeginBaseline,
             BeginCheckpoint
      <3> QED BY <3>1 DEF Quiet, stream
    <2> QED BY <2>1, <2>2
  <1>2. ASSUME NEW kind, NEW phase, NEW targets, Begin(kind, phase, targets)
        PROVE  op'.kind = kind /\ op'.phase = phase /\ op'.targets = targets
    BY <1>2 DEF Begin, NoOp
  <1>3. CASE \E s \in Shells : BeginStart(s)
    <2>1. PICK s \in Shells : BeginStart(s) BY <1>3
    <2>2. op'.phase = "flush" /\ op'.targets = {s} /\ mem[s].gen < MaxGeneration
      BY <1>2, <2>1 DEF BeginStart
    <2> QED BY <1>1, <2>2, SameBounds DEF Bounds
  <1>4. CASE \E s \in Shells : RestartShell(s)
    BY <1>1, <1>4, SameBounds DEF RestartShell, Bounds
  <1>5. CASE ~ \E s \in Shells : BeginStart(s) \/ RestartShell(s)
    <2>1. ASSUME NEW kind, NEW phase, NEW targets, kind # "start", phase # "commit",
                 Begin(kind, phase, targets)
          PROVE  op'.kind # "start" /\ op'.phase # "commit"
      BY <1>2, <2>1
    <2>2. op'.kind # "start" /\ op'.phase # "commit"
      BY <1>5, <2>1 DEF Requests, BeginMutation, BeginLocalCreate, BeginClose,
           BeginRecover, BeginCloseWorkspace, BeginShutdown, BeginBaseline,
           BeginCheckpoint
    <2> QED BY <1>1, <2>2, SameBounds DEF Bounds
  <1> QED BY <1>3, <1>4, <1>5

\* Readers publish output, which is not durable, and record exits.
LEMMA RunsBounds ==
  ASSUME Bounds, IInv, Runs
  PROVE  Bounds'
  <1>1. ASSUME NEW s \in Shells, PublishOutput(s)
        PROVE  Bounds'
    <2> DEFINE e == Evt("OutputChanged", s, mem[s].gen)
    <2>1. UNCHANGED <<mem, op, io, pendingDurable>> /\ (log' = log \/ log' = Append(log, e))
      BY <1>1 DEF PublishOutput
    <2>2. e \in Event /\ e.kind = "OutputChanged"
      <3>1. mem[s].gen \in Nat BY DEF IInv, TypeOK, Record, Entities
      <3> QED BY <3>1 DEF Evt, Event, Entities
    <2> HIDE DEF e
    <2>3. Range(Append(log, e)) = Range(log) \cup {e}
      BY <2>2, AppendRange DEF IInv, TypeOK
    <2>4. ~IsDurable(e) BY <2>2, RuntimeCovered
    <2>5. InUniverse(Range(log)') BY <2>1, <2>3, <2>4 DEF Bounds, InUniverse
    <2> QED BY <2>1, <2>5, SameBounds DEF Bounds
  <1>2. ASSUME NEW s \in Shells, OutputRefused(s) \/ ProcessExits(s) \/ CheckpointHistory(s)
        PROVE  Bounds'
    <2>1. /\ UNCHANGED <<mem, log, pendingDurable, op>> /\ io'.batch = io.batch
      BY <1>2 DEF OutputRefused, ProcessExits, CheckpointHistory, Touched, stream, shells,
           IInv, TypeOK, IO
    <2> QED BY <2>1, SameBounds DEF Bounds
  <1>3. ASSUME NEW x \in exits, BeginExit(x[1], x[2])
        PROVE  Bounds'
    <2>1. op' = op \/ (op'.phase = "apply" /\ op'.kind = "exit")
      BY <1>3 DEF BeginExit, Begin, NoOp
    <2>2. UNCHANGED <<mem, log, pendingDurable, io>> BY <1>3 DEF BeginExit, stream
    <2> QED BY <2>1, <2>2, SameBounds DEF Bounds
  <1> QED BY <1>1, <1>2, <1>3 DEF Runs

\* What passes admits no start.
LEMMA PassingBounds ==
  ASSUME Bounds, IInv, Passing
  PROVE  Bounds'
  <1>0. op \in Op BY DEF IInv, TypeOK
  <1>1. UNCHANGED <<mem, log, pendingDurable, io>>
    BY DEF Passing, SkipCheckpoint, ObserveBaseline, AdmitMutation, StartRefused,
         AdmitLifecycle, AllStopped, StopRuntime, StopFails, Quiet, stream
  <1>2. op'.phase # "commit" /\ (op'.kind = "start" => op'.phase \notin {"flush", "apply"})
    <2>1. CASE SkipCheckpoint \/ ObserveBaseline \/ StartRefused
      BY <1>0, <2>1, NoOpFields DEF SkipCheckpoint, ObserveBaseline, StartRefused, Op
    <2>2. CASE AdmitMutation
      BY <1>0, <2>2, NoOpFields DEF AdmitMutation, Op
    <2>3. CASE AdmitLifecycle
      <3>1. CASE op' = NoOp BY <3>1, NoOpFields
      <3>2. CASE op' = [op EXCEPT !.phase = "stop", !.targets = Selected]
        BY <1>0, <3>2 DEF Op
      <3> QED BY <2>3, <3>1, <3>2 DEF AdmitLifecycle
    <2>4. CASE AllStopped \/ \E s \in Shells : StopRuntime(s) \/ StopFails(s)
      <3>1. op.kind # "start" BY <2>4 DEF AllStopped, StopRuntime, StopFails, IInv,
              OpShape, Lifecycle
      <3>2. op'.kind = op.kind /\ op'.phase \in {"flush", "stop", "abort"}
        BY <1>0, <2>4 DEF AllStopped, StopRuntime, StopFails, Op
      <3> QED BY <3>1, <3>2
    <2> QED BY <2>1, <2>2, <2>3, <2>4 DEF Passing
  <1> QED BY <1>1, <1>2, SameBounds DEF Bounds

\* What an operation does to the registry, and announces, is within the bounds.
LEMMA ApplyBounds ==
  ASSUME Bounds, KInv, IInv,
         \/ \E e \in Entities : ApplyMutation(e)
         \/ \E s \in Shells : ApplyStart(s) \/ ApplyExit(s)
         \/ \E S \in SUBSET Shells : ApplyRecover(S)
         \/ ApplyLifecycle
  PROVE  Bounds'
  <1>0. /\ TypeOK /\ op \in Op /\ mem \in [Entities -> Record] /\ Within(mem)
        /\ pendingRuntime \in Seq(Event)
        /\ \A f \in Entities : mem[f] \in Record /\ mem[f].rev \in Nat /\ mem[f].gen \in Nat
    BY DEF IInv, TypeOK, Record, Bounds
  <1>1. ASSUME UNCHANGED <<mem, log, pendingDurable, io>>, op' = NoOp
        PROVE  Bounds'
    BY <1>1, NoOpFields, SameBounds DEF Bounds
  <1>2. ASSUME UNCHANGED <<log, pendingDurable>>, Within(mem'), op'.phase = "commit",
               op'.kind \in Undoing => Within(op'.undo), InUniverse(Range(io.batch)')
        PROVE  Bounds'
    BY <1>2 DEF Bounds, Within, InUniverse, Undoing, Lifecycle
  <1>3. ASSUME NEW e \in Entities, ApplyMutation(e)
        PROVE  Bounds'
    <2>1. CASE op' = NoOp /\ UNCHANGED <<mem, life, io>>
      BY <1>1, <1>3, <2>1 DEF ApplyMutation, stream
    <2>2. ASSUME op' # NoOp \/ ~UNCHANGED <<mem, life, io>>
          PROVE  Bounds'
      <3>1. /\ mem' = Mutated(e) /\ (Creates(e) \/ Renames(e))
            /\ op' = [op EXCEPT !.phase = "commit", !.undo = mem, !.undoLife = life]
            /\ io'.batch = MutationEvents(e) /\ UNCHANGED <<log, pendingDurable>>
        BY <1>3, <2>2 DEF ApplyMutation, BeginWrite, stream
      <3>2. op'.phase = "commit" /\ op'.undo = mem BY <1>0, <3>1 DEF Op
      <3>3. Within(mem')
        <4> SUFFICES ASSUME NEW f \in Entities
                     PROVE  mem'[f].rev <= MaxRevision /\ mem'[f].gen <= MaxGeneration
          BY DEF Within
        <4>1. CASE Creates(e)
          <5>1. mem'[f].rev = mem[f].rev /\ mem'[f].gen = mem[f].gen
            BY <1>0, <3>1, <4>1 DEF Mutated, Record
          <5> QED BY <1>0, <5>1 DEF Within
        <4>2. CASE ~Creates(e)
          <5>1. /\ mem'[f].gen = mem[f].gen
                /\ mem'[f].rev = IF f = e THEN mem[f].rev + 1 ELSE mem[f].rev
            BY <1>0, <3>1, <4>2 DEF Mutated, Record
          <5>2. mem[e].rev < MaxRevision BY <3>1, <4>2 DEF Renames
          <5> QED BY <1>0, <5>1, <5>2, ConstantsAssumption DEF Within
        <4> QED BY <4>1, <4>2
      <3>4. PICK x : MutationEvents(e) = <<x>> /\ x \in Universe
        <4>1. CASE Creates(e)
          <5>1. MutationEvents(e) = <<Evt("Created", e, 0)>> BY <4>1 DEF MutationEvents
          <5>2. Evt("Created", e, 0) \in Universe
            BY InTheUniverse, ConstantsAssumption DEF DurableKinds
          <5> QED BY <5>1, <5>2
        <4>2. CASE ~Creates(e)
          <5>1. MutationEvents(e) = <<Evt("Renamed", e, mem[e].rev + 1)>>
            BY <4>2 DEF MutationEvents
          <5>2. mem[e].rev + 1 \in Nat /\ mem[e].rev + 1 <= MaxRevision
            BY <1>0, <3>1, <4>2, ConstantsAssumption DEF Renames
          <5>3. Evt("Renamed", e, mem[e].rev + 1) \in Universe
            BY <5>2, InTheUniverse DEF DurableKinds
          <5> QED BY <5>1, <5>3
        <4> QED BY <4>1, <4>2
      <3>5. Range(io.batch)' = {x} BY <3>1, <3>4 DEF Range
      <3> QED BY <1>0, <1>2, <3>1, <3>2, <3>3, <3>4, <3>5 DEF InUniverse
    <2> QED BY <2>1, <2>2
  <1>4. ASSUME NEW S \in SUBSET Shells, \A s \in S : mem[s].gen < MaxGeneration
        PROVE  /\ Within(Started(S))
               /\ InUniverse(Range(RunEvents("RunStarted", S, Started(S))))
    <2>1. Started(S) \in [Entities -> Record] BY <1>0, StartedType
    <2>2. ASSUME NEW f \in Entities
          PROVE  /\ Started(S)[f].rev <= MaxRevision
                 /\ Started(S)[f].gen <= MaxGeneration
      <3>1. /\ Started(S)[f].rev = mem[f].rev
            /\ Started(S)[f].gen = IF f \in S THEN mem[f].gen + 1 ELSE mem[f].gen
        BY <1>0 DEF Started, Record
      <3> QED BY <1>0, <1>4, <3>1, ConstantsAssumption DEF Within
    <2>3. Within(Started(S)) BY <2>2 DEF Within
    <2> QED BY <2>1, <2>3, RunsWithin DEF DurableKinds
  <1>5. ASSUME NEW s \in Shells, ApplyStart(s)
        PROVE  Bounds'
    <2>1. /\ mem' = Started({s}) /\ op' = [op EXCEPT !.phase = "commit"]
          /\ op.kind = "start" /\ op.phase = "apply" /\ s \in op.targets
          /\ io'.batch = RunEvents("RunStarted", {s}, Started({s}))
          /\ UNCHANGED <<log, pendingDurable>>
      BY <1>5 DEF ApplyStart, BeginWrite, stream
    <2>2. \A t \in {s} : mem[t].gen < MaxGeneration BY <2>1 DEF Bounds
    <2>3. op'.phase = "commit" /\ op'.kind \notin Undoing
      BY <1>0, <2>1 DEF Op, Undoing, Lifecycle
    <2> QED BY <1>2, <1>4, <2>1, <2>2, <2>3
  <1>6. ASSUME NEW S \in SUBSET Shells, ApplyRecover(S)
        PROVE  Bounds'
    <2>1. CASE op' = NoOp /\ UNCHANGED <<mem, life, reader, io>>
      BY <1>1, <1>6, <2>1 DEF ApplyRecover, stream
    <2>2. ASSUME op' # NoOp \/ ~UNCHANGED <<mem, life, reader, io>>
          PROVE  Bounds'
      <3>0. S # {} /\ ReserveWithPending(Cardinality(op.targets))
        BY <1>6, <2>2 DEF ApplyRecover
      <3>1. /\ mem' = Started(S) /\ UNCHANGED <<log, pendingDurable>>
            /\ op' = [op EXCEPT !.phase = "commit", !.targets = S, !.undo = mem]
            /\ BeginWrite("commit", Started(S), RunEvents("RunStarted", S, Started(S)),
                          Cardinality(S), FALSE)
        BY <1>6, <3>0 DEF ApplyRecover, stream
      <3>4. io'.batch = RunEvents("RunStarted", S, Started(S)) BY <3>1 DEF BeginWrite
      <3>2. \A s \in S : mem[s].gen < MaxGeneration BY <1>6 DEF ApplyRecover
      <3>3. op'.phase = "commit" /\ op'.undo = mem BY <1>0, <3>1 DEF Op
      <3> QED BY <1>0, <1>2, <1>4, <3>1, <3>2, <3>3, <3>4
    <2> QED BY <2>1, <2>2
  <1>7. ASSUME NEW s \in Shells, ApplyExit(s)
        PROVE  Bounds'
    <2> DEFINE exit == Evt("RunExited", s, mem[s].gen)
    <2>1. CASE op' = NoOp /\ UNCHANGED <<mem, life, pendingRuntime, io>>
      BY <1>1, <1>7, <2>1 DEF ApplyExit
    <2>2. ASSUME op' # NoOp \/ ~UNCHANGED <<mem, life, pendingRuntime, io>>
          PROVE  Bounds'
      <3>1. /\ mem' = Ended(mem, {s}) /\ op' = [op EXCEPT !.phase = "commit"]
            /\ op.kind = "exit" /\ io'.batch = pendingRuntime \o <<exit>>
            /\ UNCHANGED <<log, pendingDurable>>
        BY <1>7, <2>2 DEF ApplyExit, BeginWrite
      <3>2. op'.phase = "commit" /\ op'.kind \notin Undoing
        BY <1>0, <3>1 DEF Op, Undoing, Lifecycle
      <3>3. Within(mem') BY <1>0, <3>1, EndedWithin
      <3>4. s \in Entities /\ mem[s].gen \in Nat /\ mem[s].gen <= MaxGeneration
        BY <1>0 DEF Entities, Within
      <3>5. exit \in Universe BY <3>4, InTheUniverse DEF DurableKinds
      <3>6. exit \in Event BY <3>4 DEF Evt, Event, DurableKinds
      <3> HIDE DEF exit
      <3>7. <<exit>> \in Seq(Event) /\ Range(<<exit>>) = {exit} BY <3>6 DEF Range
      <3>8. Range(pendingRuntime \o <<exit>>) = Range(pendingRuntime) \cup {exit}
        BY <1>0, <3>6, RangeAppended
      <3>9. InUniverse(Range(pendingRuntime))
        BY RuntimeWithin DEF KInv, Knowledge, RuntimeOnly
      <3>10. InUniverse(Range(io.batch)')
        <4>1. Range(io.batch)' = Range(pendingRuntime) \cup {exit} BY <3>1, <3>7, <3>8
        <4> QED BY <3>5, <3>9, <4>1 DEF InUniverse
      <3> QED BY <1>2, <3>1, <3>2, <3>3, <3>10
    <2> QED BY <2>1, <2>2
  <1>8. CASE ApplyLifecycle
    <2> DEFINE killed == {s \in op.targets : life[s] = "running"}
               ended == Ended(mem, killed)
    <2>1. /\ mem' = Removed(ended) /\ op.kind \in Lifecycle /\ op.phase = "apply"
          /\ op' = [op EXCEPT !.phase = "commit", !.stopped = killed, !.undo = ended,
                              !.undoLife = SetAll(life, killed, "pending")]
          /\ io'.batch = CommittedEvents /\ UNCHANGED <<log, pendingDurable>>
      BY <1>8 DEF ApplyLifecycle, BeginWrite
    <2>2. ended \in [Entities -> Record] /\ Within(ended)
      <3>1. killed \in SUBSET Shells BY <2>1 DEF IInv, OpShape
      <3> QED BY <1>0, <3>1, RegistryTypes, EndedWithin
    <2> HIDE DEF killed, ended
    <2>3. Within(mem') BY <2>1, <2>2, EndedWithin
    <2>4. op'.phase = "commit" /\ op'.undo = ended BY <1>0, <2>1 DEF Op
    <2>5. \A x \in Range(CommittedEvents) : x \in Universe
      <3>1. CASE op.kind = "shutdown" BY <3>1, EmptyRange DEF CommittedEvents
      <3>2. CASE op.kind = "closeWorkspace"
        <4>1. Range(CommittedEvents) = {Evt("Closed", Workspace, 0)}
          BY <3>2 DEF CommittedEvents, Range
        <4>2. Evt("Closed", Workspace, 0) \in Universe
          BY InTheUniverse, ConstantsAssumption DEF DurableKinds, Entities
        <4> QED BY <4>1, <4>2
      <3>3. CASE op.kind = "close"
        <4> DEFINE t == CHOOSE s \in op.targets : TRUE
        <4>1. t \in Entities BY <3>3 DEF IInv, OpShape, Entities
        <4>2. CommittedEvents = <<Evt("Closed", t, 0)>> BY <3>3 DEF CommittedEvents
        <4> HIDE DEF t
        <4>3. Evt("Closed", t, 0) \in Universe
          BY <4>1, InTheUniverse, ConstantsAssumption DEF DurableKinds
        <4>4. Range(CommittedEvents) = {Evt("Closed", t, 0)} BY <4>2 DEF Range
        <4> QED BY <4>3, <4>4
      <3> QED BY <2>1, <3>1, <3>2, <3>3 DEF Lifecycle
    <2>6. InUniverse(Range(io.batch)') BY <2>1, <2>5 DEF InUniverse
    <2> QED BY <1>2, <2>1, <2>2, <2>3, <2>4, <2>6
  <1> QED BY <1>3, <1>5, <1>6, <1>7, <1>8

\* An operation that ends leaves, restores or ends runs of a registry within the
\* bounds, and what it announces is too.
LEMMA EndBounds ==
  ASSUME Bounds, KInv, IInv,
         \/ FinishMutation \/ FinishStart \/ FinishExit \/ ExitFailed \/ FinishLifecycle
         \/ MutationFailed \/ LifecycleFailed \/ StartFailed \/ AbortLifecycle
  PROVE  Bounds'
  <1>0. /\ TypeOK /\ op \in Op /\ io \in IO /\ io.batch \in Seq(Event)
        /\ pendingDurable \in Seq(Event) /\ <<>> \in Seq(Event) /\ RuntimeOnly
        /\ mem \in [Entities -> Record] /\ op.undo \in [Entities -> Record]
        /\ InUniverse(Range(log)) /\ Within(mem)
    BY DEF IInv, TypeOK, IO, Op, KInv, Knowledge, Bounds
  <1>e. InUniverse(Range(<<>>)) BY EmptyRange DEF InUniverse
  <1>1. ASSUME op' = NoOp, Within(mem'), io'.batch = io.batch \/ io'.batch = <<>>,
               NEW batch \in Seq(Event), NEW durable, NEW runtime \in {pendingRuntime, <<>>},
               NEW held, NEW busy, Settle(batch, durable, runtime, held, busy),
               InUniverse(Range(batch)), InUniverse(Range(durable))
        PROVE  Bounds'
    <2>1. InUniverse(Range(log)') /\ InUniverse(Range(pendingDurable)')
      BY <1>0, <1>1, SettleBounds
    <2>2. InUniverse(Range(io.batch)') BY <1>1, <1>e DEF Bounds
    <2>3. op'.phase = "admit" BY <1>1, NoOpFields
    <2> QED BY <1>1, <2>1, <2>2, <2>3 DEF Bounds, Within, InUniverse
  <1> DEFINE queue == pendingDurable \o io.batch
  <1>2. queue \in Seq(Event) /\ Range(queue) = Range(pendingDurable) \cup Range(io.batch)
    BY <1>0, ConcatProperties, RangeConcatenation
  <1>3. InUniverse(Range(queue))
    <2> HIDE DEF queue
    <2> QED BY <1>2 DEF Bounds, InUniverse
  <1> HIDE DEF queue
  <1>4. CASE FinishMutation \/ FinishStart \/ FinishLifecycle
    <2>1. /\ \E held : Settle(io.batch, pendingDurable, pendingRuntime, held, FALSE)
          /\ io'.batch = <<>> /\ UNCHANGED mem /\ op' = NoOp
      BY <1>4, NoOpFields DEF FinishMutation, FinishStart, FinishLifecycle
    <2>2. InUniverse(Range(io.batch)) /\ InUniverse(Range(pendingDurable)) BY DEF Bounds
    <2> QED BY <1>0, <1>1, <2>1, <2>2
  <1>5. CASE FinishExit
    <2>1. /\ Settle(queue, <<>>, pendingRuntime, reservation, FALSE)
          /\ io'.batch = <<>> /\ UNCHANGED mem /\ op' = NoOp
      BY <1>5, NoOpFields DEF FinishExit, queue
    <2> QED BY <1>0, <1>1, <1>2, <1>3, <1>e, <2>1
  <1>6. CASE ExitFailed
    <2>1. /\ Settle(<<>>, queue, pendingRuntime, reservation, FALSE)
          /\ io'.batch = <<>> /\ UNCHANGED mem /\ op' = NoOp
      BY <1>6, NoOpFields DEF ExitFailed, queue
    <2> QED BY <1>0, <1>1, <1>3, <1>e, <2>1
  <1>7. CASE MutationFailed \/ StartFailed
    <2>1. /\ Settle(<<>>, pendingDurable, pendingRuntime, reservation, FALSE)
          /\ io'.batch = <<>> /\ op' = NoOp
      BY <1>7, NoOpFields DEF MutationFailed, StartFailed
    <2>2. Within(mem')
      <3>1. \/ mem' = op.undo /\ op.kind \in Undoing /\ op.phase = "commit"
            \/ mem' = Ended(mem, op.targets)
        BY <1>7 DEF MutationFailed, StartFailed, Undoing
      <3>2. Within(Ended(mem, op.targets)) BY <1>0, EndedWithin
      <3> QED BY <3>1, <3>2 DEF Bounds
    <2>3. InUniverse(Range(pendingDurable)) BY DEF Bounds
    <2> QED BY <1>0, <1>1, <1>e, <2>1, <2>2, <2>3
  <1>8. ASSUME NEW S \in SUBSET Shells, NEW m \in [Entities -> Record], Within(m)
        PROVE  InUniverse(Range(pendingDurable \o Compensation(S, m)))
    <2>1. Range(pendingDurable \o Compensation(S, m)) =
              Range(pendingDurable) \cup Range(pendingRuntime)
                \cup Range(RunEvents("RunExited", S, m))
      BY <1>0, CompensationRange
    <2>2. /\ InUniverse(Range(RunEvents("RunExited", S, m)))
          /\ InUniverse(Range(pendingRuntime))
      BY <1>0, <1>8, RunsWithin, RuntimeWithin DEF DurableKinds, RuntimeOnly
    <2> QED BY <2>1, <2>2 DEF Bounds, InUniverse
  <1>9. CASE LifecycleFailed
    <2>1. /\ op.kind \in Lifecycle /\ op.phase = "commit" /\ io'.batch = <<>>
          /\ mem' = op.undo /\ op' = NoOp
          /\ Settle(<<>>, pendingDurable \o Compensation(op.stopped, op.undo), <<>>, 0, FALSE)
      BY <1>9, NoOpFields DEF LifecycleFailed
    <2>2. Within(op.undo) BY <2>1 DEF Bounds, Undoing
    <2>3. op.stopped \in SUBSET Shells BY <1>0 DEF Op
    <2> QED BY <1>0, <1>1, <1>8, <1>e, <2>1, <2>2, <2>3
  <1>10. CASE AbortLifecycle
    <2> DEFINE killed == {s \in op.stopped : life[s] = "running"}
    <2>1. /\ Settle(<<>>, pendingDurable \o Compensation(killed, mem), <<>>, 0, InFlight)
          /\ mem' = Ended(mem, killed) /\ op' = NoOp /\ (io' = io \/ io' = Touched)
      BY <1>10 DEF AbortLifecycle
    <2>2. io'.batch = io.batch BY <1>0, <2>1 DEF Touched, IO
    <2>3. killed \in SUBSET Shells BY <1>0 DEF Op
    <2> HIDE DEF killed
    <2>4. Within(mem') BY <1>0, <2>1, EndedWithin
    <2> QED BY <1>0, <1>1, <1>8, <1>e, <2>1, <2>2, <2>3, <2>4
  <1> QED BY <1>4, <1>5, <1>6, <1>7, <1>9, <1>10

\* What a restart restores of an entity: the file's record, moved forward by the
\* creation and the last start the journal records.
LEMMA RecoveredFields ==
  ASSUME TypeOK, NEW e \in Entities
  PROVE  /\ LastStarts(e) # {} =>
              /\ LastStart(e) \in LastStarts(e) /\ LastStart(e).n \in Nat
              /\ LastStart(e) \in journal
         /\ Recovered[e].rev = disk[e].rev
         /\ Recovered[e].status = IF /\ Evt("Created", e, 0) \in journal
                                     /\ disk[e].status = "unborn"
                                  THEN "live" ELSE disk[e].status
         /\ IF LastStarts(e) # {} /\ LastStart(e).n > disk[e].gen
            THEN Recovered[e].gen = LastStart(e).n
            ELSE /\ Recovered[e].gen = disk[e].gen
                 /\ disk[e].run # "active" => Recovered[e].run # "active"
  <1>0. disk[e] \in Record /\ disk[e].gen \in Nat /\ journal \in SUBSET Event
    BY DEF TypeOK, Record
  <1>1. LastStarts(e) # {} =>
          /\ LastStart(e) \in LastStarts(e) /\ LastStart(e).n \in Nat
          /\ LastStart(e) \in journal
    <2>1. LastStarts(e) # {} => LastStart(e) \in LastStarts(e) BY DEF LastStart
    <2>2. LastStarts(e) \subseteq journal BY DEF LastStarts
    <2> QED BY <1>0, <2>1, <2>2 DEF Event
  <1> DEFINE saved == disk[e]
             born == IF Evt("Created", e, 0) \in journal /\ saved.status = "unborn"
                     THEN [saved EXCEPT !.status = "live"] ELSE saved
  <1>2. /\ born \in Record /\ born.rev = saved.rev /\ born.gen = saved.gen
        /\ born.run = saved.run
        /\ born.status = IF /\ Evt("Created", e, 0) \in journal
                            /\ disk[e].status = "unborn"
                         THEN "live" ELSE disk[e].status
    BY <1>0 DEF Record
  <1>3. Recovered[e] =
          IF LastStarts(e) # {} /\ LastStart(e).n > saved.gen
          THEN [born EXCEPT !.gen = LastStart(e).n, !.run = "interrupted"]
          ELSE IF born.run = "active" THEN [born EXCEPT !.run = "interrupted"] ELSE born
    BY DEF Recovered
  <1> HIDE DEF born
  <1> QED BY <1>1, <1>2, <1>3 DEF Record

\* What a restart restores is later than the file and covers the journal.
LEMMA RecoveredKnows ==
  ASSUME TypeOK, Replayed
  PROVE  Later(disk, Recovered) /\ Covered(Recovered, journal)
  <1>0. /\ journal \in SUBSET Event
        /\ \A e \in Entities : disk[e].gen \in Nat /\ disk[e].rev \in Nat
    BY DEF TypeOK, Record
  <1>3. Later(disk, Recovered) BY <1>0, RecoveredFields DEF Later
  <1>4. ASSUME NEW x \in journal
        PROVE  Covers(Recovered, x)
    <2>0. x.of \in Entities /\ x.n \in Nat BY <1>0 DEF Event
    <2>1. CASE x = Evt("Created", x.of, 0)
      <3>1. Recovered[x.of].status # "unborn" BY <2>0, <2>1, RecoveredFields
      <3>2. x.kind = "Created" BY <2>1 DEF Evt
      <3> QED BY <3>1, <3>2 DEF Covers
    <2>2. CASE x.kind = "RunStarted" /\ LastStarts(x.of) # {}
      <3>1. LastStart(x.of) \in LastStarts(x.of) /\ LastStart(x.of).n \in Nat
        BY <2>0, <2>2, RecoveredFields
      <3>2. x.n <= LastStart(x.of).n BY <2>2, <3>1 DEF LastStarts
      <3>3. Recovered[x.of].gen >= x.n
        BY <1>0, <2>0, <2>2, <3>1, <3>2, RecoveredFields
      <3> QED BY <2>2, <3>3 DEF Covers
    <2> QED BY <2>1, <2>2 DEF Replayed
  <1> QED BY <1>3, <1>4 DEF Covered

\* A restart restores a registry within the bounds.
LEMMA CrashBounds ==
  ASSUME Bounds, KInv, IInv, CrashAndRestore
  PROVE  Bounds'
  <1>0. /\ disk \in [Entities -> Record] /\ mem \in [Entities -> Record]
        /\ journal \in SUBSET Event
        /\ \A e \in Entities : /\ disk[e] \in Record /\ mem[e].gen \in Nat
                               /\ mem[e].rev \in Nat
                               /\ disk[e].gen \in Nat /\ disk[e].rev \in Nat
    BY DEF IInv, TypeOK, Record
  <1>1. ASSUME NEW e \in Entities
        PROVE  disk[e].rev <= mem[e].rev /\ disk[e].gen <= mem[e].gen
    <2> DEFINE renamed == Evt("Renamed", e, disk[e].rev)
               started == Evt("RunStarted", e, disk[e].gen)
    <2>1. renamed \in Event /\ started \in Event BY <1>0 DEF Evt, Event, DurableKinds
    <2>2. Covers(disk, renamed) /\ Covers(disk, started) BY <1>0 DEF Covers, Evt
    <2>3. Covers(mem, renamed) /\ Covers(mem, started)
      BY <2>1, <2>2 DEF KInv, Knowledge, MemKnows, Behind
    <2> QED BY <1>0, <2>3 DEF Covers, Evt
  <1>2. ASSUME NEW e \in Entities, NEW x \in LastStarts(e)
        PROVE  x.n \in Nat /\ x.n <= mem[e].gen
    <2>1. x \in journal /\ x.kind = "RunStarted" /\ x.of = e BY <1>2 DEF LastStarts
    <2>2. Covers(mem, x) BY <2>1 DEF KInv, Knowledge, MemKnows, Covered, Held
    <2> QED BY <1>0, <2>1, <2>2 DEF Covers, Event
  <1>3. ASSUME NEW e \in Entities
        PROVE  Recovered[e].rev <= MaxRevision /\ Recovered[e].gen <= MaxGeneration
    <2>1. /\ Recovered[e].rev = disk[e].rev
          /\ \/ Recovered[e].gen = disk[e].gen
             \/ LastStart(e) \in LastStarts(e) /\ Recovered[e].gen = LastStart(e).n
      BY RecoveredFields DEF IInv
    <2>2. /\ Recovered[e].rev <= mem[e].rev /\ Recovered[e].gen <= mem[e].gen
          /\ Recovered[e].rev \in Nat /\ Recovered[e].gen \in Nat
      BY <1>0, <1>1, <1>2, <2>1
    <2> QED BY <1>0, <2>2, ConstantsAssumption DEF Bounds, Within
  <1>4. /\ mem' = Recovered /\ log' = <<>> /\ pendingDurable' = <<>>
        /\ op'.phase = "admit" /\ io'.batch = <<>>
    BY NoOpFields DEF CrashAndRestore
  <1>5. Within(mem') BY <1>3, <1>4 DEF Within
  <1> QED BY <1>4, <1>5, EmptyRange DEF Bounds, Within, InUniverse

\* The bounds are inductive.
LEMMA BoundsStep == Bounds /\ KInv /\ IInv /\ IInv' /\ [Next]_vars => Bounds'
  <1> SUFFICES ASSUME Bounds, KInv, IInv, IInv', [Next]_vars PROVE Bounds' OBVIOUS
  <1>1. CASE UNCHANGED vars
    BY <1>1, SameBounds DEF vars, Bounds
  <1>2. CASE Operations
    BY <1>2, PassingBounds, ApplyBounds, EndBounds DEF Operations, Passing
  <1> QED BY <1>1, <1>2, WritesBounds, RequestsBounds, RunsBounds, CrashBounds DEF Next

\* A step that appends nothing to the journal, and begins at most a journal write of
\* a creation or of the start it made.
LEMMA KeptReplayed ==
  ASSUME Replayed, journal' = journal \/ journal' = {},
         io'.kind = "journal" => \A x \in Range(io.batch)' :
           \/ x = Evt("Created", x.of, 0)
           \/ x = Evt("RunStarted", x.of, mem'[x.of].gen)
  PROVE  Replayed'
  <1>1. journal' = journal => \A e : LastStarts(e)' = LastStarts(e) BY DEF LastStarts
  <1> QED BY <1>1 DEF Replayed, Evt

\* A step that appends nothing to the journal and begins no journal write.
LEMMA SameReplayed ==
  ASSUME Replayed, journal' = journal \/ journal' = {},
         io'.kind = "journal" =>
           mem' = mem /\ io.kind = "journal" /\ io'.batch = io.batch
  PROVE  Replayed'
  <1>1. journal' = journal => \A e : LastStarts(e)' = LastStarts(e) BY DEF LastStarts
  <1> QED BY <1>1 DEF Replayed, Evt

\* The journal keeps a last start of every Shell that has one.
LEMMA ReplayedStep == Replayed /\ KInv /\ IInv /\ [Next]_vars => Replayed'
  <1> SUFFICES ASSUME Replayed, KInv, IInv, [Next]_vars PROVE Replayed' OBVIOUS
  <1>0. io \in IO /\ op \in Op /\ journal \in SUBSET Event /\ mem \in [Entities -> Record]
    BY DEF IInv, TypeOK
  <1>1. CASE AppendSucceeds
    <2>1. /\ mem' = mem /\ journal' = journal \cup Range(io.batch) /\ io.kind = "journal"
          /\ io'.batch = io.batch
      BY <1>0, <1>1 DEF AppendSucceeds, IO
    <2>2. \A x \in Range(io.batch) :
            x \in {Evt("Created", x.of, 0), Evt("RunStarted", x.of, mem[x.of].gen)}
      BY <2>1 DEF Replayed
    <2>3. ASSUME NEW x \in Range(io.batch), x.kind = "RunStarted"
          PROVE  x \in LastStarts(x.of)'
      <3>1. x.n = mem[x.of].gen BY <2>2, <2>3 DEF Evt
      <3>2. x.n \in Nat BY <2>3, Ranges DEF Event, IInv
      <3>3. ASSUME NEW y \in journal, y.kind = "RunStarted", y.of = x.of
            PROVE  y.n <= x.n
        <4>1. Covers(mem, y) BY DEF KInv, Knowledge, MemKnows, Covered, Held
        <4>2. y.n \in Nat BY <1>0 DEF Event
        <4> QED BY <3>1, <3>2, <3>3, <4>1, <4>2 DEF Covers
      <3>4. ASSUME NEW y \in Range(io.batch), y.kind = "RunStarted", y.of = x.of
            PROVE  y.n <= x.n
        <4>1. y.n = mem[y.of].gen BY <2>2, <3>4 DEF Evt
        <4> QED BY <3>1, <3>2, <3>4, <4>1
      <3> QED BY <2>1, <2>3, <3>3, <3>4 DEF LastStarts
    <2>4. ASSUME NEW x \in journal'
          PROVE  x = Evt("Created", x.of, 0)
                 \/ (x.kind = "RunStarted" /\ LastStarts(x.of)' # {})
      <3>1. CASE x \in Range(io.batch)
        BY <2>2, <2>3, <3>1 DEF Evt
      <3>2. CASE x \in journal /\ x.kind = "RunStarted"
        <4>1. PICK z \in LastStarts(x.of) : TRUE BY <3>2 DEF Replayed, Evt
        <4>2. CASE \E y \in Range(io.batch) : y.kind = "RunStarted" /\ y.of = x.of
          <5>1. PICK y \in Range(io.batch) : y.kind = "RunStarted" /\ y.of = x.of BY <4>2
          <5> QED BY <2>3, <3>2, <5>1
        <4>3. CASE ~ \E y \in Range(io.batch) : y.kind = "RunStarted" /\ y.of = x.of
          <5>1. z \in LastStarts(x.of)' BY <2>1, <4>1, <4>3 DEF LastStarts
          <5> QED BY <3>2, <5>1
        <4> QED BY <4>2, <4>3
      <3> QED BY <2>1, <2>4, <3>1, <3>2 DEF Replayed
    <2> QED BY <2>1, <2>2, <2>4 DEF Replayed, Evt
  <1>2. CASE SaveSucceeds \/ SaveFails \/ FallbackResetFails \/ AppendFails
    <2>1. journal' = journal \/ journal' = {}
      BY <1>2 DEF SaveSucceeds, SaveFails, FallbackResetFails, AppendFails
    <2>2. mem' = mem /\ io'.batch = io.batch /\ (io'.kind = io.kind \/ io'.kind = "fallback")
      BY <1>0, <1>2 DEF SaveSucceeds, SaveFails, FallbackResetFails, AppendFails, IO
    <2> QED BY <2>1, <2>2, SameReplayed
  <1>3. CASE UNCHANGED vars \/ Requests \/ Passing \/ (OpFlush /\ io' = io)
    <2>1. UNCHANGED <<mem, journal, io>>
      <3>1. CASE \E s \in Shells : BeginStart(s) \/ RestartShell(s)
        BY <3>1 DEF BeginStart, RestartShell
      <3>2. CASE Requests /\ ~ \E s \in Shells : BeginStart(s) \/ RestartShell(s)
        <4>1. Quiet
          BY <3>2 DEF Requests, BeginMutation, BeginLocalCreate, BeginClose,
               BeginRecover, BeginCloseWorkspace, BeginShutdown, BeginBaseline,
               BeginCheckpoint
        <4> QED BY <4>1 DEF Quiet
      <3>3. CASE Passing
        BY <3>3 DEF Passing, SkipCheckpoint, ObserveBaseline, AdmitMutation, StartRefused,
             AdmitLifecycle, AllStopped, StopRuntime, StopFails, Quiet
      <3>4. CASE OpFlush /\ io' = io
        BY <3>4 DEF OpFlush, BeginFlush
      <3>5. CASE UNCHANGED vars BY <3>5 DEF vars
      <3> QED BY <1>3, <3>1, <3>2, <3>3, <3>4, <3>5
    <2> QED BY <2>1, SameReplayed
  <1>4. CASE \E b \in BOOLEAN : BeginFlush(b)
    BY <1>4, SameReplayed DEF BeginFlush, BeginWrite
  <1>5. CASE \/ WriteCheckpoint \/ FinishCheckpoint \/ CheckpointFailed
             \/ FinishFlush \/ FlushFailed
             \/ FinishMutation \/ FinishStart \/ FinishExit \/ ExitFailed \/ FinishLifecycle
             \/ MutationFailed \/ LifecycleFailed \/ StartFailed \/ CrashAndRestore
    <2>1. journal' = journal \/ journal' = {}
      BY <1>5 DEF WriteCheckpoint, FinishCheckpoint, CheckpointFailed, FinishFlush,
           FlushFailed, FinishMutation, FinishStart, FinishExit, ExitFailed,
           FinishLifecycle, MutationFailed, LifecycleFailed, StartFailed, CrashAndRestore
    <2>2. WriteCheckpoint \/ io' = NoIO
      BY <1>5 DEF FinishCheckpoint, CheckpointFailed, FinishFlush,
           FlushFailed, FinishMutation, FinishStart, FinishExit, ExitFailed,
           FinishLifecycle, MutationFailed, LifecycleFailed, StartFailed, CrashAndRestore
    <2>3. WriteCheckpoint => io'.kind = "checkpoint" BY DEF WriteCheckpoint, BeginWrite
    <2>4. io'.kind # "journal" BY <2>2, <2>3, NoOpFields
    <2> QED BY <2>1, <2>4, SameReplayed
  <1>6. CASE AbortLifecycle
    <2>1. /\ journal' = journal /\ op.phase = "abort" /\ (io' = io \/ io' = Touched)
      BY <1>6 DEF AbortLifecycle
    <2>2. io'.kind = io.kind BY <1>0, <2>1 DEF Touched, IO
    <2>3. io.kind # "journal" BY <2>1 DEF IInv, WriteShape
    <2> QED BY <2>1, <2>2, <2>3, SameReplayed
  <1>7. CASE Runs
    <2>1. UNCHANGED <<mem, journal>> /\ (io' = io \/ io' = Touched)
      BY <1>7 DEF Runs, PublishOutput, OutputRefused, CheckpointHistory, ProcessExits,
           BeginExit, shells
    <2>2. io'.kind = io.kind /\ io'.batch = io.batch BY <1>0, <2>1 DEF Touched, IO
    <2> QED BY <2>1, <2>2, SameReplayed
  <1>8. ASSUME NEW e \in Entities, ApplyMutation(e)
        PROVE  Replayed'
    <2>1. CASE UNCHANGED io
      BY <1>8, <2>1, SameReplayed DEF ApplyMutation
    <2>2. ASSUME ~UNCHANGED io
          PROVE  Replayed'
      <3>1. /\ io'.kind = IF op.kind = "local" THEN "journal" ELSE "commit"
            /\ io'.batch = MutationEvents(e) /\ UNCHANGED journal
            /\ op.kind = "local" => Creates(e)
        BY <1>8, <2>2 DEF ApplyMutation, BeginWrite
      <3>2. ASSUME op.kind = "local", NEW x \in Range(io.batch)'
            PROVE  x = Evt("Created", x.of, 0)
        <4>1. io'.batch = <<Evt("Created", e, 0)>> BY <3>1, <3>2 DEF MutationEvents
        <4>2. x = Evt("Created", e, 0) BY <3>2, <4>1 DEF Range
        <4> QED BY <4>2 DEF Evt
      <3> QED BY <3>1, <3>2, KeptReplayed
    <2> QED BY <2>1, <2>2
  <1>9. ASSUME NEW s \in Shells, ApplyStart(s)
        PROVE  Replayed'
    <2>1. /\ io'.batch = RunEvents("RunStarted", {s}, mem') /\ UNCHANGED journal
          /\ mem' \in [Entities -> Record]
      BY <1>0, <1>9, StartedType DEF ApplyStart, BeginWrite, IInv
    <2>2. ASSUME NEW x \in Range(io.batch)'
          PROVE  x = Evt("RunStarted", x.of, mem'[x.of].gen)
      <3>1. PICK t \in {s} : x = Evt("RunStarted", t, mem'[t].gen)
        BY <2>1, <2>2, RunEventsRange DEF DurableKinds
      <3> QED BY <3>1 DEF Evt
    <2> QED BY <2>1, <2>2, KeptReplayed
  <1>10. CASE \/ \E s \in Shells : ApplyExit(s)
              \/ \E S \in SUBSET Shells : ApplyRecover(S)
              \/ ApplyLifecycle
    <2>1. journal' = journal /\ (io' = io \/ io'.kind = "commit") /\ io.kind = "none"
      <3>1. ASSUME NEW S \in SUBSET Shells, ApplyRecover(S)
            PROVE  journal' = journal /\ (io' = io \/ io'.kind = "commit") /\ io.kind = "none"
        BY <3>1 DEF ApplyRecover, BeginWrite
      <3>2. ASSUME NEW s \in Shells, ApplyExit(s)
            PROVE  journal' = journal /\ (io' = io \/ io'.kind = "commit") /\ io.kind = "none"
        BY <3>2 DEF ApplyExit, BeginWrite
      <3>3. CASE ApplyLifecycle
        BY <3>3 DEF ApplyLifecycle, BeginWrite
      <3> QED BY <1>10, <3>1, <3>2, <3>3
    <2> QED BY <2>1, SameReplayed
  <1>11. CASE Writes
    <2>1. OpFlush => (OpFlush /\ io' = io) \/ BeginFlush(FALSE) BY DEF OpFlush
    <2> QED BY <1>11, <1>1, <1>2, <1>3, <1>4, <1>5, <2>1 DEF Writes, BackgroundFlush, Passing
  <1>12. CASE Operations
    BY <1>12, <1>3, <1>5, <1>6, <1>8, <1>9, <1>10 DEF Operations, Passing
  <1> QED BY <1>3, <1>5, <1>7, <1>11, <1>12 DEF Next

\* Both invariants hold of an empty stream and journal.
LEMMA InitReplayed == Init => Bounds /\ Replayed
  <1> SUFFICES ASSUME Init PROVE Bounds /\ Replayed OBVIOUS
  <1>1. /\ mem = [Blank EXCEPT ![Workspace].status = "live"] /\ journal = {}
        /\ log = <<>> /\ pendingDurable = <<>> /\ op.phase = "admit"
        /\ io.kind = "none" /\ io.batch = <<>>
    BY NoOpFields DEF Init
  <1>2. \A e \in Entities : mem[e].rev = 0 /\ mem[e].gen = 0 BY <1>1 DEF Blank
  <1>3. Within(mem) BY <1>2, ConstantsAssumption DEF Within
  <1> QED BY <1>1, <1>3, EmptyRange DEF Bounds, Replayed, InUniverse

-----------------------------------------------------------------------------
(* Every step is a step of the ledger.                                     *)

\* The log only grows.
Extends ==
  Len(log) <= Len(log') /\ \A i \in 1..Len(log) : log'[i] = log[i]

\* What is on stable storage stays there.
LEMMA PersistStep ==
  ASSUME UNCHANGED log, \A x \in Event : Durable(x) => Durable(x)'
  PROVE  Ledger!Next
  <1>1. Stored \subseteq Stored'
    <2>1. \A x \in Universe : x \in Event BY ConstantsAssumption DEF Universe, Event
    <2> QED BY <2>1 DEF Stored
  <1> QED BY <1>1 DEF Ledger!Next, Ledger!Persist

\* A step that extends the log publishes events that are stored and not yet in it.
LEMMA PublishStep ==
  ASSUME IInv, IInv', Bounds', Persisted', Once', UNCHANGED <<disk, journal>>, Extends
  PROVE  Ledger!Next
  <1>1. Stored' = Stored BY DEF Stored, Durable
  <1>2. log \in Seq(Event) /\ log' \in Seq(Event) BY DEF IInv, TypeOK
  <1>3. Len(log) \in Nat /\ Len(log') \in Nat /\ DOMAIN log' = 1..Len(log') BY <1>2
  <1>4. ASSUME NEW x \in Ledger!Appended, IsDurable(x)
        PROVE  x \in Stored
    <2>1. PICK i \in (Len(log) + 1)..Len(log') : x = log'[i] BY DEF Ledger!Appended
    <2>2. i \in DOMAIN log' BY <1>3
    <2>3. x \in Range(log)' BY <2>1, <2>2 DEF Range
    <2>4. x \in Universe BY <1>4, <2>3 DEF Bounds, InUniverse
    <2>5. Durable(x) BY <2>3 DEF Persisted, Durable
    <2> QED BY <2>4, <2>5 DEF Stored
  <1>5. ASSUME NEW i \in 1..Len(log'), NEW j \in (Len(log) + 1)..Len(log'),
               i # j, IsDurable(log'[j])
        PROVE  log'[i] # log'[j]
    <2>1. i \in DOMAIN log' /\ j \in DOMAIN log' BY <1>3
    <2> QED BY <1>5, <2>1 DEF Once, Distinct
  <1>6. Ledger!Publish BY <1>1, <1>4, <1>5 DEF Ledger!Publish, Extends
  <1> QED BY <1>6 DEF Ledger!Next

\* Settle extends the log.
LEMMA SettleExtends ==
  ASSUME TypeOK, NEW batch \in Seq(Event), NEW durable,
         NEW runtime \in {pendingRuntime, <<>>}, NEW held, NEW busy,
         Settle(batch, durable, runtime, held, busy)
  PROVE  Extends
  <1>1. runtime \in Seq(Event) /\ log \in Seq(Event)
    <2>1. <<>> \in Seq(Event) OBVIOUS
    <2> QED BY <2>1 DEF TypeOK
  <1> DEFINE first == log \o batch
  <1>2. /\ first \in Seq(Event) /\ Len(first) = Len(log) + Len(batch)
        /\ Len(log) \in Nat /\ Len(batch) \in Nat /\ Len(runtime) \in Nat
        /\ \A i \in 1..Len(first) : first[i] = IF i <= Len(log) THEN log[i]
                                               ELSE batch[i - Len(log)]
    BY <1>1, ConcatProperties
  <1> HIDE DEF first
  <1>s. first \in Seq(Event) BY <1>2
  <1>3. \A i \in 1..Len(log) : i \in 1..Len(first) /\ first[i] = log[i] BY <1>2
  <1> DEFINE all == first \o runtime
  <1>4. /\ Len(all) = Len(first) + Len(runtime)
        /\ \A i \in 1..Len(all) : all[i] = IF i <= Len(first) THEN first[i]
                                           ELSE runtime[i - Len(first)]
    BY <1>1, <1>s, ConcatProperties
  <1> HIDE DEF all
  <1>5. \A i \in 1..Len(log) : i \in 1..Len(all) /\ all[i] = log[i] BY <1>2, <1>3, <1>4
  <1>6. Len(log) <= Len(first) /\ Len(log) <= Len(all) BY <1>2, <1>4
  <1>7. log' = first \/ log' = all BY DEF Settle, first, all
  <1> QED BY <1>3, <1>5, <1>6, <1>7 DEF Extends

\* The steps that change the file or the journal publish nothing, and lose nothing
\* that was stored: what is put in place knows what it replaces.
LEMMA StorageStep ==
  ASSUME KInv, IInv,
         SaveSucceeds \/ FallbackResetFails \/ AppendSucceeds \/ FinishCheckpoint
  PROVE  Ledger!Next
  <1>0. io \in IO BY DEF IInv, TypeOK
  <1>1. UNCHANGED log
    BY DEF SaveSucceeds, FallbackResetFails, AppendSucceeds, FinishCheckpoint, stream
  <1>2. CASE SaveSucceeds \/ FallbackResetFails
    <2>1. /\ io.kind # "none" /\ disk' = io.gen
          /\ journal' = journal \/ journal' = {}
      BY <1>2 DEF SaveSucceeds, FallbackResetFails
    <2>2. Behind(disk, io.gen) /\ Covered(io.gen, journal)
      BY <2>1 DEF KInv, Knowledge, GenKnows, Covered
    <2> QED BY <1>1, <2>1, <2>2, PersistStep DEF Durable, Behind, Covered
  <1>3. CASE AppendSucceeds
    <2>1. journal \subseteq journal' /\ disk' = disk BY <1>3 DEF AppendSucceeds
    <2> QED BY <1>1, <2>1, PersistStep DEF Durable
  <1>4. CASE FinishCheckpoint
    <2>1. /\ io.kind = "checkpoint" /\ io.phase = "saved" /\ disk' = disk
          /\ journal' = {}
      BY <1>4 DEF FinishCheckpoint
    <2>2. Covered(disk, journal)
      BY <2>1 DEF KInv, Knowledge, GenKnows, Saved, Covered
    <2> QED BY <1>1, <2>1, <2>2, PersistStep DEF Durable, Covered
  <1> QED BY <1>2, <1>3, <1>4

\* A restart begins a new stream and keeps what was stored: the journal's records
\* are replayed over the file.
LEMMA RestartStep ==
  ASSUME KInv, IInv, Replayed, CrashAndRestore
  PROVE  Ledger!Next
  <1>1. log' = <<>> /\ disk' = Recovered BY DEF CrashAndRestore
  <1>2. Later(disk, Recovered) /\ Covered(Recovered, journal)
    BY RecoveredKnows DEF IInv
  <1>3. Behind(disk, Recovered) BY <1>2, LaterBehind, RecoveredType DEF IInv, TypeOK
  <1>4. \A x \in Event : Durable(x) => Covers(disk', x)
    BY <1>1, <1>2, <1>3 DEF Durable, Behind, Covered
  <1>5. Stored \subseteq Stored'
    <2>1. \A x \in Universe : x \in Event BY ConstantsAssumption DEF Universe, Event
    <2> QED BY <1>4, <2>1 DEF Stored, Durable
  <1> QED BY <1>1, <1>5 DEF Ledger!Next, Ledger!Restart

\* What ends publishes its batch, and the runtime events that waited for it.
LEMMA EndExtends ==
  ASSUME IInv,
         \/ FinishFlush \/ FlushFailed
         \/ FinishMutation \/ FinishStart \/ FinishExit \/ ExitFailed \/ FinishLifecycle
         \/ MutationFailed \/ LifecycleFailed \/ StartFailed \/ AbortLifecycle
  PROVE  UNCHANGED <<disk, journal>> /\ Extends
  <1>0. /\ TypeOK /\ io.batch \in Seq(Event) /\ pendingDurable \in Seq(Event)
        /\ <<>> \in Seq(Event) /\ pendingDurable \o io.batch \in Seq(Event)
    BY ConcatProperties DEF IInv, TypeOK, IO
  <1>1. UNCHANGED <<disk, journal>>
    BY DEF FinishFlush, FlushFailed, FinishMutation, FinishStart, FinishExit, ExitFailed,
           FinishLifecycle, MutationFailed, LifecycleFailed, StartFailed, AbortLifecycle
  <1>2. \E batch \in Seq(Event), runtime \in {pendingRuntime, <<>>} :
          \E durable, held, busy : Settle(batch, durable, runtime, held, busy)
    <2>1. CASE FinishFlush \/ FinishMutation \/ FinishStart \/ FinishLifecycle
      BY <1>0, <2>1 DEF FinishFlush, FinishMutation, FinishStart, FinishLifecycle
    <2>2. CASE FinishExit
      BY <1>0, <2>2 DEF FinishExit
    <2>3. CASE FlushFailed \/ ExitFailed \/ MutationFailed \/ StartFailed
      BY <1>0, <2>3 DEF FlushFailed, ExitFailed, MutationFailed, StartFailed
    <2>4. CASE LifecycleFailed \/ AbortLifecycle
      BY <1>0, <2>4 DEF LifecycleFailed, AbortLifecycle
    <2> QED BY <2>1, <2>2, <2>3, <2>4
  <1> QED BY <1>0, <1>1, <1>2, SettleExtends

\* The other steps leave the file and the journal, and publish at most output.
LEMMA OtherExtends ==
  ASSUME IInv,
         \/ SaveFails \/ AppendFails \/ WriteCheckpoint \/ CheckpointFailed
         \/ (\E b \in BOOLEAN : BeginFlush(b)) \/ OpFlush
         \/ Passing \/ Requests \/ Runs
         \/ \E e \in Entities : ApplyMutation(e)
         \/ \E s \in Shells : ApplyStart(s) \/ ApplyExit(s)
         \/ \E S \in SUBSET Shells : ApplyRecover(S)
         \/ ApplyLifecycle
  PROVE  UNCHANGED <<disk, journal>> /\ Extends
  <1>0. log \in Seq(Event) BY DEF IInv, TypeOK
  <1>1. UNCHANGED log => Extends BY <1>0 DEF Extends
  <1>2. CASE SaveFails \/ AppendFails \/ WriteCheckpoint \/ CheckpointFailed
    BY <1>1, <1>2 DEF SaveFails, AppendFails, WriteCheckpoint, CheckpointFailed, stream
  <1>3. CASE (\E b \in BOOLEAN : BeginFlush(b)) \/ OpFlush
    BY <1>1, <1>3 DEF BeginFlush, OpFlush, stream
  <1>4. CASE Passing
    BY <1>1, <1>4 DEF Passing, SkipCheckpoint, ObserveBaseline, AdmitMutation, StartRefused,
         AdmitLifecycle, AllStopped, StopRuntime, StopFails, Quiet, stream
  <1>5. CASE Requests
    <2>1. CASE \E s \in Shells : BeginStart(s) \/ RestartShell(s)
      BY <1>1, <2>1 DEF BeginStart, RestartShell, stream
    <2>2. CASE ~ \E s \in Shells : BeginStart(s) \/ RestartShell(s)
      <3>1. Quiet
        BY <1>5, <2>2 DEF Requests, BeginMutation, BeginLocalCreate, BeginClose,
             BeginRecover, BeginCloseWorkspace, BeginShutdown, BeginBaseline,
             BeginCheckpoint
      <3> QED BY <1>1, <3>1 DEF Quiet, stream
    <2> QED BY <2>1, <2>2
  <1>6. CASE Runs
    <2>1. ASSUME NEW s \in Shells, PublishOutput(s)
          PROVE  UNCHANGED <<disk, journal>> /\ Extends
      <3> DEFINE e == Evt("OutputChanged", s, mem[s].gen)
      <3>1. UNCHANGED <<disk, journal>> /\ (log' = log \/ log' = Append(log, e))
        BY <2>1 DEF PublishOutput
      <3> HIDE DEF e
      <3>2. log' = Append(log, e) => Extends
        BY <1>0, AppendProperties DEF Extends
      <3> QED BY <1>1, <3>1, <3>2
    <2>2. ASSUME NEW s \in Shells, OutputRefused(s) \/ ProcessExits(s) \/ CheckpointHistory(s)
          PROVE  UNCHANGED <<disk, journal>> /\ Extends
      BY <1>1, <2>2 DEF OutputRefused, ProcessExits, CheckpointHistory, stream
    <2>3. ASSUME NEW x \in exits, BeginExit(x[1], x[2])
          PROVE  UNCHANGED <<disk, journal>> /\ Extends
      BY <1>1, <2>3 DEF BeginExit, stream
    <2> QED BY <1>6, <2>1, <2>2, <2>3 DEF Runs
  <1>7. CASE \/ \E e \in Entities : ApplyMutation(e)
             \/ \E s \in Shells : ApplyStart(s) \/ ApplyExit(s)
             \/ \E S \in SUBSET Shells : ApplyRecover(S)
             \/ ApplyLifecycle
    BY <1>1, <1>7 DEF ApplyMutation, ApplyStart, ApplyExit, ApplyRecover, ApplyLifecycle, stream
  <1> QED BY <1>2, <1>3, <1>4, <1>5, <1>6, <1>7

\* Every step of the coordinator is a step of the ledger.
LEMMA LedgerStep ==
  ASSUME KInv, IInv, Replayed, [Next]_vars, IInv', KInv', Bounds', Once'
  PROVE  [Ledger!Next]_(Ledger!ledger)
  <1>1. CASE UNCHANGED vars
    <2>1. UNCHANGED <<Stored, log>> BY <1>1 DEF vars, Stored, Durable
    <2> QED BY <2>1 DEF Ledger!ledger
  <1>2. ASSUME UNCHANGED <<disk, journal>>, Extends
        PROVE  Ledger!Next
    BY <1>2, PublishStep DEF KInv
  <1>3. CASE Writes
    BY <1>2, <1>3, StorageStep, EndExtends, OtherExtends
    DEF Writes, BackgroundFlush, Passing
  <1>4. CASE Operations
    BY <1>2, <1>4, EndExtends, OtherExtends DEF Operations, Passing
  <1>5. CASE Requests \/ Runs
    BY <1>2, <1>5, OtherExtends
  <1> QED BY <1>1, <1>3, <1>4, <1>5, RestartStep DEF Next

\* The coordinator implements the event ledger: every step persists facts, publishes
\* stored ones that are not yet in the log, or restarts, and no fact ever leaves
\* stable storage, be it the state file, the journal or a checkpoint of one into
\* the other.
THEOREM RefinesLedger == Spec => ImplementsLedger
  <1>1. Init => Ledger!Init BY DEF Init, Ledger!Init
  <1>2. Spec => []Bounds
    BY InitReplayed, BoundsStep, Knowing, Invariance, PTL DEF Spec
  <1>3. Spec => []Replayed
    BY InitReplayed, ReplayedStep, Knowing, Invariance, PTL DEF Spec
  <1>4. IInv /\ KInv /\ Replayed /\ [Next]_vars /\ IInv' /\ KInv' /\ Bounds' /\ Once'
          => [Ledger!Next]_(Ledger!ledger)
    BY LedgerStep
  <1> QED BY <1>1, <1>2, <1>3, <1>4, Invariance, Knowing, Announcing, PTL
          DEF Spec, ImplementsLedger, Ledger!Spec

-----------------------------------------------------------------------------
(* The inductive invariant of RunOrder.  A run that goes on was announced  *)
(* before its reader was resumed, and its reader stops before it ends.     *)

\* The start of the run that m has last of a Shell is published.
StartKnown(s, m) == Evt("RunStarted", s, m[s].gen) \in Range(log)
Committing(s) == op.kind \in {"start", "recover"} /\ op.phase = "commit" /\ s \in op.targets

\* Only the run of a running Shell is read, and not before it is announced nor
\* after it exited or was stopped.
ReadersRun ==
  \A s \in Shells : reader[s] = "reading" =>
    /\ life[s] = "running" /\ ~Committing(s) /\ <<s, mem[s].gen>> \notin exits
    /\ ~(op.kind = "exit" /\ s \in op.targets)
    /\ op.kind \in Lifecycle => s \notin op.stopped

\* What runs was announced, or is by the write under way.
RunsAnnounced ==
  /\ \A s \in Shells : life[s] = "running" => StartKnown(s, mem) \/ Committing(s)
  /\ \A s \in Shells : Committing(s) =>
       life[s] = "running" /\ Evt("RunStarted", s, mem[s].gen) \in Range(io.batch)
  /\ \A x \in exits : Evt("RunStarted", x[1], x[2]) \in Range(log)

\* Only a Shell that was created runs; a start is of one.
RunsBorn ==
  /\ \A s \in Shells : life[s] = "running" => mem[s].status # "unborn"
  /\ op.kind = "start" =>
       \E s \in Shells : op.targets = {s} /\ mem[s].status # "unborn"
  /\ op.phase = "commit" /\ op.kind \in {"mutate", "local"} \cup Lifecycle =>
       \A s \in Shells : op.undoLife[s] = "running" => op.undo[s].status # "unborn"

\* A rollback restores the lives of the runs that are read, and the runs it
\* restores or compensates were announced.
UndoAnnounced ==
  op.phase = "commit" /\ op.kind \in {"mutate", "local"} \cup Lifecycle =>
    \A s \in Shells :
      /\ op.undo[s].gen = mem[s].gen
      /\ op.undoLife[s] = "running" => StartKnown(s, op.undo)
      /\ op.kind \in Lifecycle /\ s \in op.stopped => StartKnown(s, op.undo)
      /\ reader[s] = "reading" => op.undoLife[s] = "running"

\* A removal is applied when all its Shells are stopped.
AllTargetsStopped ==
  op.kind \in Lifecycle /\ op.phase \in {"flush", "apply"} => op.targets \subseteq op.stopped

Going == ReadersRun /\ RunsAnnounced /\ RunsBorn /\ UndoAnnounced /\ AllTargetsStopped

\* Output and exit of a run follow its start in the log.
OfRun(x) == x.kind \in {"OutputChanged", "RunExited"}
Opened(S) == \A x \in S : OfRun(x) => Evt("RunStarted", x.of, x.n) \in Range(log)
Preceded(q) == \A i \in DOMAIN q : OfRun(q[i]) =>
                 \E j \in 1..(i - 1) : q[j] = Evt("RunStarted", q[i].of, q[i].n)

\* No output follows the exit of its run: within a sequence, and in Q after P.
Before(P, Q) == \A y \in Q : y.kind = "OutputChanged" => Evt("RunExited", y.of, y.n) \notin P
Ends(q) == \A i, j \in DOMAIN q : i < j /\ q[j].kind = "OutputChanged" =>
             q[i] # Evt("RunExited", q[j].of, q[j].n)

\* What is queued or written is announced after the log in the order it happened:
\* the durable queue and the batch, the one or the other first, then the runtime
\* events.
Waiting == Range(pendingDurable) \cup Range(io.batch) \cup Range(pendingRuntime)
Ordered ==
  /\ Preceded(log) /\ Ends(log) /\ Ends(pendingDurable) /\ Ends(io.batch)
  /\ Opened(Waiting) /\ Before(Range(log), Waiting)
  /\ Before(Range(pendingDurable) \cup Range(io.batch), Range(pendingRuntime))
  /\ IF io.kind = "flush" THEN Before(Range(io.batch), Range(pendingDurable))
     ELSE Before(Range(pendingDurable), Range(io.batch))
  /\ io.kind # "flush" /\ op.kind # "exit" => \A x \in Range(io.batch) : ~OfRun(x)

-----------------------------------------------------------------------------
(* Runs go on from their announcement to their end.                        *)

\* A step outside a commit that reads no other run and goes on with none that had
\* stopped.
LEMMA IdleGoing ==
  ASSUME Going, op.phase # "commit", op'.phase # "commit",
         \A s \in Shells : mem'[s].gen = mem[s].gen,
         \A s \in Shells : mem'[s].status = "unborn" => mem[s].status = "unborn",
         \A s \in Shells : life'[s] = "running" => life[s] = "running",
         \A s \in Shells : reader'[s] = "reading" =>
           /\ reader[s] = "reading" /\ life'[s] = "running"
           /\ ~(op'.kind = "exit" /\ s \in op'.targets)
           /\ op'.kind \in Lifecycle => s \notin op'.stopped,
         exits' \subseteq exits, Range(log) \subseteq Range(log)',
         op'.kind = "start" =>
           \E s \in Shells : op'.targets = {s} /\ mem'[s].status # "unborn",
         AllTargetsStopped'
  PROVE  Going'
  <1>1. \A s \in Shells : ~Committing(s) /\ ~Committing(s)' BY DEF Committing
  <1>2. ReadersRun' BY <1>1 DEF Going, ReadersRun
  <1>3. RunsAnnounced' /\ RunsBorn'
    BY <1>1 DEF Going, RunsAnnounced, RunsBorn, StartKnown
  <1>4. UndoAnnounced' BY DEF UndoAnnounced
  <1> QED BY <1>2, <1>3, <1>4 DEF Going

\* A step that leaves the operation, the runs and what it commits.
LEMMA SameGoing ==
  ASSUME Going, UNCHANGED <<mem, life, exits, op>>,
         \A s \in Shells : reader'[s] = "reading" => reader[s] = "reading",
         Range(log) \subseteq Range(log)', op.phase = "commit" => io'.batch = io.batch
  PROVE  Going'
  <1>1. \A s \in Shells : Committing(s) <=> Committing(s)' BY DEF Committing
  <1>2. ReadersRun' BY <1>1 DEF Going, ReadersRun
  <1>3. RunsAnnounced'
    <2>1. ASSUME NEW s \in Shells, life'[s] = "running"
          PROVE  StartKnown(s, mem)' \/ Committing(s)'
      BY <1>1, <2>1 DEF Going, RunsAnnounced, StartKnown
    <2>2. ASSUME NEW s \in Shells, Committing(s)'
          PROVE  life'[s] = "running" /\ Evt("RunStarted", s, mem'[s].gen) \in Range(io.batch)'
      <3>1. op.phase = "commit" /\ Committing(s) BY <1>1, <2>2 DEF Committing
      <3> QED BY <3>1 DEF Going, RunsAnnounced
    <2>3. \A x \in exits' : Evt("RunStarted", x[1], x[2]) \in Range(log)'
      BY DEF Going, RunsAnnounced
    <2> QED BY <2>1, <2>2, <2>3 DEF RunsAnnounced
  <1>4. UndoAnnounced' BY DEF Going, UndoAnnounced, StartKnown
  <1>5. AllTargetsStopped' /\ RunsBorn' BY DEF Going, AllTargetsStopped, RunsBorn
  <1> QED BY <1>2, <1>3, <1>4, <1>5 DEF Going

\* An operation that ends leaves announced runs, of which only those that go on are
\* read.
LEMMA DoneGoing ==
  ASSUME op' = NoOp,
         \A s \in Shells : reader'[s] = "reading" =>
           life'[s] = "running" /\ <<s, mem'[s].gen>> \notin exits',
         \A s \in Shells : life'[s] = "running" =>
           StartKnown(s, mem)' /\ mem'[s].status # "unborn",
         \A x \in exits' : Evt("RunStarted", x[1], x[2]) \in Range(log)'
  PROVE  Going'
  <1>1. op'.kind = "none" /\ op'.phase = "admit" BY NoOpFields
  <1>2. \A s \in Shells : ~Committing(s)' BY <1>1 DEF Committing
  <1>3. ReadersRun' BY <1>1, <1>2 DEF ReadersRun, Lifecycle
  <1>4. RunsAnnounced' /\ RunsBorn' BY <1>1, <1>2 DEF RunsAnnounced, RunsBorn, Lifecycle
  <1>5. UndoAnnounced' /\ AllTargetsStopped'
    BY <1>1 DEF UndoAnnounced, AllTargetsStopped, Lifecycle
  <1> QED BY <1>3, <1>4, <1>5 DEF Going

\* Settle publishes its batch.
LEMMA SettlePublishes ==
  ASSUME log \in Seq(Event), NEW batch \in Seq(Event), NEW durable, NEW held, NEW busy,
         NEW runtime \in Seq(Event), Settle(batch, durable, runtime, held, busy)
  PROVE  Range(log) \cup Range(batch) \subseteq Range(log)'
  <1> DEFINE first == log \o batch
  <1>1. first \in Seq(Event) /\ Range(first) = Range(log) \cup Range(batch)
    BY ConcatProperties, RangeConcatenation
  <1> HIDE DEF first
  <1>2. Range(first \o runtime) = Range(first) \cup Range(runtime)
    BY <1>1, RangeConcatenation
  <1>3. log' = first \/ log' = first \o runtime BY DEF Settle, first
  <1> QED BY <1>1, <1>2, <1>3

\* The writer's steps.
LEMMA WritesGoing ==
  ASSUME Going, IInv, KInv, LInv, Writes
  PROVE  Going'
  <1>0. /\ op \in Op /\ io \in IO /\ log \in Seq(Event) /\ io.batch \in Seq(Event)
        /\ pendingRuntime \in Seq(Event) /\ <<>> \in Seq(Event)
    BY DEF IInv, TypeOK, IO
  <1>1. ASSUME UNCHANGED <<mem, life, reader, exits>>, Range(log) \subseteq Range(log)',
               op.phase # "commit", op'.phase # "commit",
               \/ op' = NoOp
               \/ /\ op'.kind = op.kind /\ op'.targets = op.targets
                  /\ op'.stopped = op.stopped,
               op'.phase \in {"flush", "apply"} => op.phase \in {"flush", "apply"}
        PROVE  Going'
    <2>1. CASE op' = NoOp
      <3>1. \A s \in Shells : ~Committing(s) BY <1>1 DEF Committing
      <3> QED BY <1>1, <2>1, <3>1, DoneGoing
         DEF Going, ReadersRun, RunsAnnounced, RunsBorn, StartKnown
    <2>2. CASE op' # NoOp
      <3>1. AllTargetsStopped' BY <1>1, <2>2 DEF Going, AllTargetsStopped
      <3>2. op'.kind = "start" =>
              \E s \in Shells : op'.targets = {s} /\ mem'[s].status # "unborn"
        BY <1>1, <2>2 DEF Going, RunsBorn
      <3> QED BY <1>1, <2>2, <3>1, <3>2, IdleGoing DEF Going, ReadersRun
    <2> QED BY <2>1, <2>2
  <1>2. CASE SaveSucceeds \/ SaveFails \/ FallbackResetFails \/ AppendSucceeds
               \/ AppendFails
    <2>1. UNCHANGED <<mem, life, reader, exits, op, log>>
      BY <1>2 DEF SaveSucceeds, SaveFails, FallbackResetFails, AppendSucceeds,
           AppendFails, shells, stream
    <2>2. io'.batch = io.batch
      BY <1>0, <1>2 DEF SaveSucceeds, SaveFails, FallbackResetFails, AppendSucceeds,
           AppendFails, IO
    <2> QED BY <2>1, <2>2, SameGoing
  <1>3. CASE (\E b \in BOOLEAN : BeginFlush(b)) \/ WriteCheckpoint
    <2>1. UNCHANGED <<mem, life, reader, exits, op, log>> /\ op.phase # "commit"
      BY <1>3, CommitBusy DEF BeginFlush, WriteCheckpoint, shells, stream
    <2> QED BY <2>1, SameGoing
  <1>4. CASE OpFlush /\ ~(pendingDurable # <<>> \/ dirty)
    <2>1. /\ UNCHANGED <<mem, life, reader, exits, log>> /\ op.phase = "flush"
          /\ op' = [op EXCEPT !.phase = AfterFlush]
      BY <1>4 DEF OpFlush, shells, stream
    <2>2. /\ op'.kind = op.kind /\ op'.targets = op.targets /\ op'.stopped = op.stopped
          /\ op'.phase \in {"observe", "apply"}
      BY <1>0, <2>1 DEF Op, AfterFlush
    <2> QED BY <1>1, <2>1, <2>2
  <1>5. CASE FinishFlush
    <2>1. /\ UNCHANGED <<mem, life, reader, exits>> /\ io.kind = "flush"
          /\ Settle(io.batch, pendingDurable, pendingRuntime, reservation, FALSE)
          /\ op' = IF io.background THEN op ELSE [op EXCEPT !.phase = AfterFlush]
      BY <1>5 DEF FinishFlush, shells
    <2>2. Range(log) \subseteq Range(log)' BY <1>0, <2>1, SettlePublishes
    <2>3. op.phase # "commit" BY <2>1, CommitBusy
    <2>4. CASE io.background
      BY <2>1, <2>2, <2>3, <2>4, SameGoing
    <2>5. CASE ~io.background
      <3>1. op.phase = "flush" BY <2>1, <2>5 DEF IInv, WriteShape
      <3>2. /\ op'.kind = op.kind /\ op'.targets = op.targets /\ op'.stopped = op.stopped
            /\ op'.phase \in {"observe", "apply"}
        BY <1>0, <2>1, <2>5 DEF Op, AfterFlush
      <3> QED BY <1>1, <2>1, <2>2, <3>1, <3>2
    <2> QED BY <2>4, <2>5
  <1>6. CASE FlushFailed
    <2>1. /\ UNCHANGED <<mem, life, reader, exits>> /\ io.kind = "flush"
          /\ Settle(<<>>, io.batch \o pendingDurable, pendingRuntime, reservation, FALSE)
          /\ \/ op' = op /\ io.background
             \/ op' = [op EXCEPT !.phase = "abort"]
             \/ op' = NoOp
      BY <1>6 DEF FlushFailed, shells
    <2>2. Range(log) \subseteq Range(log)' BY <1>0, <2>1, SettlePublishes
    <2>3. op.phase # "commit" BY <2>1, CommitBusy
    <2>4. CASE op' = op
      BY <2>1, <2>2, <2>3, <2>4, SameGoing
    <2>5. CASE op' = NoOp
      <3>1. op'.phase = "admit" BY <2>5, NoOpFields
      <3> QED BY <1>1, <2>1, <2>2, <2>3, <2>5, <3>1
    <2>6. CASE op' = [op EXCEPT !.phase = "abort"]
      <3>1. /\ op'.kind = op.kind /\ op'.targets = op.targets /\ op'.stopped = op.stopped
            /\ op'.phase = "abort"
        BY <1>0, <2>6 DEF Op
      <3> QED BY <1>1, <2>1, <2>2, <2>3, <3>1
    <2> QED BY <2>1, <2>4, <2>5, <2>6
  <1>7. CASE SkipCheckpoint \/ FinishCheckpoint \/ CheckpointFailed
    <2>1. /\ UNCHANGED <<mem, life, reader, exits, log>>
          /\ op' = NoOp \/ op' = [op EXCEPT !.phase = "admit"]
      BY <1>7 DEF SkipCheckpoint, FinishCheckpoint, CheckpointFailed, shells, stream
    <2>2. op.phase = "checkpoint"
      BY <1>7 DEF SkipCheckpoint, FinishCheckpoint, CheckpointFailed, IInv, WriteShape
    <2>3. CASE op' = NoOp
      <3>1. op'.phase = "admit" BY <2>3, NoOpFields
      <3> QED BY <1>1, <2>1, <2>2, <2>3, <3>1
    <2>4. CASE op' = [op EXCEPT !.phase = "admit"]
      <3>1. /\ op'.kind = op.kind /\ op'.targets = op.targets /\ op'.stopped = op.stopped
            /\ op'.phase = "admit"
        BY <1>0, <2>4 DEF Op
      <3> QED BY <1>1, <2>1, <2>2, <3>1
    <2> QED BY <2>1, <2>3, <2>4
  <1> QED BY <1>2, <1>3, <1>4, <1>5, <1>6, <1>7 DEF Writes, BackgroundFlush, OpFlush

\* An operation that begins stops no run, and a run that starts anew is not read yet.
LEMMA RequestsGoing ==
  ASSUME Going, IInv, Requests
  PROVE  Going'
  <1>0. op.phase # "commit"
    <2>1. op.kind = "none"
      BY DEF Requests, BeginMutation, BeginLocalCreate, BeginClose, BeginStart,
           RestartShell, BeginRecover, BeginCloseWorkspace, BeginShutdown,
           BeginBaseline, BeginCheckpoint, Begin
    <2> QED BY <2>1 DEF IInv, OpShape
  <1>1. ASSUME NEW kind, NEW phase, NEW targets, Begin(kind, phase, targets),
               UNCHANGED <<mem, reader, exits, log>>,
               phase \in {"checkpoint", "flush"}, kind # "exit",
               kind \in Lifecycle => phase = "checkpoint",
               kind = "start" =>
                 \E s \in Shells : targets = {s} /\ mem[s].status # "unborn",
               \A s \in Shells : life'[s] = "running" => life[s] = "running",
               \A s \in Shells : reader[s] = "reading" => life'[s] = "running"
        PROVE  Going'
    <2>1. op'.kind = kind /\ op'.phase = phase /\ op'.targets = targets /\ op'.stopped = {}
      BY <1>1 DEF Begin, NoOp
    <2>2. AllTargetsStopped' BY <1>1, <2>1 DEF AllTargetsStopped
    <2> QED BY <1>0, <1>1, <2>1, <2>2, IdleGoing DEF Going, ReadersRun
  <1>2. Quiet => /\ UNCHANGED <<mem, life, reader, exits, log>>
                 /\ \A s \in Shells : reader[s] = "reading" => life'[s] = "running"
    BY DEF Quiet, shells, stream, Going, ReadersRun
  <1>3. ASSUME NEW s \in Shells, life[s] # "running", life' = [life EXCEPT ![s] = "pending"]
        PROVE  \A t \in Shells : /\ life'[t] = "running" => life[t] = "running"
                                 /\ reader[t] = "reading" => life'[t] = "running"
    BY <1>3 DEF IInv, TypeOK, Going, ReadersRun
  <1>4. ASSUME NEW s \in Shells, BeginStart(s)
        PROVE  Going'
    <2>1. /\ Begin("start", "flush", {s}) /\ UNCHANGED <<mem, reader, exits, log>>
          /\ life[s] # "running" /\ life' = [life EXCEPT ![s] = "pending"]
          /\ mem[s].status # "unborn"
      BY <1>4 DEF BeginStart, Live, stream
    <2> QED BY <1>1, <1>3, <2>1 DEF Lifecycle
  <1>5. ASSUME NEW s \in Shells, RestartShell(s)
        PROVE  Going'
    <2>1. /\ UNCHANGED <<mem, reader, exits, log, op>> /\ op.kind = "none"
          /\ life[s] # "running" /\ life' = [life EXCEPT ![s] = "pending"]
      BY <1>5 DEF RestartShell, stream
    <2>2. AllTargetsStopped' BY <2>1 DEF AllTargetsStopped, Lifecycle
    <2> QED BY <1>0, <1>3, <2>1, <2>2, IdleGoing DEF Going, ReadersRun, Lifecycle
  <1>6. CASE \E e \in Entities : BeginMutation(e)
    BY <1>1, <1>2, <1>6 DEF BeginMutation, Lifecycle
  <1>7. CASE \E s \in Shells : BeginLocalCreate(s) \/ BeginClose(s)
    BY <1>1, <1>2, <1>7 DEF BeginLocalCreate, BeginClose, Lifecycle
  <1>8. CASE \E S \in SUBSET Shells : S # {} /\ BeginRecover(S)
    BY <1>1, <1>2, <1>8 DEF BeginRecover, Lifecycle
  <1>9. CASE BeginCloseWorkspace \/ BeginShutdown \/ BeginBaseline \/ BeginCheckpoint
    BY <1>1, <1>2, <1>9
    DEF BeginCloseWorkspace, BeginShutdown, BeginBaseline, BeginCheckpoint, Lifecycle
  <1> QED BY <1>4, <1>5, <1>6, <1>7, <1>8, <1>9 DEF Requests

\* A reader that ends leaves the exit of an announced run, and the exit is admitted
\* when nobody reads that run.
LEMMA RunsGoing ==
  ASSUME Going, IInv, Runs
  PROVE  Going'
  <1>0. log \in Seq(Event) /\ io \in IO BY DEF IInv, TypeOK
  <1>1. ASSUME NEW s \in Shells, PublishOutput(s)
        PROVE  Going'
    <2> DEFINE e == Evt("OutputChanged", s, mem[s].gen)
    <2>1. UNCHANGED <<mem, life, reader, exits, op, io>>
      BY <1>1 DEF PublishOutput, shells
    <2>2. e \in Event
      <3>1. mem[s].gen \in Nat BY DEF IInv, TypeOK, Record, Entities
      <3> QED BY <3>1 DEF Evt, Event, Entities
    <2>3. log' = log \/ log' = Append(log, e) BY <1>1 DEF PublishOutput
    <2> HIDE DEF e
    <2>4. Range(Append(log, e)) = Range(log) \cup {e} BY <1>0, <2>2, AppendRange
    <2>5. Range(log) \subseteq Range(log)' BY <2>3, <2>4
    <2> QED BY <2>1, <2>5, SameGoing
  <1>2. ASSUME NEW s \in Shells, OutputRefused(s)
        PROVE  Going'
    <2>1. /\ UNCHANGED <<mem, life, exits, op, io, log>>
          /\ reader' = [reader EXCEPT ![s] = "none"]
      BY <1>2 DEF OutputRefused, stream
    <2>2. \A t \in Shells : reader'[t] = "reading" => reader[t] = "reading"
      BY <2>1 DEF IInv, TypeOK
    <2> QED BY <2>1, <2>2, SameGoing
  <1>3. ASSUME NEW s \in Shells, CheckpointHistory(s)
        PROVE  Going'
    <2>1. UNCHANGED <<mem, life, reader, exits, op, log>> /\ io'.batch = io.batch
      BY <1>0, <1>3 DEF CheckpointHistory, Touched, IO, shells, stream
    <2> QED BY <2>1, SameGoing
  <1>4. ASSUME NEW s \in Shells, ProcessExits(s)
        PROVE  Going'
    <2>1. /\ UNCHANGED <<mem, life, op, io, log>> /\ reader[s] = "reading"
          /\ reader' = [reader EXCEPT ![s] = "none"]
          /\ exits' = exits \cup {<<s, mem[s].gen>>}
      BY <1>4 DEF ProcessExits, stream
    <2>2. \A t \in Shells : reader'[t] = "reading" => reader[t] = "reading" /\ t # s
      BY <2>1 DEF IInv, TypeOK
    <2>3. \A t \in Shells : Committing(t) <=> Committing(t)' BY <2>1 DEF Committing
    <2>4. ReadersRun' BY <2>1, <2>2, <2>3 DEF Going, ReadersRun
    <2>5. Evt("RunStarted", s, mem[s].gen) \in Range(log)
      BY <2>1 DEF Going, ReadersRun, RunsAnnounced, StartKnown
    <2>6. \A x \in exits' : Evt("RunStarted", x[1], x[2]) \in Range(log)
      BY <2>1, <2>5 DEF Going, RunsAnnounced
    <2>7. RunsAnnounced' BY <2>1, <2>3, <2>6 DEF Going, RunsAnnounced, StartKnown
    <2>8. UndoAnnounced' /\ AllTargetsStopped' /\ RunsBorn'
      BY <2>1, <2>2 DEF Going, UndoAnnounced, AllTargetsStopped, StartKnown, RunsBorn
    <2> QED BY <2>4, <2>7, <2>8 DEF Going
  <1>5. ASSUME NEW x \in exits, BeginExit(x[1], x[2])
        PROVE  Going'
    <2>1. /\ UNCHANGED <<mem, life, reader, log>> /\ op.kind = "none"
          /\ op.phase # "commit" /\ exits' \subseteq exits
      BY <1>5 DEF BeginExit, stream, IInv, OpShape
    <2>2. CASE Current(x[1], x[2])
      <3>1. Begin("exit", "apply", {x[1]}) /\ mem[x[1]].gen = x[2]
        BY <1>5, <2>2 DEF BeginExit, Current
      <3>2. op'.kind = "exit" /\ op'.phase = "apply" /\ op'.targets = {x[1]}
        BY <3>1 DEF Begin, NoOp
      <3>3. x[1] \in Shells /\ x = <<x[1], mem[x[1]].gen>>
        BY <3>1 DEF IInv, TypeOK
      <3>4. reader[x[1]] # "reading" BY <3>3 DEF Going, ReadersRun
      <3>5. AllTargetsStopped' BY <3>2 DEF AllTargetsStopped, Lifecycle
      <3> QED BY <2>1, <3>2, <3>4, <3>5, IdleGoing DEF Going, ReadersRun, Lifecycle
    <2>3. CASE ~Current(x[1], x[2])
      <3>1. op' = op BY <1>5, <2>3 DEF BeginExit
      <3>2. AllTargetsStopped' BY <2>1, <3>1 DEF AllTargetsStopped, Lifecycle
      <3> QED BY <2>1, <3>1, <3>2, IdleGoing DEF Going, ReadersRun, RunsBorn
    <2> QED BY <2>2, <2>3
  <1> QED BY <1>1, <1>2, <1>3, <1>4, <1>5 DEF Runs

\* Refusals, admissions and stops: no stopped run is read.
LEMMA PassingGoing ==
  ASSUME Going, IInv, KInv, LInv, Passing
  PROVE  Going'
  <1>0. op \in Op /\ reader \in [Shells -> Readers] BY DEF IInv, TypeOK
  <1>1. CASE SkipCheckpoint
    BY <1>1, WritesGoing DEF Writes
  <1>2. ASSUME UNCHANGED <<mem, life, reader, exits, log>>, op' = NoOp, op.phase # "commit"
        PROVE  Going'
    <2>1. \A s \in Shells : ~Committing(s) BY <1>2 DEF Committing
    <2> QED BY <1>2, <2>1, DoneGoing
       DEF Going, ReadersRun, RunsAnnounced, RunsBorn, StartKnown
  <1>3. CASE ObserveBaseline \/ StartRefused
    BY <1>2, <1>3 DEF ObserveBaseline, StartRefused, Quiet, shells, stream
  <1>4. CASE AdmitMutation
    <2>1. /\ UNCHANGED <<mem, life, reader, exits, log>> /\ op.kind \in {"mutate", "recover"}
          /\ op.phase = "admit"
          /\ op' = NoOp \/ op' = [op EXCEPT !.phase = "flush"]
      BY <1>4 DEF AdmitMutation, Quiet, shells, stream
    <2>2. CASE op' = NoOp BY <1>2, <2>1, <2>2
    <2>3. CASE op' = [op EXCEPT !.phase = "flush"]
      <3>1. op'.kind = op.kind /\ op'.targets = op.targets /\ op'.phase = "flush"
        BY <1>0, <2>3 DEF Op
      <3>2. AllTargetsStopped' BY <2>1, <3>1 DEF AllTargetsStopped, Lifecycle
      <3> QED BY <2>1, <3>1, <3>2, IdleGoing DEF Going, ReadersRun, Lifecycle
    <2> QED BY <2>1, <2>2, <2>3
  <1>5. CASE AllStopped
    <2>1. /\ UNCHANGED <<mem, life, reader, exits, log>> /\ op.phase = "stop"
          /\ op.targets = op.stopped /\ op' = [op EXCEPT !.phase = "flush"]
      BY <1>5 DEF AllStopped, Quiet, shells, stream
    <2>2. /\ op'.kind = op.kind /\ op'.targets = op.targets /\ op'.phase = "flush"
          /\ op'.stopped = op.stopped
      BY <1>0, <2>1 DEF Op
    <2>3. AllTargetsStopped' BY <2>1, <2>2 DEF AllTargetsStopped
    <2> QED BY <2>1, <2>2, <2>3, IdleGoing DEF Going, ReadersRun, RunsBorn
  <1>6. ASSUME NEW s \in Shells, StopRuntime(s) \/ StopFails(s)
        PROVE  Going'
    <2>1. /\ UNCHANGED <<mem, life, exits, log>> /\ op.phase = "stop"
          /\ \/ /\ reader' = [reader EXCEPT ![s] = "none"]
                /\ op'.stopped = op.stopped \cup {s}
             \/ reader' = reader /\ op'.stopped = op.stopped
          /\ op'.kind = op.kind /\ op'.targets = op.targets /\ op'.phase \in {"stop", "abort"}
      BY <1>0, <1>6 DEF StopRuntime, StopFails, stream, Op
    <2>2. \A t \in Shells : reader'[t] = "reading" =>
            reader[t] = "reading" /\ (t \in op'.stopped => t \in op.stopped)
      BY <1>0, <2>1
    <2>3. AllTargetsStopped' BY <2>1 DEF AllTargetsStopped
    <2> QED BY <2>1, <2>2, <2>3, IdleGoing DEF Going, ReadersRun, RunsBorn
  <1>7. CASE AdmitLifecycle
    <2>1. /\ UNCHANGED <<mem, life, reader, exits, log>> /\ op.kind \in Lifecycle
          /\ op.phase = "admit"
          /\ op' = NoOp \/ op' = [op EXCEPT !.phase = "stop", !.targets = Selected]
      BY <1>7 DEF AdmitLifecycle, shells
    <2>2. CASE op' = NoOp BY <1>2, <2>1, <2>2
    <2>3. CASE op' = [op EXCEPT !.phase = "stop", !.targets = Selected]
      <3>1. op'.kind = op.kind /\ op'.phase = "stop" /\ op'.stopped = op.stopped
        BY <1>0, <2>3 DEF Op
      <3>2. AllTargetsStopped' BY <3>1 DEF AllTargetsStopped
      <3> QED BY <2>1, <3>1, <3>2, IdleGoing DEF Going, ReadersRun, Lifecycle
    <2> QED BY <2>1, <2>2, <2>3
  <1> QED BY <1>1, <1>3, <1>4, <1>5, <1>6, <1>7 DEF Passing

\* A creation or rename is rolled back to the runs it found.
LEMMA ApplyMutationGoing ==
  ASSUME Going, IInv, NEW e \in Entities, ApplyMutation(e)
  PROVE  Going'
  <1>0. op \in Op /\ mem \in [Entities -> Record] /\ life \in [Shells -> Lifecycles]
    BY DEF IInv, TypeOK
  <1>1. /\ op.kind \in {"mutate", "local"} /\ op.phase = "apply"
        /\ UNCHANGED <<reader, exits, log>>
    BY DEF ApplyMutation, stream
  <1>2. \A s \in Shells : ~Committing(s) BY <1>1 DEF Committing
  <1>3. CASE op' = NoOp /\ UNCHANGED <<mem, life, io>>
    BY <1>1, <1>2, <1>3, DoneGoing
    DEF Going, ReadersRun, RunsAnnounced, RunsBorn, StartKnown
  <1>4. ASSUME ~(op' = NoOp /\ UNCHANGED <<mem, life, io>>)
        PROVE  Going'
    <2>1. /\ mem' = Mutated(e)
          /\ op' = [op EXCEPT !.phase = "commit", !.undo = mem, !.undoLife = life]
          /\ life' = IF Creates(e) THEN [life EXCEPT ![e] = "pending"] ELSE life
      BY <1>4 DEF ApplyMutation
    <2>2. /\ op'.kind = op.kind /\ op'.phase = "commit" /\ op'.undo = mem
          /\ op'.undoLife = life
      BY <1>0, <2>1 DEF Op
    <2>3. ASSUME NEW s \in Shells
          PROVE  /\ mem'[s].gen = mem[s].gen
                 /\ mem'[s].status = "unborn" => mem[s].status = "unborn"
      BY <1>0, <2>1 DEF Mutated, Entities, Record
    <2>4. \A s \in Shells : ~Committing(s)' BY <1>1, <2>2 DEF Committing
    <2>5. ASSUME NEW s \in Shells, life'[s] = "running" PROVE life[s] = "running"
      BY <1>0, <2>1, <2>5
    <2>6. ASSUME NEW s \in Shells, reader[s] = "reading" PROVE life'[s] = "running"
      <3>1. life[s] = "running" BY <2>6 DEF Going, ReadersRun
      <3>2. Creates(e) => e # s
        BY <3>1 DEF Creates, Going, RunsBorn
      <3> QED BY <1>0, <2>1, <3>1, <3>2
    <2>7. ReadersRun'
      BY <1>1, <2>2, <2>3, <2>4, <2>6 DEF Going, ReadersRun, Lifecycle
    <2>8. RunsAnnounced' /\ RunsBorn'
      BY <1>1, <1>2, <2>2, <2>3, <2>4, <2>5
      DEF Going, RunsAnnounced, RunsBorn, StartKnown, Lifecycle
    <2>9. UndoAnnounced'
      BY <1>1, <1>2, <2>2, <2>3
      DEF Going, ReadersRun, RunsAnnounced, UndoAnnounced, StartKnown, Lifecycle
    <2>10. AllTargetsStopped' BY <2>2 DEF AllTargetsStopped
    <2> QED BY <2>7, <2>8, <2>9, <2>10 DEF Going
  <1> QED BY <1>3, <1>4

\* Every Shell of the set is in RunEvents.
LEMMA RunEventsAll ==
  ASSUME NEW kind, NEW S \in SUBSET Shells, NEW m, NEW s \in S
  PROVE  Evt(kind, s, m[s].gen) \in Range(RunEvents(kind, S, m))
  <1> DEFINE n == Cardinality(S)
             f == Listed(S)
  <1>1. IsFiniteSet(S) /\ n \in Nat BY FiniteSets DEF Entities
  <1>2. ExistsBijection(1..n, S) BY <1>1, FS_CardinalityType
  <1>3. PICK g \in [1..n -> S] : IsInjective(g)
    BY <1>2 DEF ExistsBijection, Bijection, Injection, Surjection, IsInjective
  <1>4. f \in [1..n -> S] /\ IsInjective(f) BY <1>3 DEF Listed
  <1> HIDE DEF f
  <1>5. f \in Injection(1..n, S) BY <1>4 DEF Injection
  <1>6. Cardinality(1..n) = n BY <1>1, FS_Interval
  <1>7. f \in Surjection(1..n, S) BY <1>1, <1>5, <1>6, FS_Injection
  <1>8. PICK i \in 1..n : f[i] = s BY <1>7 DEF Surjection
  <1>9. i \in DOMAIN RunEvents(kind, S, m) /\ RunEvents(kind, S, m)[i] = Evt(kind, s, m[s].gen)
    BY <1>8 DEF RunEvents, f
  <1> QED BY <1>9 DEF Range

\* The runs of S start: their readers are paused until the write that announces
\* them ends.
LEMMA StartGoing ==
  ASSUME Going, IInv, op.phase # "commit", NEW S \in SUBSET Shells,
         \A s \in S : mem[s].status # "unborn",
         mem' = Started(S), life' = SetAll(life, S, "running"),
         reader' = SetAll(reader, S, "paused"), UNCHANGED <<exits, log>>,
         op'.kind = op.kind, op'.phase = "commit", op'.targets = S,
         op.kind \in {"start", "recover"}, op.kind = "start" => \E s \in Shells : S = {s},
         io'.batch = RunEvents("RunStarted", S, Started(S))
  PROVE  Going'
  <1>0. mem \in [Entities -> Record] /\ Started(S) \in [Entities -> Record]
    BY StartedType DEF IInv, TypeOK
  <1>1. \A s \in Shells : ~Committing(s) /\ (Committing(s)' <=> s \in S)
    BY DEF Committing
  <1>2. ASSUME NEW s \in Shells
        PROVE  /\ mem'[s].status = mem[s].status
               /\ s \notin S => mem'[s] = mem[s] /\ life'[s] = life[s] /\ reader'[s] = reader[s]
               /\ s \in S => life'[s] = "running" /\ reader'[s] = "paused"
    <2>1. s \in Entities /\ mem[s] \in Record BY <1>0 DEF Entities
    <2> QED BY <2>1 DEF Started, SetAll, Record
  <1>3. ReadersRun' BY <1>1, <1>2 DEF Going, ReadersRun, Lifecycle
  <1>4. ASSUME NEW s \in S
        PROVE  Evt("RunStarted", s, mem'[s].gen) \in Range(io.batch)'
    BY RunEventsAll
  <1>5. RunsAnnounced' BY <1>1, <1>2, <1>4 DEF Going, RunsAnnounced, StartKnown
  <1>6. RunsBorn' BY <1>2 DEF Going, RunsBorn, Lifecycle
  <1>7. UndoAnnounced' /\ AllTargetsStopped'
    BY DEF UndoAnnounced, AllTargetsStopped, Lifecycle
  <1> QED BY <1>3, <1>5, <1>6, <1>7 DEF Going

\* A start leaves the reader of its run paused.
LEMMA ApplyStartGoing ==
  ASSUME Going, IInv, NEW s \in Shells, ApplyStart(s)
  PROVE  Going'
  <1>0. /\ op \in Op /\ life \in [Shells -> Lifecycles] /\ reader \in [Shells -> Readers]
    BY DEF IInv, TypeOK
  <1>1. /\ op.kind = "start" /\ op.phase = "apply" /\ s \in op.targets
        /\ mem' = Started({s}) /\ life' = [life EXCEPT ![s] = "running"]
        /\ reader' = [reader EXCEPT ![s] = "paused"]
        /\ op' = [op EXCEPT !.phase = "commit"] /\ UNCHANGED <<exits, log>>
    BY DEF ApplyStart, stream
  <1>2. io'.batch = RunEvents("RunStarted", {s}, Started({s}))
    BY DEF ApplyStart, BeginWrite
  <1>3. op.targets = {s} /\ mem[s].status # "unborn" BY <1>1 DEF Going, RunsBorn
  <1>4. op'.kind = "start" /\ op'.phase = "commit" /\ op'.targets = {s}
    BY <1>0, <1>1, <1>3 DEF Op
  <1>5. /\ life' = SetAll(life, {s}, "running")
        /\ reader' = SetAll(reader, {s}, "paused")
    BY <1>0, <1>1 DEF SetAll
  <1>6. {s} \in SUBSET Shells /\ \A t \in {s} : mem[t].status # "unborn" BY <1>3
  <1> QED BY <1>1, <1>2, <1>4, <1>5, <1>6, StartGoing

\* A recovery leaves the readers of the runs it starts paused.
LEMMA ApplyRecoverGoing ==
  ASSUME Going, IInv, NEW S \in SUBSET Shells, ApplyRecover(S)
  PROVE  Going'
  <1>0. op \in Op BY DEF IInv, TypeOK
  <1>1. /\ op.kind = "recover" /\ op.phase = "apply" /\ UNCHANGED <<exits, log>>
        /\ \A s \in S : Recoverable(s)
    BY DEF ApplyRecover, stream
  <1>2. \A s \in Shells : ~Committing(s) BY <1>1 DEF Committing
  <1>3. CASE ~(S # {} /\ ReserveWithPending(Cardinality(op.targets)))
    <2>1. op' = NoOp /\ UNCHANGED <<mem, life, reader, io>> BY <1>3 DEF ApplyRecover
    <2> QED BY <1>1, <1>2, <2>1, DoneGoing
            DEF Going, ReadersRun, RunsAnnounced, RunsBorn, StartKnown
  <1>4. CASE S # {} /\ ReserveWithPending(Cardinality(op.targets))
    <2>1. /\ mem' = Started(S) /\ life' = SetAll(life, S, "running")
          /\ reader' = SetAll(reader, S, "paused")
          /\ io'.batch = RunEvents("RunStarted", S, Started(S))
          /\ op' = [op EXCEPT !.phase = "commit", !.targets = S, !.undo = mem]
      BY <1>4 DEF ApplyRecover, BeginWrite
    <2>2. op'.kind = op.kind /\ op'.phase = "commit" /\ op'.targets = S
      BY <1>0, <2>1 DEF Op
    <2>3. \A s \in S : mem[s].status # "unborn" BY <1>1 DEF Recoverable, Live
    <2> QED BY <1>1, <2>1, <2>2, <2>3, StartGoing
  <1> QED BY <1>3, <1>4

\* An exit is recorded of a run that nobody reads any more.
LEMMA ApplyExitGoing ==
  ASSUME Going, IInv, LInv, NEW s \in Shells, ApplyExit(s)
  PROVE  Going'
  <1>0. /\ op \in Op /\ mem \in [Entities -> Record] /\ life \in [Shells -> Lifecycles]
    BY DEF IInv, TypeOK
  <1>1. /\ op.kind = "exit" /\ op.phase = "apply" /\ s \in op.targets
        /\ UNCHANGED <<reader, log>> /\ exits' \subseteq exits
    BY DEF ApplyExit
  <1>2. \A t \in Shells : ~Committing(t) BY <1>1 DEF Committing
  <1>3. CASE ~ReserveWithPending(1)
    <2>1. op' = NoOp /\ UNCHANGED <<mem, life>> BY <1>3 DEF ApplyExit
    <2> QED BY <1>1, <1>2, <2>1, DoneGoing
            DEF Going, ReadersRun, RunsAnnounced, RunsBorn, StartKnown
  <1>4. CASE ReserveWithPending(1)
    <2>1. /\ mem' = Ended(mem, {s}) /\ life' = [life EXCEPT ![s] = "exited"]
          /\ op' = [op EXCEPT !.phase = "commit"]
      BY <1>4 DEF ApplyExit
    <2>2. op'.kind = "exit" /\ op'.phase = "commit" /\ op'.targets = op.targets
      BY <1>0, <1>1, <2>1 DEF Op
    <2>3. ASSUME NEW t \in Shells
          PROVE  mem'[t].gen = mem[t].gen /\ mem'[t].status = mem[t].status
      <3>1. t \in Entities /\ mem[t] \in Record BY <1>0 DEF Entities
      <3> QED BY <2>1, <3>1 DEF Ended, Record
    <2>4. \A t \in Shells : ~Committing(t)' BY <2>2 DEF Committing
    <2>5. \A t \in Shells : life'[t] = "running" <=> life[t] = "running" /\ t # s
      BY <1>0, <2>1
    <2>6. reader[s] # "reading" BY <1>1 DEF Going, ReadersRun
    <2>7. ReadersRun'
      BY <1>1, <2>2, <2>3, <2>4, <2>5, <2>6 DEF Going, ReadersRun, Lifecycle
    <2>8. RunsAnnounced' /\ RunsBorn'
      BY <1>1, <1>2, <2>2, <2>3, <2>4, <2>5
      DEF Going, RunsAnnounced, RunsBorn, StartKnown, Lifecycle
    <2>9. UndoAnnounced' /\ AllTargetsStopped'
      BY <2>2 DEF UndoAnnounced, AllTargetsStopped, Lifecycle
    <2> QED BY <2>7, <2>8, <2>9 DEF Going
  <1> QED BY <1>3, <1>4

\* A removal closes Shells whose readers are stopped; the runs it killed were
\* announced.
LEMMA ApplyLifecycleGoing ==
  ASSUME Going, IInv, ApplyLifecycle
  PROVE  Going'
  <1>0. op \in Op /\ mem \in [Entities -> Record] /\ life \in [Shells -> Lifecycles]
    BY DEF IInv, TypeOK
  <1> DEFINE killed == {s \in op.targets : life[s] = "running"}
             ended == Ended(mem, killed)
  <1>1. /\ op.kind \in Lifecycle /\ op.phase = "apply" /\ mem' = Removed(ended)
        /\ op' = [op EXCEPT !.phase = "commit", !.stopped = killed, !.undo = ended,
                            !.undoLife = SetAll(life, killed, "pending")]
        /\ life' = SetAll(life, op.targets, "closed")
        /\ UNCHANGED <<reader, exits, log>>
    BY DEF ApplyLifecycle
  <1>2. /\ op'.kind = op.kind /\ op'.phase = "commit" /\ op'.undo = ended
        /\ op'.stopped = killed /\ op'.undoLife = SetAll(life, killed, "pending")
    BY <1>0, <1>1 DEF Op
  <1>3. \A s \in Shells : ~Committing(s) /\ ~Committing(s)'
    BY <1>1, <1>2 DEF Committing, Lifecycle
  <1>4. /\ \A s \in killed : life[s] = "running" /\ s \in op.stopped
        /\ \A s \in op.targets : s \in op.stopped
    BY <1>1 DEF Going, AllTargetsStopped
  <1>5. ended \in [Entities -> Record] BY <1>0, RegistryTypes
  <1>6. ASSUME NEW s \in Shells
        PROVE  ended[s].gen = mem[s].gen /\ ended[s].status = mem[s].status
    <2>1. s \in Entities /\ mem[s] \in Record BY <1>0 DEF Entities
    <2> QED BY <2>1 DEF Ended, Record
  <1> HIDE DEF killed, ended
  <1>7. ASSUME NEW s \in Shells
        PROVE  /\ mem'[s].gen = mem[s].gen
               /\ mem'[s].status = "unborn" => mem[s].status = "unborn"
    <2>1. s \in Entities /\ ended[s] \in Record BY <1>5 DEF Entities
    <2>2. mem'[s].gen = ended[s].gen /\ mem'[s].status \in {ended[s].status, "gone"}
      BY <1>1, <2>1 DEF Removed, Record
    <2> QED BY <1>6, <2>2
  <1>8. \A s \in Shells :
          /\ life'[s] = "running" <=> life[s] = "running" /\ s \notin op.targets
          /\ op'.undoLife[s] = "running" <=> life[s] = "running" /\ s \notin killed
    BY <1>1, <1>2 DEF SetAll
  <1>9. \A s \in Shells : reader[s] = "reading" =>
          life[s] = "running" /\ s \notin op.targets /\ s \notin killed
    BY <1>1, <1>4 DEF Going, ReadersRun
  <1>10. ReadersRun'
    BY <1>1, <1>2, <1>3, <1>7, <1>8, <1>9 DEF Going, ReadersRun, Lifecycle
  <1>11. RunsAnnounced' BY <1>1, <1>2, <1>3, <1>7, <1>8 DEF Going, RunsAnnounced, StartKnown
  <1>12. RunsBorn'
    BY <1>1, <1>2, <1>6, <1>7, <1>8 DEF Going, RunsBorn, Lifecycle
  <1>13. UndoAnnounced'
    <2>1. \A s \in Shells : life[s] = "running" =>
            Evt("RunStarted", s, ended[s].gen) \in Range(log)'
      BY <1>1, <1>3, <1>6 DEF Going, RunsAnnounced, StartKnown
    <2> QED BY <1>1, <1>2, <1>4, <1>6, <1>7, <1>8, <1>9, <2>1
            DEF UndoAnnounced, StartKnown
  <1>14. AllTargetsStopped' BY <1>2 DEF AllTargetsStopped
  <1> QED BY <1>10, <1>11, <1>12, <1>13, <1>14 DEF Going

\* What ends leaves announced runs: the start's own were just published, and a
\* rollback restores runs that had been.
LEMMA EndGoing ==
  ASSUME Going, IInv, KInv, LInv, Once,
         \/ FinishMutation \/ FinishStart \/ FinishExit \/ ExitFailed \/ FinishLifecycle
         \/ MutationFailed \/ LifecycleFailed \/ StartFailed \/ AbortLifecycle
  PROVE  Going'
  <1>0. /\ op \in Op /\ io \in IO /\ log \in Seq(Event) /\ io.batch \in Seq(Event)
        /\ pendingRuntime \in Seq(Event) /\ pendingDurable \in Seq(Event)
        /\ <<>> \in Seq(Event) /\ mem \in [Entities -> Record]
        /\ life \in [Shells -> Lifecycles] /\ reader \in [Shells -> Readers]
    BY DEF IInv, TypeOK, IO
  <1>1. CASE FinishMutation \/ FinishExit \/ ExitFailed \/ FinishLifecycle
    <2>1. /\ UNCHANGED <<mem, life, reader, exits>> /\ op' = NoOp
          /\ op.kind \notin {"start", "recover"}
      BY <1>1 DEF FinishMutation, FinishExit, ExitFailed, FinishLifecycle, Lifecycle, shells
    <2>2. Range(log) \subseteq Range(log)'
      <3>1. CASE FinishMutation \/ FinishLifecycle
        BY <1>0, <3>1, SettlePublishes DEF FinishMutation, FinishLifecycle
      <3>2. CASE FinishExit
        <4>1. pendingDurable \o io.batch \in Seq(Event) BY <1>0, ConcatProperties
        <4> QED BY <1>0, <3>2, <4>1, SettlePublishes DEF FinishExit
      <3>3. CASE ExitFailed
        BY <1>0, <3>3, SettlePublishes DEF ExitFailed
      <3> QED BY <1>1, <3>1, <3>2, <3>3
    <2>3. \A s \in Shells : ~Committing(s) BY <2>1 DEF Committing
    <2> QED BY <2>1, <2>2, <2>3, DoneGoing
            DEF Going, ReadersRun, RunsAnnounced, RunsBorn, StartKnown
  <1>2. CASE FinishStart
    <2>1. /\ UNCHANGED <<mem, life, exits>> /\ op' = NoOp /\ op.phase = "commit"
          /\ op.kind \in {"start", "recover"}
          /\ reader' = SetAll(reader, op.targets, "reading")
          /\ Settle(io.batch, pendingDurable, pendingRuntime, reservation, FALSE)
      BY <1>2 DEF FinishStart
    <2>2. Range(log) \cup Range(io.batch) \subseteq Range(log)'
      BY <1>0, <2>1, SettlePublishes
    <2>3. \A s \in Shells : Committing(s) <=> s \in op.targets BY <2>1 DEF Committing
    <2>4. ASSUME NEW s \in Shells, life[s] = "running"
          PROVE  StartKnown(s, mem)'
      BY <2>1, <2>2, <2>4 DEF Going, RunsAnnounced, StartKnown
    <2>5. ASSUME NEW s \in Shells, s \in op.targets
          PROVE  life[s] = "running" /\ <<s, mem[s].gen>> \notin exits
      <3> DEFINE x == Evt("RunStarted", s, mem[s].gen)
      <3>1. life[s] = "running" /\ x \in Range(io.batch)
        BY <2>3, <2>5 DEF Going, RunsAnnounced
      <3>2. IsDurable(x) BY DEF IsDurable, DurableKinds, Evt
      <3>3. x \notin Range(log) BY <3>1, <3>2 DEF Once, Apart
      <3>4. \A y \in exits : Evt("RunStarted", y[1], y[2]) \in Range(log)
        BY DEF Going, RunsAnnounced
      <3>5. <<s, mem[s].gen>> \in exits => x \in Range(log)
        <4> SUFFICES ASSUME <<s, mem[s].gen>> \in exits PROVE x \in Range(log) OBVIOUS
        <4> DEFINE y == <<s, mem[s].gen>>
        <4>1. y[1] = s /\ y[2] = mem[s].gen OBVIOUS
        <4> QED BY <3>4, <4>1
      <3> QED BY <3>1, <3>3, <3>5
    <2>6. \A s \in Shells : reader'[s] = "reading" => s \in op.targets \/ reader[s] = "reading"
      BY <2>1 DEF SetAll
    <2>7. \A s \in Shells : reader'[s] = "reading" =>
            life'[s] = "running" /\ <<s, mem'[s].gen>> \notin exits'
      BY <2>1, <2>5, <2>6 DEF Going, ReadersRun
    <2>8. \A x \in exits' : Evt("RunStarted", x[1], x[2]) \in Range(log)'
      BY <2>1, <2>2 DEF Going, RunsAnnounced
    <2> QED BY <2>1, <2>4, <2>7, <2>8, DoneGoing DEF Going, RunsBorn
  <1>3. CASE MutationFailed \/ LifecycleFailed
    <2>1. /\ mem' = op.undo /\ life' = op.undoLife /\ op' = NoOp /\ op.phase = "commit"
          /\ op.kind \in {"mutate", "local"} \cup Lifecycle
          /\ UNCHANGED <<reader, exits>>
      BY <1>3 DEF MutationFailed, LifecycleFailed
    <2>2. Range(log) \subseteq Range(log)'
      <3>1. CASE MutationFailed
        BY <1>0, <3>1, SettlePublishes DEF MutationFailed
      <3>2. CASE LifecycleFailed
        BY <1>0, <3>2, SettlePublishes DEF LifecycleFailed
      <3> QED BY <1>3, <3>1, <3>2
    <2>3. ASSUME NEW s \in Shells, reader'[s] = "reading"
          PROVE  life'[s] = "running" /\ <<s, mem'[s].gen>> \notin exits'
      BY <2>1, <2>3 DEF Going, ReadersRun, UndoAnnounced
    <2>4. ASSUME NEW s \in Shells, life'[s] = "running"
          PROVE  StartKnown(s, mem)' /\ mem'[s].status # "unborn"
      BY <2>1, <2>2, <2>4 DEF Going, UndoAnnounced, RunsBorn, StartKnown
    <2>5. \A x \in exits' : Evt("RunStarted", x[1], x[2]) \in Range(log)'
      BY <2>1, <2>2 DEF Going, RunsAnnounced
    <2> QED BY <2>1, <2>3, <2>4, <2>5, DoneGoing
  <1>4. CASE StartFailed
    <2>1. /\ op.kind \in {"start", "recover"} /\ op.phase = "commit" /\ op' = NoOp
          /\ mem' = IF op.kind = "start" THEN Ended(mem, op.targets) ELSE op.undo
          /\ life' = SetAll(life, op.targets, "pending")
          /\ reader' = SetAll(reader, op.targets, "none")
          /\ UNCHANGED exits
      BY <1>4 DEF StartFailed
    <2>2. Range(log) \subseteq Range(log)'
      BY <1>0, <1>4, SettlePublishes DEF StartFailed
    <2>3. ASSUME NEW s \in Shells
          PROVE  /\ reader'[s] = "reading" => reader[s] = "reading" /\ s \notin op.targets
                 /\ life'[s] = "running" => life[s] = "running" /\ s \notin op.targets
      BY <2>1 DEF SetAll
    <2>4. ASSUME NEW s \in Shells, s \notin op.targets
          PROVE  mem'[s] = mem[s] /\ ~Committing(s) /\ life'[s] = life[s]
      <3>1. s \in Entities BY DEF Entities
      <3> QED BY <2>1, <2>4, <3>1 DEF Ended, LInv, UndoRunning, Committing, SetAll
    <2>5. ASSUME NEW s \in Shells, reader'[s] = "reading"
          PROVE  life'[s] = "running" /\ <<s, mem'[s].gen>> \notin exits'
      BY <2>1, <2>3, <2>4, <2>5 DEF Going, ReadersRun
    <2>6. ASSUME NEW s \in Shells, life'[s] = "running"
          PROVE  StartKnown(s, mem)' /\ mem'[s].status # "unborn"
      BY <2>2, <2>3, <2>4, <2>6 DEF Going, RunsAnnounced, RunsBorn, StartKnown
    <2>7. \A x \in exits' : Evt("RunStarted", x[1], x[2]) \in Range(log)'
      BY <2>1, <2>2 DEF Going, RunsAnnounced
    <2> QED BY <2>1, <2>5, <2>6, <2>7, DoneGoing
  <1>5. CASE AbortLifecycle
    <2> DEFINE killed == {s \in op.stopped : life[s] = "running"}
    <2>1. /\ mem' = Ended(mem, killed) /\ life' = SetAll(life, killed, "pending")
          /\ op' = NoOp /\ UNCHANGED <<reader, exits>> /\ op.phase = "abort"
          /\ Settle(<<>>, pendingDurable \o Compensation(killed, mem), <<>>, 0, InFlight)
      BY <1>5 DEF AbortLifecycle
    <2>2. \A s \in killed : s \in op.stopped OBVIOUS
    <2> HIDE DEF killed
    <2>3. Range(log) \subseteq Range(log)' BY <1>0, <2>1, SettlePublishes
    <2>4. op.kind \in Lifecycle BY <2>1 DEF IInv, OpShape
    <2>5. \A s \in Shells : ~Committing(s) BY <2>1 DEF Committing
    <2>6. ASSUME NEW s \in Shells
          PROVE  /\ mem'[s].gen = mem[s].gen /\ mem'[s].status = mem[s].status
                 /\ life'[s] = "running" <=> life[s] = "running" /\ s \notin killed
      <3>1. s \in Entities /\ mem[s] \in Record BY <1>0 DEF Entities
      <3> QED BY <2>1, <3>1 DEF Ended, Record, SetAll
    <2>7. ASSUME NEW s \in Shells, reader'[s] = "reading"
          PROVE  life'[s] = "running" /\ <<s, mem'[s].gen>> \notin exits'
      BY <2>1, <2>2, <2>4, <2>6, <2>7 DEF Going, ReadersRun
    <2>8. ASSUME NEW s \in Shells, life'[s] = "running"
          PROVE  StartKnown(s, mem)' /\ mem'[s].status # "unborn"
      BY <2>3, <2>5, <2>6, <2>8 DEF Going, RunsAnnounced, RunsBorn, StartKnown
    <2>9. \A x \in exits' : Evt("RunStarted", x[1], x[2]) \in Range(log)'
      BY <2>1, <2>3 DEF Going, RunsAnnounced
    <2> QED BY <2>1, <2>7, <2>8, <2>9, DoneGoing
  <1> QED BY <1>1, <1>2, <1>3, <1>4, <1>5

\* The invariant on announced runs is inductive.
LEMMA GoingStep == Going /\ Once /\ LInv /\ KInv /\ IInv /\ [Next]_vars => Going'
  <1> SUFFICES ASSUME Going, Once, LInv, KInv, IInv, [Next]_vars PROVE Going' OBVIOUS
  <1>1. CASE UNCHANGED vars
    BY <1>1, SameGoing DEF vars
  <1>2. CASE Operations
    BY <1>2, PassingGoing, EndGoing, ApplyMutationGoing, ApplyStartGoing,
       ApplyRecoverGoing, ApplyExitGoing, ApplyLifecycleGoing
    DEF Operations, Passing
  <1>3. CASE CrashAndRestore
    <2>1. /\ op' = NoOp /\ exits' = {}
          /\ \A s \in Shells : reader'[s] = "none" /\ life'[s] \in {"pending", "none"}
      BY <1>3 DEF CrashAndRestore
    <2> QED BY <2>1, DoneGoing
  <1> QED BY <1>1, <1>2, <1>3, WritesGoing, RequestsGoing, RunsGoing DEF Next

\* Nothing runs when the coordinator starts.
LEMMA InitGoing == Init => Going
  BY NoOpFields
  DEF Init, Going, ReadersRun, RunsAnnounced, RunsBorn, UndoAnnounced, AllTargetsStopped,
      Committing, Lifecycle

\* A reader is resumed when the start of its run is announced, and gone when the run
\* ends, in every state of every behaviour.
THEOREM ReadingAnnounced == Spec => []Going
  BY InitGoing, GoingStep, Announcing, Living, Knowing, Invariance, PTL DEF Spec

-----------------------------------------------------------------------------
(* The events of a run are announced in its order.                         *)

\* A sequence that ends runs, then one with no output of the runs that ended.
LEMMA ConcatEnds ==
  ASSUME NEW p \in Seq(Event), NEW q \in Seq(Event), Ends(p), Ends(q),
         Before(Range(p), Range(q))
  PROVE  Ends(p \o q)
  <1> DEFINE both == p \o q
  <1>1. /\ Len(p) \in Nat /\ Len(q) \in Nat
        /\ both \in Seq(Event) /\ Len(both) = Len(p) + Len(q)
        /\ \A i \in 1..Len(both) : both[i] = IF i <= Len(p) THEN p[i] ELSE q[i - Len(p)]
    BY ConcatProperties
  <1>2. /\ DOMAIN p = 1..Len(p) /\ DOMAIN q = 1..Len(q) /\ DOMAIN both = 1..Len(both)
    BY <1>1
  <1>3. /\ \A i \in 1..Len(p) : p[i] \in Range(p)
        /\ \A i \in 1..Len(q) : q[i] \in Range(q)
    BY RangeEquality
  <1> HIDE DEF both
  <1> SUFFICES ASSUME NEW i \in 1..Len(both), NEW j \in 1..Len(both), i < j,
                      both[j].kind = "OutputChanged",
                      both[i] = Evt("RunExited", both[j].of, both[j].n)
               PROVE  FALSE
    BY <1>2 DEF Ends, both
  <1>4. CASE j <= Len(p)
    <2>1. i \in DOMAIN p /\ j \in DOMAIN p BY <1>1, <1>2, <1>4
    <2>2. both[i] = p[i] /\ both[j] = p[j] BY <1>1, <1>4
    <2> QED BY <2>1, <2>2 DEF Ends
  <1>5. CASE i > Len(p)
    <2>1. i - Len(p) \in DOMAIN q /\ j - Len(p) \in DOMAIN q BY <1>1, <1>2, <1>5
    <2>2. both[i] = q[i - Len(p)] /\ both[j] = q[j - Len(p)] BY <1>1, <1>5
    <2>3. i - Len(p) < j - Len(p) BY <1>1
    <2> QED BY <2>1, <2>2, <2>3 DEF Ends
  <1>6. CASE i <= Len(p) /\ j > Len(p)
    <2>1. both[i] \in Range(p) BY <1>1, <1>3, <1>6
    <2>2. j - Len(p) \in 1..Len(q) /\ both[j] = q[j - Len(p)] BY <1>1, <1>6
    <2>3. both[j] \in Range(q) BY <1>3, <2>2
    <2> QED BY <2>1, <2>3 DEF Before
  <1> QED BY <1>1, <1>4, <1>5, <1>6

\* A log in which starts come first, then events of runs that it started.
LEMMA ConcatPreceded ==
  ASSUME NEW p \in Seq(Event), NEW q \in Seq(Event), Preceded(p),
         \A x \in Range(q) : OfRun(x) => Evt("RunStarted", x.of, x.n) \in Range(p)
  PROVE  Preceded(p \o q)
  <1> DEFINE both == p \o q
  <1>1. /\ Len(p) \in Nat /\ Len(q) \in Nat
        /\ both \in Seq(Event) /\ Len(both) = Len(p) + Len(q)
        /\ \A i \in 1..Len(both) : both[i] = IF i <= Len(p) THEN p[i] ELSE q[i - Len(p)]
    BY ConcatProperties
  <1>2. DOMAIN p = 1..Len(p) /\ DOMAIN both = 1..Len(both) BY <1>1
  <1>3. \A i \in 1..Len(q) : q[i] \in Range(q) BY RangeEquality
  <1>4. \A j \in 1..Len(p) : both[j] = p[j] BY <1>1
  <1> HIDE DEF both
  <1> SUFFICES ASSUME NEW i \in 1..Len(both), OfRun(both[i])
               PROVE  \E j \in 1..(i - 1) :
                        both[j] = Evt("RunStarted", both[i].of, both[i].n)
    BY <1>2 DEF Preceded, both
  <1>5. CASE i <= Len(p)
    <2>1. i \in DOMAIN p /\ both[i] = p[i] BY <1>1, <1>2, <1>5
    <2>2. PICK j \in 1..(i - 1) : p[j] = Evt("RunStarted", p[i].of, p[i].n)
      BY <2>1 DEF Preceded
    <2>3. both[j] = p[j] BY <1>1, <1>4, <1>5
    <2> QED BY <2>1, <2>2, <2>3
  <1>6. CASE i > Len(p)
    <2>1. i - Len(p) \in 1..Len(q) /\ both[i] = q[i - Len(p)] BY <1>1, <1>6
    <2>2. both[i] \in Range(q) BY <1>3, <2>1
    <2>3. Evt("RunStarted", both[i].of, both[i].n) \in Range(p) BY <2>2
    <2>4. PICK j \in 1..Len(p) : p[j] = Evt("RunStarted", both[i].of, both[i].n)
      BY <1>2, <2>3 DEF Range
    <2>5. j \in 1..(i - 1) BY <1>1, <1>6
    <2> QED BY <1>4, <2>4, <2>5
  <1> QED BY <1>1, <1>5, <1>6

\* Without output, or without exits, nothing is out of order.
LEMMA QuietEnds ==
  /\ \A P, Q : (\A x \in Q : x.kind # "OutputChanged") => Before(P, Q)
  /\ \A P, Q : (\A x \in P : x.kind # "RunExited") => Before(P, Q)
  /\ \A q : (\A x \in Range(q) : x.kind # "OutputChanged") => Ends(q)
  /\ \A q : (\A x \in Range(q) : x.kind # "RunExited") => Ends(q)
  <1>1. \A of, n : Evt("RunExited", of, n).kind = "RunExited" BY DEF Evt
  <1>2. \A q : \A i \in DOMAIN q : q[i] \in Range(q) BY DEF Range
  <1> QED BY <1>1, <1>2 DEF Before, Ends

\* Nothing is out of order in an empty or a one-element sequence.
LEMMA ShortEnds ==
  /\ Preceded(<<>>) /\ Ends(<<>>) /\ \A P : Before(P, {}) /\ Before({}, P)
  /\ \A P : Before(P, Range(<<>>)) /\ Before(Range(<<>>), P)
  BY EmptyRange DEF Preceded, Ends, Before

\* A step that leaves the stream, or begins a write that announces no output and no
\* exit.
LEMMA SameOrdered ==
  ASSUME Ordered, IInv, UNCHANGED <<log, pendingDurable, pendingRuntime>>,
         \/ /\ io'.batch = io.batch /\ (io'.kind = "flush" <=> io.kind = "flush")
            /\ op'.kind = op.kind \/ io.batch = <<>> \/ io.kind = "flush"
         \/ io'.batch = <<>>
         \/ /\ io.batch = <<>> /\ io'.kind # "flush"
            /\ \A x \in Range(io.batch)' : ~OfRun(x)
  PROVE  Ordered'
  <1>1. CASE /\ io'.batch = io.batch /\ (io'.kind = "flush" <=> io.kind = "flush")
             /\ op'.kind = op.kind \/ io.batch = <<>> \/ io.kind = "flush"
    <2>1. Opened(Waiting)' BY <1>1 DEF Ordered, Opened, Waiting
    <2>2. Before(Range(log), Waiting)' BY <1>1 DEF Ordered, Before, Waiting
    <2>3. io'.kind # "flush" /\ op'.kind # "exit" => \A x \in Range(io.batch)' : ~OfRun(x)
      BY <1>1, EmptyRange DEF Ordered
    <2> QED BY <1>1, <2>1, <2>2, <2>3 DEF Ordered, Before
  <1>2. ASSUME \A x \in Range(io.batch)' : ~OfRun(x), io'.kind # "flush" \/ io'.batch = <<>>
        PROVE  Ordered'
    <2>1. /\ \A x \in Range(io.batch)' : x.kind # "OutputChanged" /\ x.kind # "RunExited"
      BY <1>2 DEF OfRun
    <2>2. Ends(io.batch)' /\ \A P : Before(P, Range(io.batch)') /\ Before(Range(io.batch)', P)
      BY <2>1, QuietEnds
    <2>3. Opened(Waiting)' BY <1>2 DEF Ordered, Opened, Waiting
    <2>4. Before(Range(log), Waiting)' BY <2>2 DEF Ordered, Before, Waiting
    <2>5. Before(Range(pendingDurable)' \cup Range(io.batch)', Range(pendingRuntime)')
      BY <2>2 DEF Ordered, Before
    <2> QED BY <1>2, <2>2, <2>3, <2>4, <2>5 DEF Ordered
  <1>3. CASE io'.batch = <<>>
    BY <1>2, <1>3, EmptyRange
  <1> QED BY <1>1, <1>2, <1>3

\* A write ends, or an abort queues its compensation.
LEMMA SettleOrdered ==
  ASSUME Ordered, TypeOK, RuntimeOnly, NEW batch \in Seq(Event), NEW durable \in Seq(Event),
         NEW runtime \in {pendingRuntime, <<>>}, NEW held, NEW busy,
         Settle(batch, durable, runtime, held, busy), Ends(batch), Ends(durable),
         Opened(Range(batch) \cup Range(durable)),
         Before(Range(log), Range(batch) \cup Range(durable)),
         Before(Range(batch), Range(durable) \cup Range(runtime)),
         Before(Range(durable), Range(runtime)),
         \/ io'.batch = <<>>
         \/ /\ io'.batch = io.batch /\ io'.kind = "flush" /\ batch = <<>>
            /\ Before(Range(io.batch), Range(durable)) /\ runtime = <<>>
  PROVE  Ordered'
  <1>0. log \in Seq(Event) /\ runtime \in Seq(Event)
    <2>1. <<>> \in Seq(Event) OBVIOUS
    <2> QED BY <2>1 DEF TypeOK
  <1>1. \A x \in Range(runtime) : x.kind = "OutputChanged" /\ x \in Range(pendingRuntime)
    BY EmptyRange DEF RuntimeOnly
  <1>2. Ends(runtime) /\ \A P : Before(Range(runtime), P)
    BY <1>1, QuietEnds
  <1> DEFINE first == log \o batch
  <1>3. first \in Seq(Event) /\ Range(first) = Range(log) \cup Range(batch)
    BY <1>0, ConcatProperties, RangeConcatenation
  <1>4. Preceded(first)
    <2>1. \A x \in Range(batch) : OfRun(x) => Evt("RunStarted", x.of, x.n) \in Range(log)
      BY DEF Opened
    <2> QED BY <1>0, <2>1, ConcatPreceded DEF Ordered
  <1>5. Ends(first)
    <2>1. Before(Range(log), Range(batch)) BY DEF Before
    <2> QED BY <1>0, <2>1, ConcatEnds DEF Ordered
  <1> HIDE DEF first
  <1>6. Preceded(first \o runtime)
    <2>1. \A x \in Range(runtime) : OfRun(x) => Evt("RunStarted", x.of, x.n) \in Range(first)
      BY <1>1, <1>3 DEF Ordered, Opened, Waiting
    <2> QED BY <1>0, <1>3, <1>4, <2>1, ConcatPreceded
  <1>7. Before(Range(log), Range(runtime))
    BY <1>1 DEF Ordered, Before, Waiting
  <1>8. Ends(first \o runtime)
    <2>1. Before(Range(first), Range(runtime)) BY <1>3, <1>7 DEF Before
    <2> QED BY <1>0, <1>2, <1>3, <1>5, <2>1, ConcatEnds
  <1>9. Preceded(log') /\ Ends(log')
    BY <1>4, <1>5, <1>6, <1>8 DEF Settle, first
  <1>10. /\ Range(log)' \subseteq Range(log) \cup Range(batch) \cup Range(runtime)
         /\ Range(pendingRuntime)' \subseteq Range(runtime) /\ pendingDurable' = durable
    BY <1>0, SettleRange
  <1>11. Range(log) \subseteq Range(log)' BY <1>0, SettlePublishes
  <1>12. \/ io'.batch = <<>> /\ Range(io.batch)' = {}
         \/ /\ Range(io.batch)' = Range(io.batch) /\ io'.batch = io.batch /\ io'.kind = "flush"
            /\ Range(batch) = {} /\ Before(Range(io.batch), Range(durable))
            /\ Range(runtime) = {}
    BY EmptyRange
  <1>13. Opened(Waiting)'
    BY <1>1, <1>10, <1>11, <1>12 DEF Ordered, Opened, Waiting
  <1>14. Before(Range(log), Waiting)'
    <2>1. Before(Range(log) \cup Range(batch) \cup Range(runtime), Range(durable) \cup Range(runtime))
      BY <1>2, <1>7 DEF Before
    <2>2. Before(Range(log), Range(io.batch)) BY DEF Ordered, Before, Waiting
    <2>3. Before(Range(log)', Range(durable) \cup Range(runtime)) BY <1>10, <2>1 DEF Before
    <2>4. Before(Range(log)', Range(io.batch)') BY <1>10, <1>12, <2>2 DEF Before
    <2> QED BY <1>10, <2>3, <2>4 DEF Before, Waiting
  <1>15. Before(Range(pendingDurable)' \cup Range(io.batch)', Range(pendingRuntime)')
    BY <1>10, <1>12 DEF Before
  <1>16. IF io'.kind = "flush" THEN Before(Range(io.batch)', Range(pendingDurable)')
         ELSE Before(Range(pendingDurable)', Range(io.batch)')
    BY <1>10, <1>12, ShortEnds DEF Before
  <1>17. Ends(io'.batch) /\ Ends(pendingDurable')
    BY <1>10, <1>12, ShortEnds DEF Ordered
  <1>18. io'.kind # "flush" /\ op'.kind # "exit" => \A x \in Range(io.batch)' : ~OfRun(x)
    BY <1>12
  <1> QED BY <1>9, <1>13, <1>14, <1>15, <1>16, <1>17, <1>18 DEF Ordered

\* The writer moves batches between the queue, the write and the log.
LEMMA WritesOrdered ==
  ASSUME Ordered, KInv, IInv, Writes
  PROVE  Ordered'
  <1>0. /\ TypeOK /\ op \in Op /\ io \in IO /\ io.batch \in Seq(Event) /\ RuntimeOnly
        /\ pendingDurable \in Seq(Event) /\ pendingRuntime \in Seq(Event)
        /\ <<>> \in Seq(Event)
    BY DEF IInv, TypeOK, IO, KInv, Knowledge
  <1>1. CASE SaveSucceeds \/ SaveFails \/ FallbackResetFails \/ AppendSucceeds
               \/ AppendFails
    <2>1. UNCHANGED <<log, pendingDurable, pendingRuntime, op>>
      BY <1>1 DEF SaveSucceeds, SaveFails, FallbackResetFails, AppendSucceeds,
           AppendFails, stream
    <2>2. io'.batch = io.batch /\ (io'.kind = "flush" <=> io.kind = "flush")
      <3>1. CASE AppendFails
        BY <1>0, <3>1 DEF AppendFails, IO
      <3>2. CASE ~AppendFails
        BY <1>0, <1>1, <3>2 DEF SaveSucceeds, SaveFails, FallbackResetFails,
             AppendSucceeds, IO
      <3> QED BY <3>1, <3>2
    <2> QED BY <2>1, <2>2, SameOrdered
  <1>2. CASE \E b \in BOOLEAN : BeginFlush(b)
    <2>1. /\ UNCHANGED <<log, pendingRuntime>> /\ pendingDurable' = <<>>
          /\ io'.batch = pendingDurable /\ io'.kind = "flush"
      BY <1>2 DEF BeginFlush, BeginWrite
    <2>2. Range(pendingDurable)' = {} /\ Range(io.batch)' = Range(pendingDurable)
      BY <2>1, EmptyRange
    <2>3. Opened(Waiting)' /\ Before(Range(log), Waiting)'
      BY <2>1, <2>2 DEF Ordered, Opened, Before, Waiting
    <2>4. Before(Range(pendingDurable)' \cup Range(io.batch)', Range(pendingRuntime)')
      BY <2>1, <2>2 DEF Ordered, Before
    <2> QED BY <2>1, <2>2, <2>3, <2>4, ShortEnds DEF Ordered
  <1>3. CASE WriteCheckpoint \/ FinishCheckpoint \/ CheckpointFailed
    <2>1. UNCHANGED <<log, pendingDurable, pendingRuntime>>
      BY <1>3 DEF WriteCheckpoint, FinishCheckpoint, CheckpointFailed, stream
    <2>2. io'.batch = <<>>
      BY <1>3, NoOpFields DEF WriteCheckpoint, FinishCheckpoint, CheckpointFailed, BeginWrite
    <2> QED BY <2>1, <2>2, SameOrdered
  <1>4. CASE SkipCheckpoint \/ (OpFlush /\ ~(pendingDurable # <<>> \/ dirty))
    <2>1. /\ UNCHANGED <<log, pendingDurable, pendingRuntime, io>>
          /\ op.phase \in {"checkpoint", "flush"}
      BY <1>4 DEF SkipCheckpoint, OpFlush, stream
    <2>2. io.batch = <<>> \/ io.kind = "flush"
      BY <1>0, <2>1 DEF IInv, WriteShape, IO, IOKinds
    <2> QED BY <2>1, <2>2, SameOrdered
  <1>5. CASE FinishFlush
    <2>1. /\ Settle(io.batch, pendingDurable, pendingRuntime, reservation, FALSE)
          /\ io'.batch = <<>> /\ io.kind = "flush"
      BY <1>5, NoOpFields DEF FinishFlush
    <2>2. /\ Ends(io.batch) /\ Ends(pendingDurable)
          /\ Opened(Range(io.batch) \cup Range(pendingDurable))
          /\ Before(Range(log), Range(io.batch) \cup Range(pendingDurable))
      BY DEF Ordered, Opened, Before, Waiting
    <2>3. /\ Before(Range(io.batch), Range(pendingDurable) \cup Range(pendingRuntime))
          /\ Before(Range(pendingDurable), Range(pendingRuntime))
      BY <2>1 DEF Ordered, Before
    <2> QED BY <1>0, <2>1, <2>2, <2>3, SettleOrdered
  <1>6. CASE FlushFailed
    <2> DEFINE queue == io.batch \o pendingDurable
    <2>1. /\ Settle(<<>>, queue, pendingRuntime, reservation, FALSE)
          /\ io'.batch = <<>> /\ io.kind = "flush"
      BY <1>6, NoOpFields DEF FlushFailed
    <2>2. /\ queue \in Seq(Event)
          /\ Range(queue) = Range(io.batch) \cup Range(pendingDurable)
      BY <1>0, ConcatProperties, RangeConcatenation
    <2>3. Ends(queue) BY <1>0, <2>1, ConcatEnds DEF Ordered
    <2> HIDE DEF queue
    <2>4. /\ Opened({} \cup Range(queue)) /\ Before(Range(log), {} \cup Range(queue))
          /\ Before(Range(queue), Range(pendingRuntime))
      BY <2>2 DEF Ordered, Opened, Before, Waiting
    <2> QED BY <1>0, <2>1, <2>2, <2>3, <2>4, EmptyRange, ShortEnds, SettleOrdered
  <1> QED BY <1>1, <1>2, <1>3, <1>4, <1>5, <1>6 DEF Writes, BackgroundFlush, OpFlush

\* Requests, refusals, admissions and stops leave the stream.
LEMMA PassingOrdered ==
  ASSUME Ordered, KInv, IInv, Passing \/ Requests
  PROVE  Ordered'
  <1>1. UNCHANGED <<log, pendingDurable, pendingRuntime, io>>
    <2>1. CASE \E s \in Shells : BeginStart(s) \/ RestartShell(s)
      BY <2>1 DEF BeginStart, RestartShell, stream
    <2>2. CASE Requests /\ ~ \E s \in Shells : BeginStart(s) \/ RestartShell(s)
      <3>1. Quiet
        BY <2>2 DEF Requests, BeginMutation, BeginLocalCreate, BeginClose,
             BeginRecover, BeginCloseWorkspace, BeginShutdown, BeginBaseline,
             BeginCheckpoint
      <3> QED BY <3>1 DEF Quiet, stream
    <2>3. CASE Passing /\ ~AdmitLifecycle
      BY <2>3 DEF Passing, SkipCheckpoint, ObserveBaseline, AdmitMutation, StartRefused,
           AllStopped, StopRuntime, StopFails, Quiet, stream
    <2>4. CASE AdmitLifecycle
      BY <2>4 DEF AdmitLifecycle
    <2> QED BY <2>1, <2>2, <2>3, <2>4
  <1>2. op.phase # "commit"
    <2>1. CASE Requests
      <3>1. op.kind = "none"
        BY <2>1 DEF Requests, BeginMutation, BeginLocalCreate, BeginClose, BeginStart,
             RestartShell, BeginRecover, BeginCloseWorkspace, BeginShutdown,
             BeginBaseline, BeginCheckpoint, Begin
      <3> QED BY <3>1 DEF IInv, OpShape
    <2>2. CASE Passing
      BY <2>2 DEF Passing, SkipCheckpoint, ObserveBaseline, AdmitMutation, StartRefused,
           AdmitLifecycle, AllStopped, StopRuntime, StopFails
    <2> QED BY <2>1, <2>2
  <1>3. io.batch = <<>> \/ io.kind = "flush"
    <2>1. io \in IO BY DEF IInv, TypeOK
    <2> QED BY <1>2, <2>1 DEF IInv, WriteShape, IO, IOKinds
  <1> QED BY <1>1, <1>3, SameOrdered

\* Output is announced or queued after the start of its run, and while the run has
\* not ended.
LEMMA RunsOrdered ==
  ASSUME Ordered, Going, LInv, KInv, IInv, Runs
  PROVE  Ordered'
  <1>0. /\ TypeOK /\ io \in IO /\ log \in Seq(Event) /\ pendingRuntime \in Seq(Event)
        /\ RuntimeOnly
    BY DEF IInv, TypeOK, KInv, Knowledge
  <1>1. ASSUME NEW s \in Shells, PublishOutput(s)
        PROVE  Ordered'
    <2> DEFINE e == Evt("OutputChanged", s, mem[s].gen)
               exit == Evt("RunExited", s, mem[s].gen)
               start == Evt("RunStarted", s, mem[s].gen)
    <2>1. UNCHANGED <<io, op, pendingDurable>> /\ reader[s] = "reading"
      BY <1>1 DEF PublishOutput
    <2>2. s \in Entities /\ mem[s].gen \in Nat
      BY <1>0 DEF TypeOK, Record, Entities
    <2>3. e \in Event /\ e.kind = "OutputChanged" /\ e.of = s /\ e.n = mem[s].gen
      BY <2>2 DEF Evt, Event
    <2>4. start \in Range(log) /\ life[s] = "running"
      BY <2>1 DEF Going, ReadersRun, RunsAnnounced, StartKnown
    <2>5. exit \notin Held \cup Range(io.batch)
      <3>1. mem[s].run = "active" BY <2>4 DEF LInv, Running
      <3>2. ~Covers(mem, exit) BY <2>2, <3>1 DEF Covers, Evt
      <3> QED BY <3>2 DEF KInv, Knowledge, MemKnows, Covered
    <2>6. exit = Evt("RunExited", e.of, e.n) /\ start = Evt("RunStarted", e.of, e.n)
      BY <2>3
    <2> HIDE DEF e, exit, start
    <2>7. CASE Blocked
      <3>1. log' = log /\ pendingRuntime' = QueueRuntime(pendingRuntime, e)
        BY <1>1, <2>7 DEF PublishOutput, e
      <3>2. Range(pendingRuntime)' \subseteq Range(pendingRuntime) \cup {e}
        BY <1>0, <2>3, <3>1, QueueRuntimeRange
      <3>3. Opened(Waiting)'
        BY <2>1, <2>4, <2>6, <3>1, <3>2 DEF Ordered, Opened, Waiting
      <3>4. Before(Range(log), Waiting)'
        BY <2>1, <2>5, <2>6, <3>1, <3>2 DEF Ordered, Before, Waiting, Held
      <3>5. Before(Range(pendingDurable)' \cup Range(io.batch)', Range(pendingRuntime)')
        BY <2>1, <2>5, <2>6, <3>1, <3>2 DEF Ordered, Before, Held
      <3> QED BY <2>1, <3>1, <3>3, <3>4, <3>5 DEF Ordered
    <2>8. CASE ~Blocked
      <3>1. /\ log' = Append(log, e) /\ pendingRuntime' = pendingRuntime
            /\ pendingDurable = <<>> /\ io.batch = <<>> /\ pendingRuntime = <<>>
        <4>1. log' = Append(log, e) /\ pendingRuntime' = pendingRuntime
          BY <1>1, <2>8 DEF PublishOutput, e
        <4>2. pendingDurable = <<>> /\ pendingRuntime = <<>>
          BY <2>8 DEF IInv, QueueReleased, Blocked
        <4>3. io.batch = <<>>
          BY <1>0, <2>8 DEF IInv, WriteShape, Blocked, InFlight, IO, IOKinds
        <4> QED BY <4>1, <4>2, <4>3
      <3>2. <<e>> \in Seq(Event) /\ Range(<<e>>) = {e} /\ Append(log, e) = log \o <<e>>
        BY <1>0, <2>3, AppendIsConcat DEF Range
      <3>3. Preceded(log \o <<e>>)
        <4>1. \A x \in Range(<<e>>) : OfRun(x) => Evt("RunStarted", x.of, x.n) \in Range(log)
          BY <2>4, <2>6, <3>2
        <4> QED BY <1>0, <3>2, <4>1, ConcatPreceded DEF Ordered
      <3>4. Ends(log \o <<e>>)
        <4>1. Before(Range(log), Range(<<e>>)) BY <2>5, <2>6, <3>2 DEF Before, Held
        <4>2. \A x \in Range(<<e>>) : x.kind # "RunExited" BY <2>3, <3>2
        <4>3. Ends(<<e>>) BY <4>2, QuietEnds
        <4> QED BY <1>0, <3>2, <4>1, <4>3, ConcatEnds DEF Ordered
      <3>5. Waiting' = {} BY <2>1, <3>1, EmptyRange DEF Waiting
      <3>6. Opened(Waiting)' /\ Before(Range(log), Waiting)'
        BY <3>5 DEF Opened, Before
      <3> QED BY <2>1, <3>1, <3>2, <3>3, <3>4, <3>6 DEF Ordered
    <2> QED BY <2>7, <2>8
  <1>2. ASSUME NEW s \in Shells, OutputRefused(s) \/ ProcessExits(s)
        PROVE  Ordered'
    BY <1>2, SameOrdered DEF OutputRefused, ProcessExits, stream
  <1>3. ASSUME NEW s \in Shells, CheckpointHistory(s)
        PROVE  Ordered'
    <2>1. /\ UNCHANGED <<log, pendingDurable, pendingRuntime, op>>
          /\ io'.batch = io.batch /\ io'.kind = io.kind
      BY <1>0, <1>3 DEF CheckpointHistory, Touched, IO, stream
    <2> QED BY <2>1, SameOrdered
  <1>4. ASSUME NEW x \in exits, BeginExit(x[1], x[2])
        PROVE  Ordered'
    <2>1. UNCHANGED <<log, pendingDurable, pendingRuntime, io>> /\ op.kind = "none"
      BY <1>4 DEF BeginExit, stream
    <2>2. op.phase # "commit" BY <2>1 DEF IInv, OpShape
    <2>3. io.batch = <<>> \/ io.kind = "flush"
      BY <1>0, <2>2 DEF IInv, WriteShape, IO, IOKinds
    <2> QED BY <2>1, <2>3, SameOrdered
  <1> QED BY <1>1, <1>2, <1>3, <1>4 DEF Runs

\* What an operation applies announces no output, and an exit of a run that started
\* follows the output queued of it.
LEMMA ApplyOrdered ==
  ASSUME Ordered, Going, LInv, KInv, IInv,
         \/ \E e \in Entities : ApplyMutation(e)
         \/ \E s \in Shells : ApplyStart(s) \/ ApplyExit(s)
         \/ \E S \in SUBSET Shells : ApplyRecover(S)
         \/ ApplyLifecycle
  PROVE  Ordered'
  <1>0. /\ TypeOK /\ op \in Op /\ io \in IO /\ mem \in [Entities -> Record]
        /\ pendingDurable \in Seq(Event) /\ pendingRuntime \in Seq(Event) /\ RuntimeOnly
    BY DEF IInv, TypeOK, KInv, Knowledge
  <1>b. io.kind = "none" /\ io.batch = <<>>
    <2>1. io.kind = "none"
      BY DEF ApplyMutation, ApplyStart, ApplyExit, ApplyRecover, ApplyLifecycle
    <2> QED BY <2>1 DEF IInv, WriteShape
  <1>1. ASSUME NEW e \in Entities, ApplyMutation(e)
        PROVE  Ordered'
    <2>1. UNCHANGED <<log, pendingDurable, pendingRuntime>>
      BY <1>1 DEF ApplyMutation, stream
    <2>2. CASE UNCHANGED io
      BY <1>b, <2>1, <2>2, SameOrdered
    <2>3. CASE io'.batch = MutationEvents(e) /\ io'.kind # "flush"
      <3>1. PICK x : MutationEvents(e) = <<x>> /\ ~OfRun(x)
        <4>1. ~OfRun(Evt("Created", e, 0)) /\ ~OfRun(Evt("Renamed", e, mem[e].rev + 1))
          BY DEF OfRun, Evt
        <4> QED BY <4>1 DEF MutationEvents
      <3>2. Range(io.batch)' = {x} BY <2>3, <3>1 DEF Range
      <3> QED BY <1>b, <2>1, <2>3, <3>1, <3>2, SameOrdered
    <2>4. UNCHANGED io \/ (io'.batch = MutationEvents(e) /\ io'.kind # "flush")
      <3>1. \/ UNCHANGED io
            \/ BeginWrite(IF op.kind = "local" THEN "journal" ELSE "commit", Mutated(e),
                          MutationEvents(e), 1, FALSE)
        BY <1>1 DEF ApplyMutation
      <3> QED BY <3>1 DEF BeginWrite
    <2> QED BY <2>2, <2>3, <2>4
  <1>2. ASSUME NEW S \in SUBSET Shells, io'.kind # "flush",
               io'.batch = RunEvents("RunStarted", S, Started(S)),
               UNCHANGED <<log, pendingDurable, pendingRuntime>>
        PROVE  Ordered'
    <2>1. Started(S) \in [Entities -> Record] BY <1>0, StartedType
    <2>2. \A x \in Range(RunEvents("RunStarted", S, Started(S))) : ~OfRun(x)
      <3> SUFFICES ASSUME NEW x \in Range(RunEvents("RunStarted", S, Started(S)))
                   PROVE  ~OfRun(x)
        OBVIOUS
      <3>1. PICK s \in S : x = Evt("RunStarted", s, Started(S)[s].gen)
        BY <2>1, RunEventsRange DEF DurableKinds
      <3> QED BY <3>1 DEF OfRun, Evt
    <2>3. \A x \in Range(io.batch)' : ~OfRun(x) BY <1>2, <2>2
    <2> QED BY <1>2, <1>b, <2>3, SameOrdered
  <1>3. ASSUME NEW s \in Shells, ApplyStart(s)
        PROVE  Ordered'
    <2>1. /\ UNCHANGED <<log, pendingDurable, pendingRuntime>>
          /\ io'.batch = RunEvents("RunStarted", {s}, Started({s})) /\ io'.kind # "flush"
      BY <1>3 DEF ApplyStart, BeginWrite, stream
    <2> QED BY <1>2, <2>1
  <1>4. ASSUME NEW S \in SUBSET Shells, ApplyRecover(S)
        PROVE  Ordered'
    <2>1. UNCHANGED <<log, pendingDurable, pendingRuntime>>
      BY <1>4 DEF ApplyRecover, stream
    <2>2. CASE S # {} /\ ReserveWithPending(Cardinality(op.targets))
      <3>1. BeginWrite("commit", Started(S), RunEvents("RunStarted", S, Started(S)),
                       Cardinality(S), FALSE)
        BY <1>4, <2>2 DEF ApplyRecover
      <3>2. io'.batch = RunEvents("RunStarted", S, Started(S)) /\ io'.kind # "flush"
        BY <3>1 DEF BeginWrite
      <3> QED BY <1>2, <2>1, <3>2
    <2>3. CASE ~(S # {} /\ ReserveWithPending(Cardinality(op.targets)))
      <3>1. UNCHANGED io BY <1>4, <2>3 DEF ApplyRecover
      <3> QED BY <1>b, <2>1, <3>1, SameOrdered
    <2> QED BY <2>2, <2>3
  <1>5. ASSUME NEW s \in Shells, ApplyExit(s)
        PROVE  Ordered'
    <2> DEFINE exit == Evt("RunExited", s, mem[s].gen)
               batch == pendingRuntime \o <<exit>>
    <2>1. UNCHANGED <<log, pendingDurable>> BY <1>5 DEF ApplyExit
    <2>2. CASE ~ReserveWithPending(1)
      <3>1. UNCHANGED <<io, pendingRuntime>> BY <1>5, <2>2 DEF ApplyExit
      <3> QED BY <1>b, <2>1, <3>1, SameOrdered
    <2>3. CASE ReserveWithPending(1)
      <3>1. /\ pendingRuntime' = <<>> /\ op' = [op EXCEPT !.phase = "commit"]
            /\ io'.batch = batch /\ io'.kind = "commit"
            /\ op.kind = "exit" /\ op.phase = "apply" /\ s \in op.targets
        BY <1>5, <2>3 DEF ApplyExit, BeginWrite
      <3>2. op'.kind = "exit" BY <1>0, <3>1 DEF Op
      <3>3. Evt("RunStarted", s, mem[s].gen) \in Range(log)
        <4>1. life[s] = "running" BY <3>1 DEF LInv, TargetsLive
        <4>2. ~Committing(s) BY <3>1 DEF Committing
        <4> QED BY <4>1, <4>2 DEF Going, RunsAnnounced, StartKnown
      <3>4. s \in Entities /\ mem[s].gen \in Nat BY <1>0 DEF Record, Entities
      <3>5. /\ exit \in Event /\ exit.kind = "RunExited" /\ exit.of = s
            /\ exit.n = mem[s].gen
        BY <3>4 DEF Evt, Event, DurableKinds
      <3> HIDE DEF exit
      <3>6. /\ <<exit>> \in Seq(Event) /\ Range(<<exit>>) = {exit}
            /\ batch \in Seq(Event) /\ Range(batch) = Range(pendingRuntime) \cup {exit}
        <4>1. <<exit>> \in Seq(Event) /\ Range(<<exit>>) = {exit} BY <3>5 DEF Range
        <4>2. \A q \in Seq(Event) :
                /\ pendingRuntime \o q \in Seq(Event)
                /\ Range(pendingRuntime \o q) = Range(pendingRuntime) \cup Range(q)
          BY <1>0, ConcatProperties, RangeConcatenation
        <4> QED BY <4>1, <4>2
      <3>7. Ends(batch)
        <4>1. \A x \in Range(pendingRuntime) : x.kind # "RunExited"
          BY <1>0 DEF RuntimeOnly
        <4>2. \A x \in Range(<<exit>>) : x.kind # "OutputChanged" BY <3>5, <3>6
        <4>3. /\ Ends(pendingRuntime) /\ Ends(<<exit>>)
              /\ Before(Range(pendingRuntime), Range(<<exit>>))
          BY <4>1, <4>2, QuietEnds
        <4> QED BY <1>0, <3>6, <4>3, ConcatEnds
      <3> HIDE DEF batch
      <3>8. Range(io.batch)' = Range(pendingRuntime) \cup {exit} BY <3>1, <3>6
      <3>9. Range(pendingRuntime)' = {} BY <3>1, EmptyRange
      <3>10. Opened(Waiting)'
        BY <2>1, <3>3, <3>5, <3>8, <3>9 DEF Ordered, Opened, Waiting
      <3>11. Before(Range(log), Waiting)' /\ Before(Range(pendingDurable)', Range(io.batch)')
        BY <2>1, <3>5, <3>8, <3>9 DEF Ordered, Before, Waiting
      <3>12. Before(Range(pendingDurable)' \cup Range(io.batch)', Range(pendingRuntime)')
        BY <3>9 DEF Before
      <3> QED BY <2>1, <3>1, <3>2, <3>7, <3>10, <3>11, <3>12 DEF Ordered
    <2> QED BY <2>2, <2>3
  <1>6. CASE ApplyLifecycle
    <2>1. /\ UNCHANGED <<log, pendingDurable, pendingRuntime>>
          /\ io'.batch = CommittedEvents /\ io'.kind # "flush" /\ op.kind \in Lifecycle
      BY <1>6 DEF ApplyLifecycle, BeginWrite
    <2>2. CASE CommittedEvents = <<>>
      BY <2>1, <2>2, SameOrdered
    <2>3. CASE CommittedEvents # <<>>
      <3>1. PICK x : CommittedEvents = <<x>> /\ ~OfRun(x)
        <4>1. \A e : ~OfRun(Evt("Closed", e, 0)) BY DEF OfRun, Evt
        <4> QED BY <2>1, <2>3, <4>1 DEF CommittedEvents, Lifecycle
      <3>2. Range(io.batch)' = {x} BY <2>1, <3>1 DEF Range
      <3> QED BY <1>b, <2>1, <3>1, <3>2, SameOrdered
    <2> QED BY <2>2, <2>3
  <1> QED BY <1>1, <1>3, <1>4, <1>5, <1>6

\* The batch of an operation is in the log or in the durable queue when it ends, and
\* the exits of a compensation follow all the output queued.
LEMMA EndOrdered ==
  ASSUME Ordered, Going, LInv, KInv, IInv,
         \/ FinishMutation \/ FinishStart \/ FinishExit \/ ExitFailed \/ FinishLifecycle
         \/ MutationFailed \/ LifecycleFailed \/ StartFailed \/ AbortLifecycle
  PROVE  Ordered'
  <1>0. /\ TypeOK /\ op \in Op /\ io \in IO /\ io.batch \in Seq(Event) /\ RuntimeOnly
        /\ mem \in [Entities -> Record] /\ <<>> \in Seq(Event)
        /\ pendingDurable \in Seq(Event) /\ pendingRuntime \in Seq(Event)
    BY DEF IInv, TypeOK, IO, KInv, Knowledge
  <1>o. /\ Ends(pendingDurable) /\ Ends(io.batch)
        /\ Opened(Range(pendingDurable) \cup Range(io.batch) \cup Range(pendingRuntime))
        /\ Before(Range(log), Range(pendingDurable) \cup Range(io.batch)
                                \cup Range(pendingRuntime))
        /\ Before(Range(pendingDurable) \cup Range(io.batch), Range(pendingRuntime))
    BY DEF Ordered, Waiting
  <1>c. op.phase = "commit" => io.kind # "flush" BY DEF IInv, WriteShape
  <1>1. CASE FinishMutation \/ FinishStart \/ FinishLifecycle
    <2>1. PICK held :
            /\ Settle(io.batch, pendingDurable, pendingRuntime, held, FALSE)
            /\ io'.batch = <<>> /\ op.phase = "commit" /\ op.kind # "exit"
      BY <1>1, NoOpFields DEF FinishMutation, FinishStart, FinishLifecycle, Lifecycle
    <2>2. \A x \in Range(io.batch) : x.kind # "OutputChanged" /\ x.kind # "RunExited"
      BY <1>c, <2>1 DEF Ordered, OfRun
    <2>3. Before(Range(io.batch), Range(pendingDurable) \cup Range(pendingRuntime))
      BY <2>2, QuietEnds
    <2>4. /\ Opened(Range(io.batch) \cup Range(pendingDurable))
          /\ Before(Range(log), Range(io.batch) \cup Range(pendingDurable))
          /\ Before(Range(pendingDurable), Range(pendingRuntime))
      BY <1>o DEF Opened, Before
    <2> QED BY <1>0, <1>o, <2>1, <2>3, <2>4, SettleOrdered
  <1>2. CASE MutationFailed \/ StartFailed
    <2>1. /\ Settle(<<>>, pendingDurable, pendingRuntime, reservation, FALSE)
          /\ io'.batch = <<>>
      BY <1>2, NoOpFields DEF MutationFailed, StartFailed
    <2>2. /\ Opened(Range(<<>>) \cup Range(pendingDurable))
          /\ Before(Range(log), Range(<<>>) \cup Range(pendingDurable))
          /\ Before(Range(pendingDurable), Range(pendingRuntime))
      BY <1>o, EmptyRange DEF Opened, Before
    <2> QED BY <1>0, <1>o, <2>1, <2>2, ShortEnds, SettleOrdered
  <1> DEFINE queue == pendingDurable \o io.batch
  <1>q. ASSUME op.phase = "commit"
        PROVE  /\ queue \in Seq(Event) /\ Ends(queue) /\ Opened(Range(queue))
               /\ Before(Range(log), Range(queue))
               /\ Before(Range(queue), Range(pendingRuntime))
    <2>1. /\ queue \in Seq(Event)
          /\ Range(queue) = Range(pendingDurable) \cup Range(io.batch)
      BY <1>0, ConcatProperties, RangeConcatenation
    <2>2. Before(Range(pendingDurable), Range(io.batch)) BY <1>c, <1>q DEF Ordered
    <2>3. Ends(queue) BY <1>0, <1>o, <2>2, ConcatEnds
    <2> HIDE DEF queue
    <2> QED BY <1>o, <2>1, <2>3 DEF Opened, Before
  <1>3. CASE FinishExit
    <2>1. /\ Settle(queue, <<>>, pendingRuntime, reservation, FALSE)
          /\ io'.batch = <<>> /\ op.phase = "commit"
      BY <1>3, NoOpFields DEF FinishExit
    <2> HIDE DEF queue
    <2>2. /\ Opened(Range(queue) \cup Range(<<>>))
          /\ Before(Range(log), Range(queue) \cup Range(<<>>))
          /\ Before(Range(queue), Range(<<>>) \cup Range(pendingRuntime))
      BY <1>q, <2>1, EmptyRange DEF Opened, Before
    <2> QED BY <1>0, <1>q, <2>1, <2>2, ShortEnds, SettleOrdered
  <1>4. CASE ExitFailed
    <2>1. /\ Settle(<<>>, queue, pendingRuntime, reservation, FALSE)
          /\ io'.batch = <<>> /\ op.phase = "commit"
      BY <1>4, NoOpFields DEF ExitFailed
    <2> HIDE DEF queue
    <2>2. /\ Opened(Range(<<>>) \cup Range(queue))
          /\ Before(Range(log), Range(<<>>) \cup Range(queue))
      BY <1>q, <2>1, EmptyRange DEF Opened, Before
    <2> QED BY <1>0, <1>q, <2>1, <2>2, ShortEnds, SettleOrdered
  <1>5. ASSUME NEW S \in SUBSET Shells, NEW m \in [Entities -> Record],
               \A s \in S : Evt("RunStarted", s, m[s].gen) \in Range(log),
               NEW held, NEW busy,
               Settle(<<>>, pendingDurable \o Compensation(S, m), <<>>, held, busy),
               \/ io'.batch = <<>>
               \/ io'.batch = io.batch /\ io'.kind = "flush" /\ io.kind = "flush"
        PROVE  Ordered'
    <2> DEFINE exited == RunEvents("RunExited", S, m)
               added == pendingRuntime \o exited
               all == pendingDurable \o added
    <2>1. exited \in Seq(Event) BY RunEventsType DEF DurableKinds
    <2>2. \A x \in Range(exited) :
            x.kind = "RunExited" /\ Evt("RunStarted", x.of, x.n) \in Range(log)
      <3> SUFFICES ASSUME NEW x \in Range(exited)
                   PROVE  x.kind = "RunExited" /\ Evt("RunStarted", x.of, x.n) \in Range(log)
        OBVIOUS
      <3>1. PICK s \in S : x = Evt("RunExited", s, m[s].gen)
        BY RunEventsRange DEF DurableKinds
      <3>2. x.kind = "RunExited" /\ x.of = s /\ x.n = m[s].gen BY <3>1 DEF Evt
      <3> QED BY <1>5, <3>2
    <2> HIDE DEF exited
    <2>3. /\ \A x \in Range(pendingRuntime) : x.kind # "RunExited"
          /\ \A x \in Range(exited) : x.kind # "OutputChanged"
      BY <1>0, <2>2 DEF RuntimeOnly
    <2>4. /\ added \in Seq(Event) /\ Ends(added)
          /\ Range(added) = Range(pendingRuntime) \cup Range(exited)
      <3>1. /\ Ends(pendingRuntime) /\ Ends(exited)
            /\ Before(Range(pendingRuntime), Range(exited))
        BY <2>3, QuietEnds
      <3> QED BY <1>0, <2>1, <3>1, ConcatEnds, ConcatProperties, RangeConcatenation
    <2> HIDE DEF added
    <2>5. \A P : Before(P, Range(exited)) BY <2>3, QuietEnds
    <2>6. /\ all \in Seq(Event) /\ Ends(all)
          /\ Range(all) = Range(pendingDurable) \cup Range(pendingRuntime) \cup Range(exited)
      <3>1. Before(Range(pendingDurable), Range(added)) BY <1>o, <2>4, <2>5 DEF Before
      <3>2. Ends(all) BY <1>0, <1>o, <2>4, <3>1, ConcatEnds
      <3> QED BY <1>0, <2>4, <3>2, ConcatProperties, RangeConcatenation
    <2>7. Settle(<<>>, all, <<>>, held, busy)
      BY <1>5 DEF Compensation, added, exited
    <2> HIDE DEF all
    <2>8. /\ Opened(Range(<<>>) \cup Range(all))
          /\ Before(Range(log), Range(<<>>) \cup Range(all))
      BY <1>o, <2>2, <2>5, <2>6, EmptyRange DEF Opened, Before
    <2>9. /\ Before(Range(<<>>), Range(all) \cup Range(<<>>))
          /\ Before(Range(all), Range(<<>>))
      BY ShortEnds, EmptyRange DEF Before
    <2>10. \/ io'.batch = <<>>
           \/ /\ io'.batch = io.batch /\ io'.kind = "flush"
              /\ Before(Range(io.batch), Range(all))
      <3>1. io.kind = "flush" => Before(Range(io.batch), Range(pendingDurable))
        BY DEF Ordered
      <3> QED BY <1>5, <1>o, <2>5, <2>6, <3>1 DEF Before
    <2> QED BY <1>0, <2>6, <2>7, <2>8, <2>9, <2>10, ShortEnds, SettleOrdered
  <1>6. CASE LifecycleFailed
    <2>1. /\ op.kind \in Lifecycle /\ op.phase = "commit" /\ io'.batch = <<>>
          /\ Settle(<<>>, pendingDurable \o Compensation(op.stopped, op.undo), <<>>, 0, FALSE)
      BY <1>6, NoOpFields DEF LifecycleFailed
    <2>2. op.stopped \in SUBSET Shells /\ op.undo \in [Entities -> Record]
      BY <1>0 DEF Op
    <2>3. \A s \in op.stopped : Evt("RunStarted", s, op.undo[s].gen) \in Range(log)
      BY <2>1, <2>2 DEF Going, UndoAnnounced, StartKnown
    <2> QED BY <1>5, <2>1, <2>2, <2>3
  <1>7. CASE AbortLifecycle
    <2> DEFINE killed == {s \in op.stopped : life[s] = "running"}
    <2>1. /\ Settle(<<>>, pendingDurable \o Compensation(killed, mem), <<>>, 0, InFlight)
          /\ io' = io \/ io' = Touched
          /\ op.phase = "abort"
      BY <1>7 DEF AbortLifecycle
    <2>2. io'.batch = io.batch /\ io'.kind = io.kind
      BY <1>0, <2>1 DEF Touched, IO
    <2>3. killed \in SUBSET Shells /\ \A s \in killed : life[s] = "running"
      BY <1>0 DEF Op
    <2> HIDE DEF killed
    <2>4. \A s \in killed : Evt("RunStarted", s, mem[s].gen) \in Range(log)
      <3>1. \A s \in killed : s \in Shells /\ ~Committing(s)
        BY <2>1, <2>3 DEF Committing
      <3> QED BY <2>3, <3>1 DEF Going, RunsAnnounced, StartKnown
    <2>5. io.batch = <<>> \/ io.kind = "flush"
      BY <1>0, <2>1 DEF IInv, WriteShape, IO, IOKinds
    <2> QED BY <1>0, <1>5, <2>1, <2>2, <2>3, <2>4, <2>5
  <1> QED BY <1>1, <1>2, <1>3, <1>4, <1>6, <1>7

\* The invariant of RunOrder is inductive.
LEMMA OrderedStep ==
  Ordered /\ Going /\ LInv /\ KInv /\ IInv /\ [Next]_vars => Ordered'
  <1> SUFFICES ASSUME Ordered, Going, LInv, KInv, IInv, [Next]_vars PROVE Ordered'
    OBVIOUS
  <1>1. CASE UNCHANGED vars
    BY <1>1, SameOrdered DEF vars, stream
  <1>2. CASE Operations
    BY <1>2, PassingOrdered, ApplyOrdered, EndOrdered DEF Operations, Passing
  <1>3. CASE CrashAndRestore
    <2>1. /\ log' = <<>> /\ pendingDurable' = <<>> /\ pendingRuntime' = <<>>
          /\ io'.batch = <<>>
      BY <1>3, NoOpFields DEF CrashAndRestore
    <2>2. Range(<<>>) = {} BY EmptyRange
    <2> QED BY <2>1, <2>2, ShortEnds DEF Ordered, Waiting, Opened, Before
  <1> QED BY <1>1, <1>2, <1>3, WritesOrdered, PassingOrdered, RunsOrdered DEF Next

\* Nothing is announced or queued when the coordinator starts.
LEMMA InitOrdered == Init => Ordered
  <1> SUFFICES ASSUME Init PROVE Ordered OBVIOUS
  <1>1. log = <<>> /\ pendingDurable = <<>> /\ pendingRuntime = <<>> /\ io.batch = <<>>
    BY NoOpFields DEF Init
  <1> QED BY <1>1, EmptyRange, ShortEnds DEF Ordered, Waiting, Opened, Before

\* The events of a run are announced in its order: its readers publish without
\* mutation_lock, but only between the publication of RunStarted and the end of the
\* run, and try_record_run_exit and the compensations put the queued output before
\* the exit.
THEOREM RunsInOrder == Spec => []RunOrder
  <1>1. IInv /\ Once /\ Ordered => RunOrder
    <2> SUFFICES ASSUME IInv, Once, Ordered, NEW i \in DOMAIN log,
                        log[i].kind \in {"OutputChanged", "RunExited"}
                 PROVE  /\ \E j \in 1..(i - 1) :
                             log[j] = Evt("RunStarted", log[i].of, log[i].n)
                        /\ \A j \in 1..(i - 1) :
                             log[j] # Evt("RunExited", log[i].of, log[i].n)
      BY DEF RunOrder
    <2>1. log \in Seq(Event) /\ DOMAIN log = 1..Len(log) /\ i \in 1..Len(log)
      BY DEF IInv, TypeOK
    <2>2. \E j \in 1..(i - 1) : log[j] = Evt("RunStarted", log[i].of, log[i].n)
      BY DEF Ordered, Preceded, OfRun
    <2>3. \A j \in 1..(i - 1) : j \in DOMAIN log /\ j < i
      BY <2>1
    <2>4. CASE log[i].kind = "OutputChanged"
      BY <2>2, <2>3, <2>4 DEF Ordered, Ends
    <2>5. CASE log[i].kind = "RunExited"
      <3>1. log[i] \in Event BY <2>1
      <3>2. log[i] = Evt("RunExited", log[i].of, log[i].n)
        BY <2>5, <3>1 DEF Event, Evt
      <3>3. IsDurable(log[i]) BY <2>5 DEF IsDurable, DurableKinds
      <3>4. \A j \in 1..(i - 1) : log[i] # log[j]
        BY <2>3, <3>3 DEF Once, Distinct
      <3> QED BY <2>2, <3>2, <3>4
    <2> QED BY <2>4, <2>5
  <1> QED BY <1>1, InitOrdered, OrderedStep, ReadingAnnounced, Announcing, Living,
             Knowing, Invariance, PTL DEF Spec

-----------------------------------------------------------------------------
(* The inductive invariant of PublishedCut.  What was announced, is queued *)
(* or is being written describes the registry in memory; without the write *)
(* under way it describes what a failure restores.                         *)

Kept == Range(log) \cup Range(pendingDurable)
Told == Kept \cup Range(io.batch)

\* Whether a client that read T after the snapshot b takes an entity for live.
ToldLive(b, T, e) ==
  /\ b[e].status = "live" \/ Evt("Created", e, 0) \in T
  /\ Evt("Closed", e, 0) \notin T /\ Evt("Closed", Workspace, 0) \notin T

\* The snapshot b and the events of T describe the registry m and the lifecycles f,
\* up to the exits of the runs in X.
Describes(b, T, m, f, X) ==
  /\ \A e \in Entities : m[e].status = "live" <=> ToldLive(b, T, e)
  /\ \A e \in Entities : m[e].rev = b[e].rev \/ Evt("Renamed", e, m[e].rev) \in T
  /\ \A s \in Shells : f[s] = "running" => m[s].status = "live"
  /\ \A s \in Shells : \A n \in Nat : Evt("RunStarted", s, n) \in T =>
       /\ m[s].status # "unborn"
       /\ m[s].status = "live" /\ Evt("RunExited", s, n) \notin T =>
            m[s].gen = n /\ (f[s] = "running" \/ s \in X)

\* What a failed write of an operation restores, and the runs it then announces to
\* have ended.
Restored == IF op.kind = "start" THEN Ended(mem, op.targets) ELSE op.undo
RestoredLife == IF op.kind \in {"start", "recover"} THEN SetAll(life, op.targets, "pending")
                ELSE op.undoLife
ThenEnded == IF op.kind \in Lifecycle THEN op.stopped ELSE {}

\* The registry of a daemon that shuts down is described until the shutdown commits.
Describable == \/ ~stopping
               \/ op.kind = "shutdown" /\ op.phase \notin {"checkpoint", "admit", "commit"}
CutMem == Describable => Describes(base, Told, mem, life, {})
CutUndo == op.phase = "commit" /\ op.kind # "exit" /\ (~stopping \/ op.kind = "shutdown") =>
             Describes(base, Kept, Restored, RestoredLife, ThenEnded)

\* Nothing is queued while a baseline is observed; what was admitted to be started
\* or removed is as it was; a shutdown past its admission is visible.
Observing == op.phase = "observe" => pendingDurable = <<>> /\ io.batch = <<>>
Starting ==
  op.kind = "start" /\ op.phase # "commit" =>
    \A s \in op.targets : s \in Shells /\ Live(s) /\ life[s] # "running"
Selecting ==
  /\ op.kind = "close" => \E s \in Shells : op.targets = {s}
  /\ op.kind = "closeWorkspace" /\ op.phase \in {"stop", "flush", "apply"} =>
       \A s \in Shells : Live(s) => s \in op.targets
ShutsDown == op.kind = "shutdown" /\ op.phase \notin {"checkpoint", "admit"} => stopping

Cut == CutMem /\ CutUndo /\ Observing /\ Starting /\ Selecting /\ ShutsDown

\* U goes on from T: the same durable events, but for further exits.
GoesOn(T, U) == \A x : /\ x.kind \notin {"OutputChanged", "RunExited"} => (x \in T <=> x \in U)
                       /\ x.kind = "RunExited" /\ x \in T => x \in U

-----------------------------------------------------------------------------
(* The events describe the registry when publication is not blocked.       *)

\* Runs end, and their exits are told or still to be compensated.
LEMMA DescribesOn ==
  ASSUME NEW b, NEW T, NEW U, NEW m, NEW n, NEW f, NEW g, NEW X, NEW Y,
         Describes(b, T, m, f, X), GoesOn(T, U),
         \A e \in Entities : n[e].status = m[e].status /\ n[e].rev = m[e].rev,
         \A s \in Shells : g[s] = "running" => f[s] = "running",
         \A s \in Shells : (f[s] = "running" \/ s \in X) =>
           /\ n[s].gen = m[s].gen
           /\ g[s] = "running" \/ s \in Y \/ Evt("RunExited", s, m[s].gen) \in U
  PROVE  Describes(b, U, n, g, Y)
  <1>1. \A k, e, i : Evt(k, e, i).kind = k BY DEF Evt
  <1>2. /\ \A e, i : Evt("Created", e, i) \in T <=> Evt("Created", e, i) \in U
        /\ \A e, i : Evt("Closed", e, i) \in T <=> Evt("Closed", e, i) \in U
        /\ \A e, i : Evt("Renamed", e, i) \in T <=> Evt("Renamed", e, i) \in U
        /\ \A e, i : Evt("RunStarted", e, i) \in T <=> Evt("RunStarted", e, i) \in U
        /\ \A e, i : Evt("RunExited", e, i) \in T => Evt("RunExited", e, i) \in U
    BY <1>1 DEF GoesOn
  <1>3. \A s \in Shells : s \in Entities BY DEF Entities
  <1>4. \A e \in Entities : n[e].status = "live" <=> ToldLive(b, U, e)
    BY <1>2 DEF Describes, ToldLive
  <1>5. \A e \in Entities : n[e].rev = b[e].rev \/ Evt("Renamed", e, n[e].rev) \in U
    BY <1>2 DEF Describes
  <1>6. \A s \in Shells : g[s] = "running" => n[s].status = "live"
    BY <1>3 DEF Describes
  <1>7. ASSUME NEW s \in Shells, NEW i \in Nat, Evt("RunStarted", s, i) \in U
        PROVE  /\ n[s].status # "unborn"
               /\ n[s].status = "live" /\ Evt("RunExited", s, i) \notin U =>
                    n[s].gen = i /\ (g[s] = "running" \/ s \in Y)
    BY <1>2, <1>3, <1>7 DEF Describes
  <1> QED BY <1>4, <1>5, <1>6, <1>7 DEF Describes

\* The same when only output was told.
LEMMA DescribesSame ==
  ASSUME NEW b, NEW T, NEW U, NEW m, NEW f, NEW X, Describes(b, T, m, f, X), GoesOn(T, U)
  PROVE  Describes(b, U, m, f, X)
  BY DescribesOn

\* Sets that are equal, or that only grow by output or exits.
LEMMA GoingOn ==
  /\ \A T : GoesOn(T, T)
  /\ \A T, U, V : T \subseteq U /\ U \subseteq T \cup V
                    /\ (\A x \in V : x.kind \in {"OutputChanged", "RunExited"}) => GoesOn(T, U)
  BY DEF GoesOn

\* What Settle publishes and queues, apart from output.
LEMMA SettleGoesOn ==
  ASSUME TypeOK, RuntimeOnly, NEW batch \in Seq(Event), NEW durable \in Seq(Event),
         NEW runtime \in {pendingRuntime, <<>>}, NEW held, NEW busy,
         Settle(batch, durable, runtime, held, busy), NEW R
  PROVE  GoesOn(Range(log) \cup Range(batch) \cup Range(durable) \cup R,
                Kept' \cup R)
  <1>0. log \in Seq(Event) /\ runtime \in Seq(Event)
    <2>1. <<>> \in Seq(Event) OBVIOUS
    <2> QED BY <2>1 DEF TypeOK
  <1>1. \A x \in Range(runtime) : x.kind = "OutputChanged"
    BY EmptyRange DEF RuntimeOnly
  <1>2. Range(log)' \subseteq Range(log) \cup Range(batch) \cup Range(runtime)
    BY <1>0, SettleRange
  <1>3. Range(log) \cup Range(batch) \subseteq Range(log)'
    BY <1>0, SettlePublishes
  <1>4. Range(pendingDurable)' = Range(durable) BY DEF Settle
  <1> QED BY <1>1, <1>2, <1>3, <1>4, GoingOn DEF Kept

\* An operation that ends.
LEMMA DoneCut ==
  ASSUME op' = NoOp, (~stopping') => Describes(base, Told, mem, life, {})'
  PROVE  Cut'
  <1>1. op'.kind = "none" /\ op'.phase = "admit" BY NoOpFields
  <1> QED BY <1>1 DEF Cut, CutMem, CutUndo, Describable, Observing, Starting, Selecting,
                     ShutsDown

\* A step that leaves the operation.
LEMMA SameCut ==
  ASSUME Cut, UNCHANGED <<mem, life, base, stopping, op>>, GoesOn(Told, Told'),
         op.phase = "commit" => GoesOn(Kept, Kept'),
         op.phase = "observe" => pendingDurable' = <<>> /\ io'.batch = <<>>
  PROVE  Cut'
  <1>1. CutMem'
    <2>1. Describable' => Describes(base, Told, mem, life, {})
      BY DEF Cut, CutMem, Describable
    <2>2. Describable' => Describes(base, Told', mem, life, {})
      BY <2>1, DescribesSame
    <2> QED BY <2>2 DEF CutMem
  <1>2. CutUndo'
    <2> SUFFICES ASSUME op.phase = "commit" /\ op.kind # "exit"
                          /\ (~stopping \/ op.kind = "shutdown")
                 PROVE  Describes(base, Kept', Restored, RestoredLife, ThenEnded)
      BY DEF CutUndo, Restored, RestoredLife, ThenEnded, Ended, SetAll
    <2>1. Describes(base, Kept, Restored, RestoredLife, ThenEnded)
      BY DEF Cut, CutUndo
    <2> QED BY <2>1, DescribesSame
  <1>3. Observing' BY DEF Observing
  <1>4. Starting' /\ Selecting' /\ ShutsDown'
    BY DEF Cut, Starting, Selecting, ShutsDown, Live
  <1> QED BY <1>1, <1>2, <1>3, <1>4 DEF Cut

\* A step outside a commit that moves the operation on.
LEMMA IdleCut ==
  ASSUME Cut, UNCHANGED <<mem, life, base, stopping>>, GoesOn(Told, Told'),
         op.phase # "commit", op'.phase # "commit",
         op'.kind = op.kind, op'.targets = op.targets,
         op'.phase = "observe" => pendingDurable' = <<>> /\ io'.batch = <<>>,
         op.kind \in Lifecycle =>
           (op'.phase \in {"checkpoint", "admit"} <=> op.phase \in {"checkpoint", "admit"}),
         op'.phase \in {"stop", "flush", "apply"} /\ op.kind \in Lifecycle =>
           op.phase \in {"stop", "flush", "apply"}
  PROVE  Cut'
  <1>1. CutMem'
    <2>1. Describable' => Describes(base, Told, mem, life, {})
      BY DEF Cut, CutMem, Describable, Lifecycle
    <2>2. Describable' => Describes(base, Told', mem, life, {})
      BY <2>1, DescribesSame
    <2> QED BY <2>2 DEF CutMem
  <1>2. CutUndo' BY DEF CutUndo
  <1>3. Observing' BY DEF Observing
  <1>4. Starting' /\ Selecting' /\ ShutsDown'
    BY DEF Cut, Starting, Selecting, ShutsDown, Live, Lifecycle
  <1> QED BY <1>1, <1>2, <1>3, <1>4 DEF Cut

\* A write moves its batch between the queue, the write and the log.
LEMMA WritesCut ==
  ASSUME Cut, KInv, IInv, Writes
  PROVE  Cut'
  <1>0. /\ TypeOK /\ op \in Op /\ io \in IO /\ io.batch \in Seq(Event) /\ RuntimeOnly
        /\ pendingDurable \in Seq(Event) /\ <<>> \in Seq(Event)
    BY DEF IInv, TypeOK, IO, KInv, Knowledge
  <1>e. Range(<<>>) = {} BY EmptyRange
  <1>g. \A T : GoesOn(T, T) BY GoingOn
  <1>1. CASE SaveSucceeds \/ SaveFails \/ FallbackResetFails \/ AppendSucceeds
               \/ AppendFails
    <2>1. UNCHANGED <<mem, life, log, base, pendingDurable, op, stopping>>
      BY <1>1 DEF SaveSucceeds, SaveFails, FallbackResetFails, AppendSucceeds,
           AppendFails, shells, stream
    <2>2. io'.batch = io.batch
      BY <1>0, <1>1 DEF SaveSucceeds, SaveFails, FallbackResetFails, AppendSucceeds,
           AppendFails, IO
    <2>3. Told' = Told /\ Kept' = Kept BY <2>1, <2>2 DEF Told, Kept
    <2> QED BY <1>g, <2>1, <2>2, <2>3, SameCut DEF Cut, Observing
  <1>2. CASE \E c \in BOOLEAN : BeginFlush(c)
    <2>1. /\ UNCHANGED <<mem, life, log, base, op, stopping>> /\ pendingDurable' = <<>>
          /\ io'.batch = pendingDurable /\ io.kind = "none"
      BY <1>2 DEF BeginFlush, BeginWrite, shells
    <2>2. io.batch = <<>> /\ op.phase # "commit" BY <2>1, CommitBusy DEF IInv
    <2>3. Told' = Told BY <1>e, <2>1, <2>2 DEF Told, Kept
    <2> QED BY <1>g, <2>1, <2>2, <2>3, SameCut DEF Cut, Observing
  <1>3. CASE WriteCheckpoint
    <2>1. /\ UNCHANGED <<mem, life, log, base, op, stopping, pendingDurable>>
          /\ io'.batch = <<>> /\ io.kind = "none" /\ op.phase = "checkpoint"
      BY <1>3 DEF WriteCheckpoint, BeginWrite, shells, stream
    <2>2. io.batch = <<>> BY <2>1, CommitBusy DEF IInv
    <2>3. Told' = Told BY <2>1, <2>2 DEF Told, Kept
    <2> QED BY <1>g, <2>1, <2>3, SameCut
  <1>4. CASE SkipCheckpoint \/ FinishCheckpoint \/ CheckpointFailed
    <2>1. /\ UNCHANGED <<mem, life, log, base, stopping, pendingDurable>>
          /\ op' = NoOp \/ op' = [op EXCEPT !.phase = "admit"]
          /\ io' = io \/ (io' = NoIO /\ io.kind = "checkpoint")
      BY <1>4 DEF SkipCheckpoint, FinishCheckpoint, CheckpointFailed, shells, stream
    <2>2. op.phase = "checkpoint"
      BY <1>4 DEF SkipCheckpoint, FinishCheckpoint, CheckpointFailed, IInv, WriteShape
    <2>3. io'.batch = io.batch BY <2>1, NoOpFields DEF IInv, WriteShape
    <2>4. Told' = Told BY <2>1, <2>3 DEF Told, Kept
    <2>5. CASE op' = NoOp
      BY <2>1, <2>4, <2>5, DoneCut DEF Cut, CutMem, Describable
    <2>6. CASE op' = [op EXCEPT !.phase = "admit"]
      <3>1. op'.kind = op.kind /\ op'.targets = op.targets /\ op'.phase = "admit"
        BY <1>0, <2>6 DEF Op
      <3> QED BY <1>g, <2>1, <2>2, <2>4, <3>1, IdleCut
    <2> QED BY <2>1, <2>5, <2>6
  <1>5. CASE OpFlush /\ ~(pendingDurable # <<>> \/ dirty)
    <2>1. /\ UNCHANGED <<mem, life, log, base, stopping, pendingDurable, io>>
          /\ op.phase = "flush" /\ op' = [op EXCEPT !.phase = AfterFlush]
          /\ pendingDurable = <<>> /\ io.kind = "none"
      BY <1>5 DEF OpFlush, shells, stream
    <2>2. /\ op'.kind = op.kind /\ op'.targets = op.targets
          /\ op'.phase = AfterFlush /\ op'.phase \in {"observe", "apply"}
      BY <1>0, <2>1 DEF Op, AfterFlush
    <2>3. Told' = Told /\ io.batch = <<>> BY <2>1, CommitBusy DEF Told, Kept
    <2> QED BY <1>g, <2>1, <2>2, <2>3, IdleCut
  <1>6. CASE FinishFlush
    <2>1. /\ UNCHANGED <<mem, life, base, stopping>> /\ io.kind = "flush"
          /\ Settle(io.batch, pendingDurable, pendingRuntime, reservation, FALSE)
          /\ op' = IF io.background THEN op ELSE [op EXCEPT !.phase = AfterFlush]
          /\ pendingDurable' = pendingDurable /\ io'.batch = <<>>
      BY <1>6, NoOpFields DEF FinishFlush, Settle, shells
    <2>2. GoesOn(Told, Told')
      <3>1. GoesOn(Range(log) \cup Range(io.batch) \cup Range(pendingDurable) \cup {},
                   Kept' \cup {})
        BY <1>0, <2>1, SettleGoesOn
      <3>2. Told' = Kept' \cup {} BY <1>e, <2>1 DEF Told
      <3>3. Told = Range(log) \cup Range(io.batch) \cup Range(pendingDurable) \cup {}
        BY DEF Told, Kept
      <3> QED BY <3>1, <3>2, <3>3
    <2>3. op.phase # "commit" BY <2>1, CommitBusy
    <2>4. CASE io.background
      BY <2>1, <2>2, <2>3, <2>4, SameCut DEF Cut, Observing
    <2>5. CASE ~io.background
      <3>1. op.phase = "flush" /\ pendingDurable = <<>>
        BY <2>1, <2>5 DEF IInv, WriteShape
      <3>2. /\ op'.kind = op.kind /\ op'.targets = op.targets
            /\ op'.phase \in {"observe", "apply"}
        BY <1>0, <2>1, <2>5 DEF Op, AfterFlush
      <3> QED BY <2>1, <2>2, <3>1, <3>2, IdleCut
    <2> QED BY <2>4, <2>5
  <1>7. CASE FlushFailed
    <2> DEFINE queue == io.batch \o pendingDurable
    <2>1. /\ UNCHANGED <<mem, life, base, stopping>> /\ io.kind = "flush"
          /\ Settle(<<>>, queue, pendingRuntime, reservation, FALSE)
          /\ \/ op' = op /\ io.background
             \/ op' = [op EXCEPT !.phase = "abort"] /\ ~io.background
             \/ op' = NoOp
          /\ pendingDurable' = queue /\ io'.batch = <<>>
      BY <1>7, NoOpFields DEF FlushFailed, Settle, shells
    <2>q. /\ queue \in Seq(Event)
          /\ Range(queue) = Range(io.batch) \cup Range(pendingDurable)
          /\ io.batch = <<>> /\ pendingDurable = <<>> => queue = <<>>
      BY <1>0, ConcatProperties, RangeConcatenation
    <2> HIDE DEF queue
    <2>2. GoesOn(Told, Told')
      <3>1. GoesOn(Range(log) \cup Range(<<>>) \cup Range(queue) \cup {}, Kept' \cup {})
        BY <1>0, <2>1, <2>q, SettleGoesOn
      <3>2. Told' = Kept' \cup {} BY <1>e, <2>1 DEF Told
      <3>3. Told = Range(log) \cup Range(<<>>) \cup Range(queue) \cup {}
        BY <1>e, <2>q DEF Told, Kept
      <3> QED BY <3>1, <3>2, <3>3
    <2>3. op.phase # "commit" BY <2>1, CommitBusy
    <2>4. CASE op' = op
      BY <2>1, <2>q, <2>2, <2>3, <2>4, SameCut DEF Cut, Observing
    <2>5. CASE op' = NoOp
      <3>1. ~stopping' => Describes(base, Told, mem, life, {})
        BY <2>1 DEF Cut, CutMem, Describable
      <3>2. ~stopping' => Describes(base, Told', mem, life, {})
        BY <2>2, <3>1, DescribesSame
      <3> QED BY <2>1, <2>5, <3>2, DoneCut
    <2>6. CASE op' = [op EXCEPT !.phase = "abort"] /\ ~io.background
      <3>1. op.phase = "flush" BY <2>1, <2>6 DEF IInv, WriteShape
      <3>2. op'.kind = op.kind /\ op'.targets = op.targets /\ op'.phase = "abort"
        BY <1>0, <2>6 DEF Op
      <3> QED BY <2>1, <2>2, <3>1, <3>2, IdleCut
    <2> QED BY <2>1, <2>4, <2>5, <2>6
  <1> QED BY <1>1, <1>2, <1>3, <1>4, <1>5, <1>6, <1>7
          DEF Writes, BackgroundFlush, OpFlush

\* Refusals, admissions and stops leave registry and stream; what is admitted to be
\* removed is there.
LEMMA PassingCut ==
  ASSUME Cut, KInv, IInv, Passing
  PROVE  Cut'
  <1>0. op \in Op BY DEF IInv, TypeOK
  <1>g. \A T : GoesOn(T, T) BY GoingOn
  <1>1. CASE SkipCheckpoint
    BY <1>1, WritesCut DEF Writes
  <1>2. ASSUME UNCHANGED <<mem, life, base, stopping, log, pendingDurable, io>>, op' = NoOp,
               op.phase # "commit"
        PROVE  Cut'
    BY <1>2, DoneCut DEF Cut, CutMem, Describable, Told, Kept
  <1>3. CASE ObserveBaseline \/ StartRefused
    BY <1>2, <1>3 DEF ObserveBaseline, StartRefused, Quiet, shells, stream
  <1>4. CASE AdmitMutation
    <2>1. /\ UNCHANGED <<mem, life, base, stopping, log, pendingDurable, io>>
          /\ op.kind \in {"mutate", "recover"} /\ op.phase = "admit"
          /\ op' = NoOp \/ op' = [op EXCEPT !.phase = "flush"]
      BY <1>4 DEF AdmitMutation, Quiet, shells, stream
    <2>2. CASE op' = NoOp BY <1>2, <2>1, <2>2
    <2>3. CASE op' = [op EXCEPT !.phase = "flush"]
      <3>1. op'.kind = op.kind /\ op'.targets = op.targets /\ op'.phase = "flush"
        BY <1>0, <2>3 DEF Op
      <3>2. Told' = Told BY <2>1 DEF Told, Kept
      <3> QED BY <1>g, <2>1, <3>1, <3>2, IdleCut DEF Lifecycle
    <2> QED BY <2>1, <2>2, <2>3
  <1>5. CASE AllStopped \/ \E s \in Shells : StopRuntime(s) \/ StopFails(s)
    <2>1. /\ UNCHANGED <<mem, life, base, stopping, log, pendingDurable, io>>
          /\ op.phase = "stop"
          /\ op'.kind = op.kind /\ op'.targets = op.targets
          /\ op'.phase \in {"stop", "flush", "abort"}
      BY <1>0, <1>5 DEF AllStopped, StopRuntime, StopFails, Quiet, shells, stream, Op
    <2>2. Told' = Told BY <2>1 DEF Told, Kept
    <2> QED BY <1>g, <2>1, <2>2, IdleCut
  <1>6. CASE AdmitLifecycle
    <2>1. /\ UNCHANGED <<mem, life, base, log, pendingDurable, io>> /\ op.kind \in Lifecycle
          /\ op.phase = "admit"
      BY <1>6 DEF AdmitLifecycle, shells
    <2>2. CASE op' = NoOp /\ UNCHANGED stopping BY <1>2, <2>1, <2>2
    <2>3. CASE /\ op' = [op EXCEPT !.phase = "stop", !.targets = Selected]
               /\ stopping' = (op.kind = "shutdown") /\ ~stopping
      <3>1. op'.kind = op.kind /\ op'.phase = "stop" /\ op'.targets = Selected
        BY <1>0, <2>3 DEF Op
      <3>2. Told' = Told BY <2>1 DEF Told, Kept
      <3>3. CutMem' BY <2>1, <2>3, <3>2 DEF Cut, CutMem, Describable
      <3>4. CutUndo' /\ Observing' /\ Starting'
        BY <2>1, <3>1 DEF CutUndo, Observing, Starting, Lifecycle
      <3>5. Selecting'
        <4>1. op.kind = "close" => \E s \in Shells : op'.targets = {s}
          BY <3>1 DEF Cut, Selecting, Selected
        <4>2. op.kind = "closeWorkspace" => \A s \in Shells : Live(s) => s \in op'.targets
          BY <3>1 DEF Selected
        <4> QED BY <2>1, <3>1, <4>1, <4>2 DEF Selecting, Live
      <3>6. ShutsDown' BY <2>3, <3>1 DEF ShutsDown
      <3> QED BY <3>3, <3>4, <3>5, <3>6 DEF Cut
    <2> QED BY <1>6, <2>2, <2>3 DEF AdmitLifecycle
  <1> QED BY <1>1, <1>3, <1>4, <1>5, <1>6 DEF Passing

\* What begins finds the Shell it starts or removes.
LEMMA RequestsCut ==
  ASSUME Cut, IInv, Requests
  PROVE  Cut'
  <1>0. op.phase # "commit" /\ op.kind = "none" /\ life \in [Shells -> Lifecycles]
    <2>1. op.kind = "none"
      BY DEF Requests, BeginMutation, BeginLocalCreate, BeginClose, BeginStart,
           RestartShell, BeginRecover, BeginCloseWorkspace, BeginShutdown,
           BeginBaseline, BeginCheckpoint, Begin
    <2> QED BY <2>1 DEF IInv, OpShape, TypeOK
  <1>g. \A T : GoesOn(T, T) BY GoingOn
  <1>1. ASSUME UNCHANGED <<mem, base, stopping, log, pendingDurable, io>>,
               \A s \in Shells : life'[s] = "running" <=> life[s] = "running",
               op'.kind = "shutdown" => op'.phase = "checkpoint"
        PROVE  CutMem'
    <2>1. Told' = Told BY <1>1 DEF Told, Kept
    <2>2. Describable' => Describes(base, Told, mem, life, {})
      BY <1>0, <1>1 DEF Cut, CutMem, Describable
    <2>3. Describable' => Describes(base, Told, mem, life', {})
      BY <1>1, <1>g, <2>2, DescribesOn
    <2> QED BY <1>1, <2>1, <2>3 DEF CutMem
  <1>2. ASSUME NEW kind, NEW phase, NEW targets, Begin(kind, phase, targets), Quiet,
               phase \in {"checkpoint", "flush"}, kind # "start",
               kind \in {"closeWorkspace", "shutdown"} => phase = "checkpoint",
               kind = "close" => \E s \in Shells : targets = {s}
        PROVE  Cut'
    <2>1. op'.kind = kind /\ op'.phase = phase /\ op'.targets = targets
      BY <1>2 DEF Begin, NoOp
    <2>2. UNCHANGED <<mem, life, base, stopping, log, pendingDurable, io>>
      BY <1>2 DEF Quiet, shells, stream
    <2>3. CutMem' BY <1>1, <1>2, <2>1, <2>2
    <2>4. CutUndo' /\ Observing' /\ Starting' /\ Selecting' /\ ShutsDown'
      BY <1>2, <2>1 DEF CutUndo, Observing, Starting, Selecting, ShutsDown
    <2> QED BY <2>3, <2>4 DEF Cut
  <1>3. ASSUME NEW s \in Shells, life[s] # "running", life' = [life EXCEPT ![s] = "pending"]
        PROVE  /\ \A t \in Shells : life'[t] = "running" <=> life[t] = "running"
               /\ life'[s] # "running"
    BY <1>0, <1>3
  <1>4. ASSUME NEW s \in Shells, BeginStart(s)
        PROVE  Cut'
    <2>1. /\ Begin("start", "flush", {s}) /\ life[s] # "running" /\ Live(s)
          /\ UNCHANGED <<mem, base, stopping, log, pendingDurable, io>>
          /\ life' = [life EXCEPT ![s] = "pending"]
      BY <1>4 DEF BeginStart, stream
    <2>2. op'.kind = "start" /\ op'.phase = "flush" /\ op'.targets = {s}
      BY <2>1 DEF Begin, NoOp
    <2>3. CutMem' BY <1>1, <1>3, <2>1, <2>2
    <2>4. Starting' BY <1>3, <2>1, <2>2 DEF Starting, Live
    <2>5. CutUndo' /\ Observing' /\ Selecting' /\ ShutsDown'
      BY <2>2 DEF CutUndo, Observing, Selecting, ShutsDown
    <2> QED BY <2>3, <2>4, <2>5 DEF Cut
  <1>5. ASSUME NEW s \in Shells, RestartShell(s)
        PROVE  Cut'
    <2>1. /\ life[s] # "running"
          /\ UNCHANGED <<mem, base, stopping, log, pendingDurable, io, op>>
          /\ life' = [life EXCEPT ![s] = "pending"]
      BY <1>5 DEF RestartShell, stream
    <2>2. CutMem' BY <1>0, <1>1, <1>3, <2>1
    <2>3. CutUndo' /\ Starting' /\ Selecting' /\ ShutsDown' /\ Observing'
      BY <1>0, <2>1 DEF Cut, CutUndo, Observing, Starting, Selecting, ShutsDown
    <2> QED BY <2>2, <2>3 DEF Cut
  <1>6. CASE \E e \in Entities : BeginMutation(e)
    BY <1>2, <1>6 DEF BeginMutation
  <1>7. CASE \E s \in Shells : BeginLocalCreate(s) \/ BeginClose(s)
    BY <1>2, <1>7 DEF BeginLocalCreate, BeginClose
  <1>8. CASE \E S \in SUBSET Shells : S # {} /\ BeginRecover(S)
    BY <1>2, <1>8 DEF BeginRecover
  <1>9. CASE BeginCloseWorkspace \/ BeginShutdown \/ BeginBaseline \/ BeginCheckpoint
    BY <1>2, <1>9 DEF BeginCloseWorkspace, BeginShutdown, BeginBaseline, BeginCheckpoint
  <1> QED BY <1>4, <1>5, <1>6, <1>7, <1>8, <1>9 DEF Requests

\* Readers tell output only.
LEMMA RunsCut ==
  ASSUME Cut, KInv, IInv, Runs
  PROVE  Cut'
  <1>0. io \in IO /\ log \in Seq(Event) /\ mem \in [Entities -> Record]
    BY DEF IInv, TypeOK
  <1>g. \A T : GoesOn(T, T) BY GoingOn
  <1>1. ASSUME NEW s \in Shells, PublishOutput(s)
        PROVE  Cut'
    <2> DEFINE e == Evt("OutputChanged", s, mem[s].gen)
    <2>1. UNCHANGED <<mem, life, base, stopping, op, io, pendingDurable>>
      BY <1>1 DEF PublishOutput, shells
    <2>2. e \in Event /\ e.kind = "OutputChanged"
      <3>1. mem[s].gen \in Nat /\ s \in Entities BY <1>0 DEF Record, Entities
      <3> QED BY <3>1 DEF Evt, Event
    <2>3. log' = log \/ log' = Append(log, e) BY <1>1 DEF PublishOutput
    <2> HIDE DEF e
    <2>4. Range(Append(log, e)) = Range(log) \cup {e} BY <1>0, <2>2, AppendRange
    <2>5. /\ Range(log) \subseteq Range(log)' /\ Range(log)' \subseteq Range(log) \cup {e}
      BY <2>3, <2>4
    <2>6. GoesOn(Told, Told') /\ GoesOn(Kept, Kept')
      BY <2>1, <2>2, <2>5 DEF GoesOn, Told, Kept
    <2> QED BY <2>1, <2>6, SameCut DEF Cut, Observing
  <1>2. ASSUME NEW s \in Shells, OutputRefused(s) \/ ProcessExits(s) \/ CheckpointHistory(s)
        PROVE  Cut'
    <2>1. /\ UNCHANGED <<mem, life, base, stopping, op, log, pendingDurable>>
          /\ io'.batch = io.batch
      BY <1>0, <1>2 DEF OutputRefused, ProcessExits, CheckpointHistory, Touched, IO,
           shells, stream
    <2>2. Told' = Told /\ Kept' = Kept BY <2>1 DEF Told, Kept
    <2> QED BY <1>g, <2>1, <2>2, SameCut DEF Cut, Observing
  <1>3. ASSUME NEW x \in exits, BeginExit(x[1], x[2])
        PROVE  Cut'
    <2>1. /\ UNCHANGED <<mem, life, base, stopping, log, pendingDurable, io>>
          /\ op.kind = "none"
      BY <1>3 DEF BeginExit, stream
    <2>2. op.phase = "admit" BY <2>1 DEF IInv, OpShape
    <2>3. Told' = Told BY <2>1 DEF Told, Kept
    <2>4. CASE op' = op
      BY <1>g, <2>1, <2>2, <2>3, <2>4, SameCut
    <2>5. CASE Begin("exit", "apply", {x[1]})
      <3>1. op'.kind = "exit" /\ op'.phase = "apply" BY <2>5 DEF Begin, NoOp
      <3>2. CutMem' BY <2>1, <2>3, <3>1 DEF Cut, CutMem, Describable
      <3>3. CutUndo' /\ Observing' /\ Starting' /\ Selecting' /\ ShutsDown'
        BY <3>1 DEF CutUndo, Observing, Starting, Selecting, ShutsDown
      <3> QED BY <3>2, <3>3 DEF Cut
    <2> QED BY <1>3, <2>4, <2>5 DEF BeginExit
  <1> QED BY <1>1, <1>2, <1>3 DEF Runs

\* An operation that is refused.
LEMMA RefusedCut ==
  ASSUME Cut, op.phase # "commit", op' = NoOp, io'.batch = io.batch,
         UNCHANGED <<mem, life, base, stopping, log, pendingDurable>>
  PROVE  Cut'
  BY DoneCut DEF Cut, CutMem, Describable, Told, Kept

\* A creation or rename is described with its event, and undone without it.
LEMMA ApplyMutationCut ==
  ASSUME Cut, KInv, IInv, NEW e \in Entities, ApplyMutation(e)
  PROVE  Cut'
  <1>0. /\ op \in Op /\ mem \in [Entities -> Record] /\ life \in [Shells -> Lifecycles]
        /\ \A f \in Entities : mem[f].rev \in Nat
    BY DEF IInv, TypeOK, Record
  <1>1. /\ op.kind \in {"mutate", "local"} /\ op.phase = "apply" /\ io.kind = "none"
        /\ UNCHANGED <<base, stopping, log, pendingDurable>>
    BY DEF ApplyMutation, stream
  <1>2. io.batch = <<>> /\ Range(io.batch) = {} BY <1>1, CommitBusy
  <1>3. CASE op' = NoOp /\ UNCHANGED <<mem, life, io>>
    BY <1>1, <1>3, RefusedCut
  <1>4. CASE /\ Creates(e) \/ Renames(e)
             /\ mem' = Mutated(e)
             /\ life' = (IF Creates(e) THEN [life EXCEPT ![e] = "pending"] ELSE life)
             /\ io'.batch = MutationEvents(e)
             /\ op' = [op EXCEPT !.phase = "commit", !.undo = mem, !.undoLife = life]
    <2>1. /\ op'.kind = op.kind /\ op'.phase = "commit" /\ op'.undo = mem
          /\ op'.undoLife = life
      BY <1>0, <1>4 DEF Op
    <2>2. Kept' = Kept /\ Told = Kept BY <1>1, <1>2 DEF Kept, Told
    <2>3. ~stopping => Describes(base, Told, mem, life, {})
      BY DEF Cut, CutMem, Describable
    <2>4. CutUndo'
      BY <1>1, <2>1, <2>2, <2>3
      DEF CutUndo, Restored, RestoredLife, ThenEnded, Lifecycle
    <2>5. \A x \in Told : Covers(mem, x)
      BY DEF KInv, Knowledge, MemKnows, Covered, Held, Told, Kept
    <2>6. \A k, f, n : /\ Evt(k, f, n).kind = k /\ Evt(k, f, n).of = f
                       /\ Evt(k, f, n).n = n
      BY DEF Evt
    <2>7. ASSUME ~stopping PROVE Describes(base, Told', mem', life', {})
      <3>0. Describes(base, Told, mem, life, {}) BY <2>3, <2>7
      <3>1. CASE Creates(e)
        <4>1. /\ mem' = [mem EXCEPT ![e].status = "live"]
              /\ life' = [life EXCEPT ![e] = "pending"] /\ e \in Shells
              /\ mem[e].status = "unborn" /\ mem[Workspace].status = "live"
          BY <1>4, <3>1 DEF Mutated, Creates, Live
        <4> DEFINE x == Evt("Created", e, 0)
        <4>2. Told' = Told \cup {x}
          <5>1. Range(io.batch)' = {x} BY <1>4, <3>1 DEF MutationEvents, Range
          <5> QED BY <2>2, <5>1 DEF Told
        <4>3. /\ Evt("Closed", e, 0) \notin Told /\ Evt("Closed", Workspace, 0) \notin Told
          BY <2>5, <2>6, <4>1 DEF Covers
        <4>4. /\ \A f \in Entities : mem'[f].rev = mem[f].rev /\ mem'[f].gen = mem[f].gen
              /\ \A f \in Entities : mem'[f].status = IF f = e THEN "live" ELSE mem[f].status
              /\ \A s \in Shells : life'[s] = IF s = e THEN "pending" ELSE life[s]
          BY <1>0, <4>1 DEF Record
        <4>5. \A k, f, n : Evt(k, f, n) = x <=> (k = "Created" /\ f = e /\ n = 0)
          BY <2>6
        <4> HIDE DEF x
        <4>6. \A f \in Entities : mem'[f].status = "live" <=> ToldLive(base, Told', f)
          <5>1. ToldLive(base, Told', e) BY <4>2, <4>3, <4>5 DEF ToldLive, x
          <5>2. \A f \in Entities : f # e => (ToldLive(base, Told', f) <=> ToldLive(base, Told, f))
            BY <4>2, <4>5 DEF ToldLive
          <5> QED BY <3>0, <4>4, <5>1, <5>2 DEF Describes
        <4>7. \A f \in Entities : \/ mem'[f].rev = base[f].rev
                                  \/ Evt("Renamed", f, mem'[f].rev) \in Told'
          BY <3>0, <4>2, <4>4 DEF Describes
        <4>8. \A s \in Shells : life'[s] = "running" => mem'[s].status = "live"
          BY <3>0, <4>4 DEF Describes, Entities
        <4>9. ASSUME NEW s \in Shells, NEW n \in Nat, Evt("RunStarted", s, n) \in Told'
              PROVE  /\ mem'[s].status # "unborn"
                     /\ mem'[s].status = "live" /\ Evt("RunExited", s, n) \notin Told' =>
                          mem'[s].gen = n /\ (life'[s] = "running" \/ s \in {})
          <5>1. Evt("RunStarted", s, n) \in Told BY <4>2, <4>5, <4>9
          <5>2. s # e BY <3>0, <4>1, <5>1 DEF Describes
          <5>3. s \in Entities BY DEF Entities
          <5>4. Evt("RunExited", s, n) \notin Told' => Evt("RunExited", s, n) \notin Told
            BY <4>2
          <5>5. mem'[s].status = mem[s].status /\ mem'[s].gen = mem[s].gen /\ life'[s] = life[s]
            BY <4>4, <5>2, <5>3
          <5> QED BY <3>0, <5>1, <5>4, <5>5 DEF Describes
        <4> QED BY <4>6, <4>7, <4>8, <4>9 DEF Describes
      <3>2. CASE ~Creates(e)
        <4>1. mem' = [mem EXCEPT ![e].rev = @ + 1] /\ life' = life
          BY <1>4, <3>2 DEF Mutated
        <4> DEFINE x == Evt("Renamed", e, mem[e].rev + 1)
        <4>2. Told' = Told \cup {x}
          <5>1. Range(io.batch)' = {x} BY <1>4, <3>2 DEF MutationEvents, Range
          <5> QED BY <2>2, <5>1 DEF Told
        <4>3. /\ \A f \in Entities : mem'[f].gen = mem[f].gen /\ mem'[f].status = mem[f].status
              /\ \A f \in Entities : mem'[f].rev = IF f = e THEN mem[e].rev + 1 ELSE mem[f].rev
          BY <1>0, <4>1 DEF Record
        <4>4. \A k, f, n : k # "Renamed" => Evt(k, f, n) # x BY <2>6
        <4>5. \A f \in Entities : \/ mem'[f].rev = base[f].rev
                                  \/ Evt("Renamed", f, mem'[f].rev) \in Told'
          <5>1. Evt("Renamed", e, mem'[e].rev) \in Told' BY <4>2, <4>3
          <5> QED BY <3>0, <4>2, <4>3, <5>1 DEF Describes
        <4> HIDE DEF x
        <4>6. /\ \A f \in Entities : ToldLive(base, Told', f) <=> ToldLive(base, Told, f)
              /\ \A s, n : Evt("RunStarted", s, n) \in Told' <=> Evt("RunStarted", s, n) \in Told
              /\ \A s, n : Evt("RunExited", s, n) \in Told' <=> Evt("RunExited", s, n) \in Told
          BY <4>2, <4>4 DEF ToldLive
        <4>7. \A s \in Shells : s \in Entities BY DEF Entities
        <4> QED BY <3>0, <4>1, <4>3, <4>5, <4>6, <4>7 DEF Describes
      <3> QED BY <3>1, <3>2
    <2>8. CutMem' BY <1>1, <2>1, <2>7 DEF CutMem, Describable
    <2>9. Observing' /\ Starting' /\ Selecting' /\ ShutsDown'
      BY <1>1, <2>1 DEF Observing, Starting, Selecting, ShutsDown
    <2> QED BY <2>4, <2>8, <2>9 DEF Cut
  <1> QED BY <1>3, <1>4 DEF ApplyMutation, BeginWrite

\* Starts are described with their events, and undone without them.
LEMMA StartsCut ==
  ASSUME Cut, KInv, IInv, NEW S \in SUBSET Shells,
         op.kind \in {"start", "recover"}, io.kind = "none",
         \A s \in S : Live(s) /\ life[s] # "running",
         mem' = Started(S), life' = SetAll(life, S, "running"),
         UNCHANGED <<base, stopping, log, pendingDurable>>,
         io'.batch = RunEvents("RunStarted", S, Started(S)),
         op'.kind = op.kind, op'.phase = "commit", op'.targets = S,
         op.kind = "recover" => op'.undo = mem
  PROVE  Cut'
  <1>0. /\ mem \in [Entities -> Record] /\ Started(S) \in [Entities -> Record]
        /\ \A s \in Shells : mem[s].gen \in Nat /\ s \in Entities
    BY StartedType DEF IInv, TypeOK, Record, Entities
  <1>1. Range(io.batch) = {} BY CommitBusy
  <1>2. Kept' = Kept /\ Told = Kept /\ Told' = Told \cup Range(io.batch)'
    BY <1>1 DEF Kept, Told
  <1>3. ~stopping => Describes(base, Told, mem, life, {})
    BY DEF Cut, CutMem, Describable
  <1>4. /\ \A e \in Entities : mem'[e].status = mem[e].status /\ mem'[e].rev = mem[e].rev
        /\ \A s \in Shells : mem'[s].gen = IF s \in S THEN mem[s].gen + 1 ELSE mem[s].gen
        /\ \A s \in Shells : life'[s] = IF s \in S THEN "running" ELSE life[s]
    <2>1. ASSUME NEW e \in Entities
          PROVE  mem'[e] = IF e \in S THEN [mem[e] EXCEPT !.gen = @ + 1, !.run = "active"]
                           ELSE mem[e]
      BY DEF Started
    <2>2. ASSUME NEW e \in Entities
          PROVE  /\ mem'[e].status = mem[e].status /\ mem'[e].rev = mem[e].rev
                 /\ mem'[e].gen = IF e \in S THEN mem[e].gen + 1 ELSE mem[e].gen
      <3>1. mem[e] \in Record BY <1>0
      <3> QED BY <2>1, <3>1 DEF Record
    <2>3. \A s \in Shells : life'[s] = IF s \in S THEN "running" ELSE life[s]
      BY DEF SetAll
    <2> QED BY <1>0, <2>2, <2>3
  <1>5. \A x \in Range(io.batch)' : \E s \in S : x = Evt("RunStarted", s, mem'[s].gen)
    BY <1>0, RunEventsRange DEF DurableKinds
  <1>6. \A k, f, n : /\ Evt(k, f, n).kind = k /\ Evt(k, f, n).of = f /\ Evt(k, f, n).n = n
    BY DEF Evt
  <1>7. \A k, f, n : k # "RunStarted" => (Evt(k, f, n) \in Told' <=> Evt(k, f, n) \in Told)
    BY <1>2, <1>5, <1>6
  <1>8. ASSUME ~stopping PROVE Describes(base, Told', mem', life', {})
    <2>0. Describes(base, Told, mem, life, {}) BY <1>3, <1>8
    <2>1. \A f \in Entities : ToldLive(base, Told', f) <=> ToldLive(base, Told, f)
      BY <1>7 DEF ToldLive
    <2>2. \A f \in Entities : \/ mem'[f].rev = base[f].rev
                              \/ Evt("Renamed", f, mem'[f].rev) \in Told'
      BY <1>4, <1>7, <2>0 DEF Describes
    <2>3. \A s \in Shells : life'[s] = "running" => mem'[s].status = "live"
      BY <1>0, <1>4, <2>0 DEF Describes, Live
    <2>4. ASSUME NEW s \in Shells, NEW n \in Nat, Evt("RunStarted", s, n) \in Told'
          PROVE  /\ mem'[s].status # "unborn"
                 /\ mem'[s].status = "live" /\ Evt("RunExited", s, n) \notin Told' =>
                      mem'[s].gen = n /\ (life'[s] = "running" \/ s \in {})
      <3>1. CASE Evt("RunStarted", s, n) \in Told
        <4>1. /\ mem[s].status # "unborn"
              /\ mem[s].status = "live" /\ Evt("RunExited", s, n) \notin Told =>
                   mem[s].gen = n /\ life[s] = "running"
          BY <2>0, <3>1 DEF Describes
        <4> QED BY <1>0, <1>4, <1>7, <4>1
      <3>2. CASE Evt("RunStarted", s, n) \notin Told
        <4>1. PICK t \in S : Evt("RunStarted", s, n) = Evt("RunStarted", t, mem'[t].gen)
          BY <1>2, <1>5, <2>4, <3>2
        <4>2. s \in S /\ n = mem'[s].gen BY <1>6, <4>1
        <4> QED BY <1>0, <1>4, <4>2 DEF Live
      <3> QED BY <3>1, <3>2
    <2> QED BY <1>4, <2>0, <2>1, <2>2, <2>3, <2>4 DEF Describes
  <1>9. CutMem' BY <1>8 DEF CutMem, Describable
  <1>10. CutUndo'
    <2> DEFINE m == IF op.kind = "start" THEN Ended(Started(S), S) ELSE mem
               f == SetAll(SetAll(life, S, "running"), S, "pending")
    <2>1. \A e \in Entities : m[e].status = mem[e].status /\ m[e].rev = mem[e].rev
      <3> SUFFICES ASSUME NEW e \in Entities
                   PROVE  m[e].status = mem[e].status /\ m[e].rev = mem[e].rev
        OBVIOUS
      <3>1. Started(S)[e] \in Record BY <1>0
      <3>2. Ended(Started(S), S)[e] = IF e \in S THEN [Started(S)[e] EXCEPT !.run = "ended"]
                                      ELSE Started(S)[e]
        BY DEF Ended
      <3>3. /\ Ended(Started(S), S)[e].status = Started(S)[e].status
            /\ Ended(Started(S), S)[e].rev = Started(S)[e].rev
        BY <3>1, <3>2 DEF Record
      <3>4. /\ Started(S)[e].status = mem[e].status /\ Started(S)[e].rev = mem[e].rev
        BY <1>4
      <3> QED BY <3>3, <3>4
    <2>2. \A s \in Shells : s \notin S => m[s] = mem[s] /\ f[s] = life[s]
      BY <1>0 DEF Ended, Started, SetAll
    <2>3. \A s \in Shells : f[s] = "running" => life[s] = "running"
      BY DEF SetAll
    <2> HIDE DEF m, f
    <2>4. ASSUME ~stopping PROVE Describes(base, Told, m, f, {})
      <3>1. Describes(base, Told, mem, life, {}) BY <1>3, <2>4
      <3>2. GoesOn(Told, Told) BY GoingOn
      <3>3. \A s \in Shells : life[s] = "running" \/ s \in {} =>
              m[s].gen = mem[s].gen /\ f[s] = "running"
        BY <2>2
      <3> QED BY <2>1, <2>3, <3>1, <3>2, <3>3, DescribesOn
    <2>5. Restored' = m /\ RestoredLife' = f /\ ThenEnded' = {}
      BY DEF Restored, RestoredLife, ThenEnded, Ended, SetAll, Lifecycle, m, f
    <2> QED BY <1>2, <2>4, <2>5 DEF CutUndo
  <1>11. Observing' /\ Starting' /\ Selecting' /\ ShutsDown'
    BY DEF Observing, Starting, Selecting, ShutsDown
  <1> QED BY <1>9, <1>10, <1>11 DEF Cut

\* The starts of handle_attach and of recover_shells.
LEMMA ApplyStartsCut ==
  ASSUME Cut, Going, KInv, IInv,
         \/ \E s \in Shells : ApplyStart(s)
         \/ \E S \in SUBSET Shells : ApplyRecover(S)
  PROVE  Cut'
  <1>0. /\ op \in Op /\ life \in [Shells -> Lifecycles]
    BY DEF IInv, TypeOK
  <1>1. ASSUME NEW s \in Shells, ApplyStart(s)
        PROVE  Cut'
    <2>1. /\ op.kind = "start" /\ op.phase = "apply" /\ s \in op.targets
          /\ io.kind = "none" /\ mem' = Started({s})
          /\ life' = [life EXCEPT ![s] = "running"]
          /\ op' = [op EXCEPT !.phase = "commit"]
          /\ UNCHANGED <<base, stopping, log, pendingDurable>>
      BY <1>1 DEF ApplyStart, stream
    <2>2. io'.batch = RunEvents("RunStarted", {s}, Started({s}))
      BY <1>1 DEF ApplyStart, BeginWrite
    <2>3. op.targets = {s} BY <2>1 DEF Going, RunsBorn
    <2>4. op'.kind = "start" /\ op'.phase = "commit" /\ op'.targets = {s}
      BY <1>0, <2>1, <2>3 DEF Op
    <2>5. life' = SetAll(life, {s}, "running") BY <1>0, <2>1 DEF SetAll
    <2>6. {s} \in SUBSET Shells /\ \A t \in {s} : Live(t) /\ life[t] # "running"
      BY <2>1 DEF Cut, Starting
    <2> QED BY <2>1, <2>2, <2>4, <2>5, <2>6, StartsCut
  <1>2. ASSUME NEW S \in SUBSET Shells, ApplyRecover(S)
        PROVE  Cut'
    <2>1. /\ op.kind = "recover" /\ op.phase = "apply" /\ io.kind = "none"
          /\ UNCHANGED <<base, stopping, log, pendingDurable>>
          /\ \A s \in S : Recoverable(s)
      BY <1>2 DEF ApplyRecover, stream
    <2>2. CASE ~(S # {} /\ ReserveWithPending(Cardinality(op.targets)))
      <3>1. op' = NoOp /\ UNCHANGED <<mem, life, io>> BY <1>2, <2>2 DEF ApplyRecover
      <3> QED BY <2>1, <3>1, RefusedCut
    <2>3. CASE S # {} /\ ReserveWithPending(Cardinality(op.targets))
      <3>0. /\ mem' = Started(S) /\ life' = SetAll(life, S, "running")
            /\ op' = [op EXCEPT !.phase = "commit", !.targets = S, !.undo = mem]
            /\ BeginWrite("commit", Started(S), RunEvents("RunStarted", S, Started(S)),
                          Cardinality(S), FALSE)
        BY <1>2, <2>3 DEF ApplyRecover
      <3>1. io'.batch = RunEvents("RunStarted", S, Started(S)) BY <3>0 DEF BeginWrite
      <3>2. /\ op'.kind = op.kind /\ op'.phase = "commit" /\ op'.targets = S
            /\ op'.undo = mem
        BY <1>0, <3>0 DEF Op
      <3>3. \A s \in S : Live(s) /\ life[s] # "running" BY <2>1 DEF Recoverable
      <3> QED BY <2>1, <3>0, <3>1, <3>2, <3>3, StartsCut
    <2> QED BY <2>2, <2>3
  <1> QED BY <1>1, <1>2

\* A recorded exit is described with its event.
LEMMA ApplyExitCut ==
  ASSUME Cut, KInv, IInv, NEW s \in Shells, ApplyExit(s)
  PROVE  Cut'
  <1>0. /\ op \in Op /\ mem \in [Entities -> Record] /\ life \in [Shells -> Lifecycles]
        /\ RuntimeOnly /\ pendingRuntime \in Seq(Event)
        /\ s \in Entities /\ mem[s].gen \in Nat
    BY DEF IInv, TypeOK, KInv, Knowledge, Record, Entities
  <1>1. /\ op.kind = "exit" /\ op.phase = "apply" /\ io.kind = "none"
        /\ UNCHANGED <<base, stopping, log, pendingDurable>>
    BY DEF ApplyExit
  <1>2. Range(io.batch) = {} BY <1>1, CommitBusy
  <1>3. CASE ~ReserveWithPending(1)
    <2>1. op' = NoOp /\ UNCHANGED <<mem, life, io>> BY <1>3 DEF ApplyExit
    <2> QED BY <1>1, <2>1, RefusedCut
  <1>4. CASE ReserveWithPending(1)
    <2> DEFINE exit == Evt("RunExited", s, mem[s].gen)
    <2>1. /\ mem' = Ended(mem, {s}) /\ life' = [life EXCEPT ![s] = "exited"]
          /\ op' = [op EXCEPT !.phase = "commit"]
          /\ io'.batch = pendingRuntime \o <<exit>>
      BY <1>4 DEF ApplyExit, BeginWrite
    <2>2. op'.kind = "exit" /\ op'.phase = "commit" BY <1>0, <1>1, <2>1 DEF Op
    <2>3. exit \in Event /\ exit.kind = "RunExited"
      BY <1>0 DEF Evt, Event, DurableKinds
    <2>4. Range(io.batch)' = Range(pendingRuntime) \cup {exit}
      BY <1>0, <2>1, <2>3, RangeAppended
    <2>5. Told \subseteq Told' /\ Told' = Told \cup (Range(pendingRuntime) \cup {exit})
      BY <1>1, <1>2, <2>4 DEF Told, Kept
    <2>6. GoesOn(Told, Told') BY <1>0, <2>3, <2>5 DEF GoesOn, RuntimeOnly
    <2>7. \A e \in Entities : /\ mem'[e].status = mem[e].status /\ mem'[e].rev = mem[e].rev
                              /\ mem'[e].gen = mem[e].gen
      BY <1>0, <2>1 DEF Ended, Record
    <2>8. /\ \A t \in Shells : life'[t] = "running" => life[t] = "running"
          /\ \A t \in Shells : life[t] = "running" \/ t \in {} =>
               /\ mem'[t].gen = mem[t].gen
               /\ \/ life'[t] = "running" \/ t \in {}
                  \/ Evt("RunExited", t, mem[t].gen) \in Told'
      BY <1>0, <2>1, <2>5, <2>7 DEF Entities
    <2>9. CutMem'
      <3>1. Describable' => Describes(base, Told, mem, life, {})
        BY <1>1, <2>2 DEF Cut, CutMem, Describable
      <3> HIDE DEF exit
      <3>2. Describable' => Describes(base, Told', mem', life', {})
        BY <2>6, <2>7, <2>8, <3>1, DescribesOn
      <3> QED BY <1>1, <3>2 DEF CutMem
    <2>10. CutUndo' /\ Observing' /\ Starting' /\ Selecting' /\ ShutsDown'
      BY <2>2 DEF CutUndo, Observing, Starting, Selecting, ShutsDown
    <2> QED BY <2>9, <2>10 DEF Cut
  <1> QED BY <1>3, <1>4

\* A removal is described with its event; without it, what was killed is still to be
\* told.
LEMMA ApplyLifecycleCut ==
  ASSUME Cut, KInv, IInv, ApplyLifecycle
  PROVE  Cut'
  <1> DEFINE killed == {s \in op.targets : life[s] = "running"}
             ended == Ended(mem, killed)
             last == SetAll(life, killed, "pending")
  <1>0. /\ op \in Op /\ mem \in [Entities -> Record] /\ life \in [Shells -> Lifecycles]
        /\ \A s \in Shells : s \in Entities
    BY DEF IInv, TypeOK, Entities
  <1>1. /\ op.kind \in Lifecycle /\ op.phase = "apply" /\ io.kind = "none"
        /\ mem' = Removed(ended) /\ life' = SetAll(life, op.targets, "closed")
        /\ op' = [op EXCEPT !.phase = "commit", !.stopped = killed, !.undo = ended,
                            !.undoLife = last]
        /\ UNCHANGED <<base, stopping, log, pendingDurable>>
    BY DEF ApplyLifecycle
  <1>2. io'.batch = CommittedEvents BY DEF ApplyLifecycle, BeginWrite
  <1>3. /\ op'.kind = op.kind /\ op'.phase = "commit" /\ op'.stopped = killed
        /\ op'.undo = ended /\ op'.undoLife = last /\ op'.targets = op.targets
    BY <1>0, <1>1 DEF Op
  <1>4. Range(io.batch) = {} BY <1>1, CommitBusy
  <1>5. Kept' = Kept /\ Told = Kept /\ Told' = Told \cup Range(CommittedEvents)
    BY <1>1, <1>2, <1>4 DEF Kept, Told
  <1>6. killed \subseteq op.targets /\ op.targets \subseteq Shells
    BY <1>1 DEF IInv, OpShape
  <1>7. \A e \in Entities : /\ ended[e].status = mem[e].status /\ ended[e].rev = mem[e].rev
                            /\ ended[e].gen = mem[e].gen /\ ended[e] \in Record
    BY <1>0 DEF Ended, Record
  <1>8. \A s \in Shells : last[s] = IF s \in killed THEN "pending" ELSE life[s]
    BY DEF SetAll
  <1> HIDE DEF killed, ended, last
  <1>9. CutUndo'
    <2>1. ASSUME ~stopping \/ op.kind = "shutdown"
          PROVE  Describes(base, Told, ended, last, killed)
      <3>1. Describes(base, Told, mem, life, {})
        BY <1>1, <2>1 DEF Cut, CutMem, Describable
      <3>2. GoesOn(Told, Told) BY GoingOn
      <3>3. /\ \A s \in Shells : last[s] = "running" => life[s] = "running"
            /\ \A s \in Shells : life[s] = "running" \/ s \in {} =>
                 ended[s].gen = mem[s].gen /\ (last[s] = "running" \/ s \in killed)
        BY <1>0, <1>7, <1>8
      <3> QED BY <1>7, <3>1, <3>2, <3>3, DescribesOn
    <2>2. Restored' = ended /\ RestoredLife' = last /\ ThenEnded' = killed
      BY <1>1, <1>3 DEF Restored, RestoredLife, ThenEnded, Lifecycle
    <2> QED BY <1>1, <1>3, <1>5, <2>1, <2>2 DEF CutUndo
  <1>10. CutMem'
    <2> SUFFICES ASSUME ~stopping, op.kind \in {"close", "closeWorkspace"}
                 PROVE  Describes(base, Told', mem', life', {})
      BY <1>1, <1>3 DEF Cut, ShutsDown, CutMem, Describable, Lifecycle
    <2> DEFINE R == IF op.kind = "close" THEN op.targets ELSE op.targets \cup {Workspace}
    <2>0. Describes(base, Told, mem, life, {}) BY DEF Cut, CutMem, Describable
    <2>1. \A e \in Entities : /\ mem'[e].status = IF e \in R THEN "gone" ELSE mem[e].status
                              /\ mem'[e].rev = mem[e].rev /\ mem'[e].gen = mem[e].gen
      <3> SUFFICES ASSUME NEW e \in Entities
                   PROVE  /\ mem'[e].status = IF e \in R THEN "gone" ELSE mem[e].status
                          /\ mem'[e].rev = mem[e].rev /\ mem'[e].gen = mem[e].gen
        OBVIOUS
      <3>1. mem'[e] = IF e \in R THEN [ended[e] EXCEPT !.status = "gone"] ELSE ended[e]
        BY <1>1 DEF Removed
      <3>2. ended[e] \in Record BY <1>7
      <3>3. /\ mem'[e].status = IF e \in R THEN "gone" ELSE ended[e].status
            /\ mem'[e].rev = ended[e].rev /\ mem'[e].gen = ended[e].gen
        BY <3>1, <3>2 DEF Record
      <3> QED BY <1>7, <3>3
    <2>2. \A k, f, n : /\ Evt(k, f, n).kind = k /\ Evt(k, f, n).of = f /\ Evt(k, f, n).n = n
      BY DEF Evt
    <2>3. PICK c \in Entities : /\ Told' = Told \cup {Evt("Closed", c, 0)}
                                /\ c = Workspace \/ R = {c}
                                /\ c = Workspace <=> op.kind = "closeWorkspace"
      <3>1. CASE op.kind = "close"
        <4>1. PICK t \in Shells : op.targets = {t} BY <3>1 DEF Cut, Selecting
        <4>2. CommittedEvents = <<Evt("Closed", t, 0)>> BY <3>1, <4>1 DEF CommittedEvents
        <4>3. Range(CommittedEvents) = {Evt("Closed", t, 0)} BY <4>2 DEF Range
        <4>4. t # Workspace /\ t \in Entities BY ConstantsAssumption DEF Entities
        <4> QED BY <1>5, <3>1, <4>1, <4>3, <4>4
      <3>2. CASE op.kind = "closeWorkspace"
        <4>1. CommittedEvents = <<Evt("Closed", Workspace, 0)>> BY <3>2 DEF CommittedEvents
        <4>2. Range(CommittedEvents) = {Evt("Closed", Workspace, 0)} BY <4>1 DEF Range
        <4>3. Workspace \in Entities BY DEF Entities
        <4> QED BY <1>5, <3>2, <4>2, <4>3
      <3> QED BY <3>1, <3>2
    <2>4. op.targets \subseteq R OBVIOUS
    <2>5. op.kind = "closeWorkspace" => \A e \in Entities : Live(e) => e \in R
      BY <1>1 DEF Cut, Selecting, Entities
    <2> HIDE DEF R
    <2>6. \A k, f, n : k # "Closed" => (Evt(k, f, n) \in Told' <=> Evt(k, f, n) \in Told)
      BY <2>2, <2>3
    <2>7. \A e \in Entities : ToldLive(base, Told', e) <=> ToldLive(base, Told, e) /\ e \notin R
      <3>1. CASE c = Workspace
        <4>1. \A e \in Entities : ~ToldLive(base, Told', e)
          BY <2>3, <3>1 DEF ToldLive
        <4>2. \A e \in Entities : ToldLive(base, Told, e) => e \in R
          BY <2>0, <2>3, <2>5, <3>1 DEF Describes, Live
        <4> QED BY <4>1, <4>2
      <3>2. CASE c # Workspace
        <4>1. \A e : Evt("Closed", e, 0) \in Told' <=> Evt("Closed", e, 0) \in Told \/ e = c
          BY <2>2, <2>3
        <4> QED BY <2>3, <2>6, <3>2, <4>1 DEF ToldLive
      <3> QED BY <3>1, <3>2
    <2>8. \A s \in Shells : life'[s] = "running" => life[s] = "running" /\ s \notin op.targets
      BY <1>1 DEF SetAll
    <2>9. \A s \in Shells : life'[s] = "running" => mem'[s].status = "live"
      <3> SUFFICES ASSUME NEW s \in Shells, life'[s] = "running"
                   PROVE  s \notin R /\ mem[s].status = "live"
        BY <1>0, <2>1
      <3>1. mem[s].status = "live" /\ s \notin op.targets BY <2>0, <2>8 DEF Describes
      <3>2. s # Workspace BY ConstantsAssumption
      <3> QED BY <3>1, <3>2 DEF R
    <2>10. ASSUME NEW s \in Shells, NEW n \in Nat, Evt("RunStarted", s, n) \in Told'
           PROVE  /\ mem'[s].status # "unborn"
                  /\ mem'[s].status = "live" /\ Evt("RunExited", s, n) \notin Told' =>
                       mem'[s].gen = n /\ (life'[s] = "running" \/ s \in {})
      <3>1. /\ mem[s].status # "unborn"
            /\ mem[s].status = "live" /\ Evt("RunExited", s, n) \notin Told' =>
                 mem[s].gen = n /\ life[s] = "running"
        BY <2>0, <2>6, <2>10 DEF Describes
      <3>2. s \in Entities /\ (s \notin R => s \notin op.targets) BY <1>0, <2>4
      <3>3. s \notin R /\ life[s] = "running" => life'[s] = "running"
        BY <1>1, <3>2 DEF SetAll
      <3> QED BY <2>1, <3>1, <3>2, <3>3
    <2>11. \A e \in Entities : /\ mem'[e].status = "live" <=> ToldLive(base, Told', e)
                               /\ \/ mem'[e].rev = base[e].rev
                                  \/ Evt("Renamed", e, mem'[e].rev) \in Told'
      BY <2>0, <2>1, <2>6, <2>7 DEF Describes
    <2> QED BY <1>1, <2>9, <2>10, <2>11 DEF Describes
  <1>11. Observing' /\ Starting' /\ Selecting' /\ ShutsDown'
    BY <1>1, <1>3 DEF Cut, Observing, Starting, Selecting, ShutsDown, Lifecycle
  <1> QED BY <1>9, <1>10, <1>11 DEF Cut

\* What is gone on from what went on.
LEMMA GoesFurther ==
  ASSUME NEW T, NEW U, NEW V, GoesOn(T, U), GoesOn(U, V)
  PROVE  GoesOn(T, V)
  BY DEF GoesOn

\* An operation that ended well, or an exit that is queued, leaves what was described.
LEMMA FinishCut ==
  ASSUME Cut, KInv, IInv,
         FinishMutation \/ FinishStart \/ FinishExit \/ ExitFailed \/ FinishLifecycle
  PROVE  Cut'
  <1>0. /\ TypeOK /\ io.batch \in Seq(Event) /\ RuntimeOnly
        /\ pendingDurable \in Seq(Event) /\ <<>> \in Seq(Event)
    BY DEF IInv, TypeOK, IO, KInv, Knowledge
  <1>e. Range(<<>>) = {} BY EmptyRange
  <1> DEFINE queue == pendingDurable \o io.batch
  <1>1. UNCHANGED <<mem, life, base, stopping>> /\ op' = NoOp /\ io'.batch = <<>>
    BY NoOpFields DEF FinishMutation, FinishStart, FinishExit, ExitFailed, FinishLifecycle,
         Settle, shells
  <1>2. /\ queue \in Seq(Event)
        /\ Range(queue) = Range(pendingDurable) \cup Range(io.batch)
    BY <1>0, ConcatProperties, RangeConcatenation
  <1>3. \/ \E held : Settle(io.batch, pendingDurable, pendingRuntime, held, FALSE)
        \/ Settle(queue, <<>>, pendingRuntime, reservation, FALSE)
        \/ Settle(<<>>, queue, pendingRuntime, reservation, FALSE)
    BY DEF FinishMutation, FinishStart, FinishExit, ExitFailed, FinishLifecycle
  <1> HIDE DEF queue
  <1>4. Told' = Kept' \cup {} BY <1>1, <1>e DEF Told
  <1>5. /\ Told = Range(log) \cup Range(io.batch) \cup Range(pendingDurable) \cup {}
        /\ Told = Range(log) \cup Range(queue) \cup Range(<<>>) \cup {}
        /\ Told = Range(log) \cup Range(<<>>) \cup Range(queue) \cup {}
    BY <1>2, <1>e DEF Told, Kept
  <1>6. GoesOn(Told, Told')
    <2>1. CASE \E held : Settle(io.batch, pendingDurable, pendingRuntime, held, FALSE)
      <3>1. GoesOn(Range(log) \cup Range(io.batch) \cup Range(pendingDurable) \cup {},
                   Kept' \cup {})
        BY <1>0, <2>1, SettleGoesOn
      <3> QED BY <1>4, <1>5, <3>1
    <2>2. CASE Settle(queue, <<>>, pendingRuntime, reservation, FALSE)
      <3>1. GoesOn(Range(log) \cup Range(queue) \cup Range(<<>>) \cup {}, Kept' \cup {})
        BY <1>0, <1>2, <2>2, SettleGoesOn
      <3> QED BY <1>4, <1>5, <3>1
    <2>3. CASE Settle(<<>>, queue, pendingRuntime, reservation, FALSE)
      <3>1. GoesOn(Range(log) \cup Range(<<>>) \cup Range(queue) \cup {}, Kept' \cup {})
        BY <1>0, <1>2, <2>3, SettleGoesOn
      <3> QED BY <1>4, <1>5, <3>1
    <2> QED BY <1>3, <2>1, <2>2, <2>3
  <1>7. ~stopping => Describes(base, Told, mem, life, {}) BY DEF Cut, CutMem, Describable
  <1>8. ~stopping => Describes(base, Told', mem, life, {}) BY <1>6, <1>7, DescribesSame
  <1> QED BY <1>1, <1>8, DoneCut

\* A rollback restores what the events described without those of its own write.
LEMMA RolledBackCut ==
  ASSUME Cut, KInv, IInv, MutationFailed \/ StartFailed
  PROVE  Cut'
  <1>0. /\ TypeOK /\ RuntimeOnly /\ pendingDurable \in Seq(Event) /\ <<>> \in Seq(Event)
    BY DEF IInv, TypeOK, KInv, Knowledge
  <1>e. Range(<<>>) = {} BY EmptyRange
  <1>1. /\ UNCHANGED <<base, stopping>> /\ op' = NoOp /\ io'.batch = <<>>
        /\ op.phase = "commit" /\ op.kind \in {"mutate", "local", "start", "recover"}
        /\ Settle(<<>>, pendingDurable, pendingRuntime, reservation, FALSE)
    BY NoOpFields DEF MutationFailed, StartFailed, Settle
  <1>2. mem' = Restored /\ life' = RestoredLife
    BY DEF MutationFailed, StartFailed, Restored, RestoredLife
  <1>3. ThenEnded = {} BY <1>1 DEF ThenEnded, Lifecycle
  <1>4. ~stopping => Describes(base, Kept, mem', life', {})
    BY <1>1, <1>2, <1>3 DEF Cut, CutUndo
  <1>5. GoesOn(Kept, Told')
    <2>1. GoesOn(Range(log) \cup Range(<<>>) \cup Range(pendingDurable) \cup {},
                 Kept' \cup {})
      BY <1>0, <1>1, SettleGoesOn
    <2>2. Told' = Kept' \cup {} BY <1>1, <1>e DEF Told
    <2>3. Kept = Range(log) \cup Range(<<>>) \cup Range(pendingDurable) \cup {}
      BY <1>e DEF Kept
    <2> QED BY <2>1, <2>2, <2>3
  <1>6. ~stopping => Describes(base, Told', mem', life', {})
    BY <1>4, <1>5, DescribesSame
  <1> QED BY <1>1, <1>6, DoneCut

\* A compensation tells the exits of the runs it ends.
LEMMA Compensates ==
  ASSUME TypeOK, RuntimeOnly, NEW S \in SUBSET Shells, NEW m \in [Entities -> Record],
         NEW busy, Settle(<<>>, pendingDurable \o Compensation(S, m), <<>>, 0, busy),
         NEW R
  PROVE  /\ GoesOn(Kept \cup R, Kept' \cup R)
         /\ \A s \in S : Evt("RunExited", s, m[s].gen) \in Kept'
  <1> DEFINE queue == pendingDurable \o Compensation(S, m)
             exited == Range(RunEvents("RunExited", S, m))
  <1>0. <<>> \in Seq(Event) /\ Range(<<>>) = {} BY EmptyRange
  <1>1. /\ queue \in Seq(Event)
        /\ Range(queue) = Range(pendingDurable) \cup Range(pendingRuntime) \cup exited
    BY CompensationRange
  <1>2. \A x \in exited : x.kind = "RunExited"
    BY RunEventsRange DEF DurableKinds, Evt
  <1>3. \A s \in S : Evt("RunExited", s, m[s].gen) \in exited BY RunEventsAll
  <1>4. Settle(<<>>, queue, <<>>, 0, busy) OBVIOUS
  <1> HIDE DEF queue, exited
  <1>5. GoesOn(Range(log) \cup Range(<<>>) \cup Range(queue) \cup R, Kept' \cup R)
    BY <1>0, <1>1, <1>4, SettleGoesOn
  <1>6. GoesOn(Kept \cup R, Range(log) \cup Range(<<>>) \cup Range(queue) \cup R)
    BY <1>0, <1>1, <1>2 DEF GoesOn, Kept, RuntimeOnly
  <1>7. pendingDurable' = queue BY <1>4 DEF Settle
  <1> QED BY <1>1, <1>3, <1>5, <1>6, <1>7, GoesFurther DEF Kept

\* A removal that failed restores its Shells without the runs it killed, whose exits
\* it queues.
LEMMA LifecycleFailedCut ==
  ASSUME Cut, KInv, IInv, LifecycleFailed
  PROVE  Cut'
  <1>0. /\ TypeOK /\ RuntimeOnly /\ op.undo \in [Entities -> Record]
        /\ op.stopped \in SUBSET Shells
    BY DEF IInv, TypeOK, Op, KInv, Knowledge
  <1>1. /\ op.kind \in Lifecycle /\ op.phase = "commit" /\ mem' = op.undo
        /\ life' = op.undoLife /\ CancelStopping /\ op' = NoOp /\ io'.batch = <<>>
        /\ Settle(<<>>, pendingDurable \o Compensation(op.stopped, op.undo), <<>>, 0, FALSE)
        /\ UNCHANGED base
    BY NoOpFields DEF LifecycleFailed, Settle
  <1>2. Restored = mem' /\ RestoredLife = life' /\ ThenEnded = op.stopped
    BY <1>1 DEF Restored, RestoredLife, ThenEnded, Lifecycle
  <1>3. /\ GoesOn(Kept \cup {}, Kept' \cup {})
        /\ \A s \in op.stopped : Evt("RunExited", s, mem'[s].gen) \in Kept'
    BY <1>0, <1>1, Compensates
  <1>4. Told' = Kept' \cup {} /\ Kept = Kept \cup {}
    BY <1>1, EmptyRange DEF Told
  <1>5. ASSUME ~stopping'
        PROVE  Describes(base, Told', mem', life', {})
    <2>1. ~stopping \/ op.kind = "shutdown" BY <1>5, <1>1 DEF CancelStopping
    <2>2. Describes(base, Kept, mem', life', op.stopped)
      BY <1>1, <1>2, <2>1 DEF Cut, CutUndo, Lifecycle
    <2>3. GoesOn(Kept, Told') BY <1>3, <1>4
    <2>4. \A s \in Shells : life'[s] = "running" \/ s \in op.stopped =>
            \/ life'[s] = "running" \/ s \in {}
            \/ Evt("RunExited", s, mem'[s].gen) \in Told'
      BY <1>3, <1>4
    <2> QED BY <2>2, <2>3, <2>4, DescribesOn
  <1> QED BY <1>1, <1>5, DoneCut

\* So does an abort.
LEMMA AbortLifecycleCut ==
  ASSUME Cut, KInv, IInv, AbortLifecycle
  PROVE  Cut'
  <1> DEFINE killed == {s \in op.stopped : life[s] = "running"}
  <1>0. /\ TypeOK /\ RuntimeOnly /\ mem \in [Entities -> Record]
        /\ killed \in SUBSET Shells /\ io \in IO
    BY DEF IInv, TypeOK, Op, KInv, Knowledge
  <1>1. /\ op.phase = "abort" /\ mem' = Ended(mem, killed)
        /\ life' = SetAll(life, killed, "pending") /\ CancelStopping /\ op' = NoOp
        /\ Settle(<<>>, pendingDurable \o Compensation(killed, mem), <<>>, 0, InFlight)
        /\ io' = io \/ io' = Touched
    BY DEF AbortLifecycle
  <1>2. io'.batch = io.batch /\ UNCHANGED base BY <1>0, <1>1 DEF Touched, IO, Settle
  <1>3. op.kind \in Lifecycle BY <1>1 DEF IInv, OpShape
  <1> HIDE DEF killed
  <1>4. /\ GoesOn(Kept \cup Range(io.batch), Kept' \cup Range(io.batch))
        /\ \A s \in killed : Evt("RunExited", s, mem[s].gen) \in Kept'
    BY <1>0, <1>1, Compensates
  <1>5. Told = Kept \cup Range(io.batch) /\ Told' = Kept' \cup Range(io.batch)
    BY <1>2 DEF Told
  <1>6. \A e \in Entities : /\ mem'[e].status = mem[e].status /\ mem'[e].rev = mem[e].rev
                            /\ mem'[e].gen = mem[e].gen
    BY <1>0, <1>1 DEF Ended, Record
  <1>7. \A s \in Shells : s \in Entities /\ life'[s] = IF s \in killed THEN "pending" ELSE life[s]
    BY <1>1 DEF SetAll, Entities
  <1>8. ASSUME ~stopping'
        PROVE  Describes(base, Told', mem', life', {})
    <2>1. ~stopping \/ op.kind = "shutdown" BY <1>8, <1>1 DEF CancelStopping
    <2>2. Describes(base, Told, mem, life, {})
      BY <1>1, <2>1 DEF Cut, CutMem, Describable
    <2>3. GoesOn(Told, Told') BY <1>4, <1>5
    <2>4. \A s \in Shells : life'[s] = "running" => life[s] = "running" BY <1>7
    <2>5. \A s \in Shells : life[s] = "running" \/ s \in {} =>
            /\ mem'[s].gen = mem[s].gen
            /\ \/ life'[s] = "running" \/ s \in {}
               \/ Evt("RunExited", s, mem[s].gen) \in Told'
      BY <1>4, <1>5, <1>6, <1>7
    <2> QED BY <1>6, <2>2, <2>3, <2>4, <2>5, DescribesOn
  <1> QED BY <1>1, <1>2, <1>8, DoneCut

\* A stream that begins describes the registry it begins with.
LEMMA FreshCut ==
  ASSUME NEW m, NEW f, \A s \in Shells : f[s] # "running"
  PROVE  Describes(m, {}, m, f, {})
  BY DEF Describes, ToldLive

\* The description is inductive.
LEMMA CutStep == Cut /\ Going /\ KInv /\ IInv /\ [Next]_vars => Cut'
  <1> SUFFICES ASSUME Cut, Going, KInv, IInv, [Next]_vars PROVE Cut' OBVIOUS
  <1>1. CASE UNCHANGED vars
    <2>1. UNCHANGED <<mem, life, base, stopping, op, io, log, pendingDurable>>
      BY <1>1 DEF vars
    <2>2. Told' = Told /\ Kept' = Kept BY <2>1 DEF Told, Kept
    <2>3. \A T : GoesOn(T, T) BY GoingOn
    <2> QED BY <2>1, <2>2, <2>3, SameCut DEF Cut, Observing
  <1>2. CASE Operations
    BY <1>2, PassingCut, FinishCut, RolledBackCut, LifecycleFailedCut, AbortLifecycleCut,
       ApplyMutationCut, ApplyStartsCut, ApplyExitCut, ApplyLifecycleCut
    DEF Operations, Passing
  <1>3. CASE CrashAndRestore
    <2>1. /\ op' = NoOp /\ base' = mem' /\ log' = <<>> /\ pendingDurable' = <<>>
          /\ io'.batch = <<>> /\ \A s \in Shells : life'[s] # "running"
      BY <1>3, NoOpFields DEF CrashAndRestore
    <2>2. Told' = {} BY <2>1, EmptyRange DEF Told, Kept
    <2>3. Describes(base, Told, mem, life, {})' BY <2>1, <2>2, FreshCut
    <2> QED BY <2>1, <2>3, DoneCut
  <1> QED BY <1>1, <1>2, <1>3, WritesCut, RequestsCut, RunsCut DEF Next

\* The coordinator starts with a new stream.
LEMMA InitCut == Init => Cut
  <1> SUFFICES ASSUME Init PROVE Cut OBVIOUS
  <1>1. /\ op.kind = "none" /\ op.phase = "admit" /\ base = mem /\ log = <<>>
        /\ pendingDurable = <<>> /\ io.batch = <<>>
        /\ \A s \in Shells : life[s] # "running"
    BY NoOpFields DEF Init
  <1>2. Told = {} BY <1>1, EmptyRange DEF Told, Kept
  <1>3. Describes(base, Told, mem, life, {}) BY <1>1, <1>2, FreshCut
  <1> QED BY <1>1, <1>3
          DEF Cut, CutMem, CutUndo, Observing, Starting, Selecting, ShutsDown

\* Announced is membership in the log.
LEMMA AnnouncedInLog == \A x : Announced(x) <=> x \in Range(log)
  BY DEF Announced, Range

\* What was announced, is queued or is being written describes the registry in every
\* state of every behaviour, and so does what a failed write restores.
THEOREM Describing == Spec => []Cut
  BY InitCut, CutStep, ReadingAnnounced, Knowing, Invariance, PTL DEF Spec

\* PublishedCut: when publication is not blocked, and while a baseline is observed,
\* the published events describe the registry exactly.
THEOREM PublishesTheCut == Spec => []PublishedCut
  <1>1. Cut /\ Going /\ LInv /\ KInv /\ IInv => PublishedCut
    <2> SUFFICES ASSUME Cut, Going, LInv, KInv, IInv, ~stopping,
                        ~Blocked \/ op.phase = "observe"
                 PROVE  /\ \A e \in Entities : Live(e) <=> SeenLive(e)
                        /\ \A e \in Entities : Live(e) =>
                             /\ SeenRev(e, mem[e].rev)
                             /\ \A r \in 0..MaxRevision :
                                  Announced(Evt("Renamed", e, r)) => r <= mem[e].rev
                        /\ \A s \in Shells : \A g \in 1..MaxGeneration :
                             Current(s, g) <=> SeenActive(s, g)
      BY DEF PublishedCut
    <2>1. pendingDurable = <<>> /\ io.batch = <<>> /\ op.phase # "commit"
      <3>1. CASE ~Blocked
        BY <3>1 DEF Blocked, InFlight, IInv, WriteShape, TypeOK, IO, IOKinds
      <3>2. CASE op.phase = "observe"
        BY <3>2 DEF Cut, Observing
      <3> QED BY <3>1, <3>2
    <2>2. Told = Range(log) BY <2>1, EmptyRange DEF Told, Kept
    <2>3. \A x : Announced(x) <=> x \in Told BY <2>2, AnnouncedInLog
    <2>4. Describes(base, Told, mem, life, {}) BY DEF Cut, CutMem, Describable
    <2>5. \A x \in Told : Covers(mem, x)
      BY <2>2 DEF KInv, Knowledge, MemKnows, Covered, Held
    <2>6. \A k, f, n : /\ Evt(k, f, n).kind = k /\ Evt(k, f, n).of = f /\ Evt(k, f, n).n = n
      BY DEF Evt
    <2>7. \A e \in Entities : mem[e].rev \in Nat BY DEF IInv, TypeOK, Record
    <2>8. \A e : SeenLive(e) <=> ToldLive(base, Told, e) BY <2>3 DEF SeenLive, ToldLive
    <2>9. \A e \in Entities : Live(e) <=> SeenLive(e) BY <2>4, <2>8 DEF Describes, Live
    <2>10. ASSUME NEW e \in Entities
           PROVE  /\ SeenRev(e, mem[e].rev)
                  /\ \A r \in 0..MaxRevision :
                       Announced(Evt("Renamed", e, r)) => r <= mem[e].rev
      <3>1. SeenRev(e, mem[e].rev) BY <2>3, <2>4 DEF SeenRev, Describes
      <3>2. ASSUME NEW r \in 0..MaxRevision, Announced(Evt("Renamed", e, r))
            PROVE  r <= mem[e].rev
        <4>1. Covers(mem, Evt("Renamed", e, r)) BY <2>3, <2>5, <3>2
        <4> QED BY <2>6, <4>1 DEF Covers
      <3> QED BY <3>1, <3>2
    <2>11. ASSUME NEW s \in Shells, NEW g \in 1..MaxGeneration
           PROVE  Current(s, g) <=> SeenActive(s, g)
      <3>0. s \in Entities /\ g \in Nat BY ConstantsAssumption DEF Entities
      <3>1. ASSUME Current(s, g) PROVE SeenActive(s, g)
        <4>1. life[s] = "running" /\ mem[s].gen = g BY <3>1 DEF Current
        <4>2. Announced(Evt("RunStarted", s, g))
          BY <2>1, <2>2, <2>3, <4>1 DEF Going, RunsAnnounced, StartKnown, Committing
        <4>3. ~Announced(Evt("RunExited", s, g))
          <5> SUFFICES ASSUME Announced(Evt("RunExited", s, g)) PROVE FALSE OBVIOUS
          <5>1. Covers(mem, Evt("RunExited", s, g)) BY <2>3, <2>5
          <5>2. mem[s].run # "active" BY <2>6, <4>1, <5>1 DEF Covers
          <5> QED BY <4>1, <5>2 DEF LInv, Running
        <4>4. SeenLive(s) BY <2>4, <2>9, <3>0, <4>1 DEF Describes, Live
        <4> QED BY <4>2, <4>3, <4>4 DEF SeenActive
      <3>2. ASSUME SeenActive(s, g) PROVE Current(s, g)
        <4>1. /\ Evt("RunStarted", s, g) \in Told /\ Evt("RunExited", s, g) \notin Told
              /\ Live(s)
          BY <2>3, <2>9, <3>0, <3>2 DEF SeenActive
        <4> QED BY <2>4, <3>0, <4>1 DEF Describes, Live, Current
      <3> QED BY <3>1, <3>2
    <2> QED BY <2>9, <2>10, <2>11
  <1> QED BY <1>1, Describing, ReadingAnnounced, Living, Knowing, Invariance, PTL
=============================================================================
