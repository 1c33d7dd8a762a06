----------------------- MODULE LocalShellJournalProofs -----------------------
(***************************************************************************)
(* What the journal guarantees across failures and crashes, for any Shells, *)
(* runs and size limit.                                                     *)
(***************************************************************************)
EXTENDS LocalShellJournal, SequenceTheorems, TLAPS

\* The append under way has a record of its own; the file is what a crash of the
\* daemon alone leaves.
Types ==
  /\ TypeOK /\ file \in stable
  /\ call.kind \in {"create", "start"} => call.rec \in Record

\* The file before the append under way.
Before == SubSeq(file, 1, call.length)

In(steps) == call.kind # "none" /\ call.step \in steps

\* How the call under way relates to the file and to the stores.
CallShape ==
  /\ down => call.kind = "none" /\ ~failed /\ ~torn
  /\ torn => failed \/ In({"rollback"})
  /\ call.kind \in {"create", "start"} => call.rec \in applied /\ call.rec \notin acked
  /\ In({"sync", "rollback"}) => Before \in stable
  /\ In({"sync", "rollback", "rollbackSync"}) => ~failed
  /\ In({"append", "sync", "rollback", "rollbackSync"}) => call.kind \in {"create", "start"}
  /\ In({"sync"}) => \E i \in DOMAIN file : file[i] = call.rec
  /\ In({"save", "store", "truncate", "clearSync"}) => call.kind \in {"start", "checkpoint"}
  /\ In({"store", "truncate", "clearSync"}) => covered = applied
  /\ In({"clearSync"}) => file = <<>> /\ ~torn

\* What is reported as done is in the registry, or will be after the boot.
Acknowledged == (~down => acked \subseteq applied) /\ AckedSurvives

\* No outcome of a crash holds a record that failed, or the one being appended
\* before it is written or after it is rolled back.
Excluded ==
  /\ ~failed => \A c \in stable : refused \cap Range(c) = {}
  /\ ~failed /\ ~down => \A c \in stable : Range(c) \subseteq applied
  /\ \A r \in refused : r.run > 0 => r \in applied
  /\ call.kind \in {"create", "start"} => call.rec \notin refused
  /\ call.kind = "create" => call.rec.run = 0
  /\ call.kind \in {"create", "start"} /\ ~failed
       /\ call.step \in {"append", "save", "store", "truncate", "clearSync"} =>
         \A c \in stable : call.rec \notin Range(c)
  /\ In({"sync", "rollback"}) => call.rec \notin Range(Before)
  /\ In({"rollbackSync"}) => call.rec \notin Range(file)

\* The file is what memory holds, and load_at accepts whatever a crash leaves of it.
Mirrored ==
  /\ Loadable
  /\ ~failed /\ ~down
       /\ (call.kind = "none" \/ In({"append", "rollbackSync", "save", "store", "truncate"}))
       => file = records
  /\ In({"sync", "rollback"}) => Before = records
  /\ In({"sync"}) => file = Append(records, call.rec)

\* A stopped daemon has refused nothing and holds nothing in memory.
Down == down => refused = {} /\ records = <<>>

IInv == Types /\ CallShape /\ Acknowledged /\ Excluded /\ Down

-----------------------------------------------------------------------------
(* Sequences.                                                              *)

\* An appended record is the last one and what was before is its prefix.
LEMMA Appended ==
  ASSUME NEW q \in Seq(Item), NEW x \in Item
  PROVE  /\ Append(q, x) \in Seq(Item) /\ Len(Append(q, x)) = Len(q) + 1
         /\ Range(Append(q, x)) = Range(q) \cup {x}
         /\ \E i \in DOMAIN Append(q, x) : Append(q, x)[i] = x
         /\ SubSeq(Append(q, x), 1, Len(q)) = q
         /\ SubSeq(q, 1, Len(q)) = q
  <1>1. /\ Append(q, x) \in Seq(Item) /\ Len(Append(q, x)) = Len(q) + 1
        /\ \A i \in 1..Len(q) : Append(q, x)[i] = q[i]
        /\ Append(q, x)[Len(q) + 1] = x
        /\ DOMAIN Append(q, x) = 1..(Len(q) + 1) /\ DOMAIN q = 1..Len(q)
    BY AppendProperties
  <1>2. SubSeq(Append(q, x), 1, Len(q)) = q
    <2>1. /\ SubSeq(Append(q, x), 1, Len(q)) \in Seq(Item)
          /\ Len(SubSeq(Append(q, x), 1, Len(q))) = Len(q)
          /\ \A i \in 1..Len(q) : SubSeq(Append(q, x), 1, Len(q))[i] = Append(q, x)[i]
      BY <1>1
    <2> QED BY <1>1, <2>1, SeqEqual
  <1>3. SubSeq(q, 1, Len(q)) = q
    <2>1. /\ SubSeq(q, 1, Len(q)) \in Seq(Item) /\ Len(SubSeq(q, 1, Len(q))) = Len(q)
          /\ \A i \in 1..Len(q) : SubSeq(q, 1, Len(q))[i] = q[i]
      OBVIOUS
    <2> QED BY <2>1, SeqEqual
  <1> QED BY <1>1, <1>2, <1>3 DEF Range

\* A record appended to the records in memory.
LEMMA RecordAppended ==
  ASSUME NEW q \in Seq(Record), NEW x \in Record
  PROVE  Append(q, x) \in Seq(Record)
  OBVIOUS

\* The empty file.
LEMMA EmptyFile ==
  /\ <<>> \in Seq(Item) /\ <<>> \in Seq(Record) /\ Len(<<>>) = 0
  /\ Range(<<>>) = {} /\ ValidSequence(<<>>)
  BY DEF Range, ValidSequence

\* The contents of a file are items.
LEMMA Contents ==
  ASSUME NEW q \in Seq(Item) PROVE Range(q) \subseteq Item
  BY DEF Range

-----------------------------------------------------------------------------
\* The invariant holds on an empty state directory.
LEMMA InitInv == Init => IInv /\ Mirrored
  <1> SUFFICES ASSUME Init PROVE IInv /\ Mirrored OBVIOUS
  <1>1. Types
    <2>1. call \in Call /\ call.kind = "none" BY DEF Init, Idle, Call, Calls, Steps, Item
    <2>2. \A c \in stable : c \in Seq(Item) /\ Len(c) <= MaxRecords
      BY EmptyFile, JournalAssumption DEF Init
    <2> QED BY <2>1, <2>2, EmptyFile DEF Init, Types, TypeOK
  <1>2. CallShape BY DEF Init, CallShape, In, Idle
  <1>3. Acknowledged BY DEF Init, Acknowledged, AckedSurvives
  <1>4. Excluded BY EmptyFile DEF Init, Excluded, In, Idle
  <1>5. Mirrored BY EmptyFile DEF Init, Mirrored, Loadable, In, Idle
  <1>6. Down BY DEF Init, Down
  <1> QED BY <1>1, <1>2, <1>3, <1>4, <1>5, <1>6 DEF IInv

\* An append that is not admitted leaves the file alone.
LEMMA AppendRefusedStep ==
  ASSUME IInv, AppendRefused
  PROVE  IInv' /\ (Mirrored => Mirrored')
  <1>1. Types'
    BY DEF IInv, Types, TypeOK, Call, Calls, Steps, Item, CallShape, In,
      AppendRefused, Running, Goto, journal, registry, AppendFails, Refuse,
      Idle
  <1>2. CallShape'
    BY SMTT(60) DEF IInv, Types, TypeOK, CallShape, In, Before, Call, Item,
      AppendRefused, Running, Goto, journal, registry, AppendFails, Refuse,
      Idle
  <1>3. Acknowledged'
    BY DEF IInv, Types, TypeOK, CallShape, In, Acknowledged, AckedSurvives,
      Call, Item, AppendRefused, Running, Goto, journal, registry,
      AppendFails, Refuse, Idle
  <1>4. Excluded'
    BY DEF IInv, Types, TypeOK, CallShape, In, Excluded, Before, Call, Item,
      AppendRefused, Running, Goto, journal, registry, AppendFails, Refuse,
      Idle
  <1>5. Mirrored => Mirrored'
    BY DEF IInv, Types, TypeOK, CallShape, In, Mirrored, Loadable, Before,
      Call, Item, AppendRefused, Running, Goto, journal, registry,
      AppendFails, Refuse, Idle
  <1>6. Down' BY DEF Down, AppendRefused, Running
  <1> QED BY <1>1, <1>2, <1>3, <1>4, <1>5, <1>6 DEF IInv

\* A written record joins the possible outcomes.
LEMMA WriteSucceedsStep ==
  ASSUME IInv, WriteSucceeds
  PROVE  IInv' /\ (Mirrored => Mirrored')
  <1> DEFINE new == Append(file, call.rec)
  <1>1. /\ call.kind \in {"create", "start"} /\ call.rec \in Record /\ call.step = "append"
        /\ ~failed /\ ~torn /\ ~down /\ Len(file) < MaxRecords
        /\ ValidSequence(Append(records, call.rec)) /\ file \in Seq(Item)
    BY DEF WriteSucceeds, Running, Admissible, IInv, Types, TypeOK, CallShape, In
  <1>2. /\ new \in Seq(Item) /\ Len(new) = Len(file) + 1
        /\ Range(new) = Range(file) \cup {call.rec}
        /\ \E i \in DOMAIN new : new[i] = call.rec
        /\ SubSeq(new, 1, Len(file)) = file
    BY <1>1, Appended DEF Item
  <1>3. /\ file' = new /\ torn' = FALSE /\ stable' = stable \cup {new}
        /\ call'.kind = call.kind /\ call'.rec = call.rec /\ call'.step = "sync"
        /\ call'.length = Len(file) /\ call' \in Call
        /\ SubSeq(file', 1, call'.length) = file
        /\ UNCHANGED <<records, failed, registry, down, crashes>>
    <2>1. /\ file' = new /\ torn' = FALSE /\ stable' = stable \cup {new}
          /\ UNCHANGED <<records, failed, registry, down, crashes>>
      BY <1>1 DEF WriteSucceeds
    <2>2. /\ call'.kind = call.kind /\ call'.rec = call.rec /\ call'.step = "sync"
          /\ call'.length = Len(file) /\ call' \in Call
      <3>1. call \in Call /\ "sync" \in Steps BY DEF IInv, Types, TypeOK, Steps
      <3>2. call' = [call EXCEPT !.step = "sync", !.length = Len(file)]
        BY DEF WriteSucceeds
      <3>3. Len(file) \in Nat BY <1>1
      <3> QED BY <3>1, <3>2, <3>3 DEF Call
    <2> QED BY <1>2, <2>1, <2>2
  <1> HIDE DEF new
  <1>4. Types'
    <2>1. Len(new) <= MaxRecords BY <1>1, <1>2, JournalAssumption
    <2> QED BY <1>1, <1>2, <1>3, <2>1 DEF IInv, Types, TypeOK, registry
  <1>5. CallShape'
    BY <1>1, <1>2, <1>3 DEF IInv, Types, CallShape, In, Before, registry
  <1>6. Acknowledged'
    BY <1>1, <1>2, <1>3 DEF IInv, Types, Acknowledged, AckedSurvives, registry
  <1>7. Excluded'
    <2>1. call.rec \in applied /\ call.rec \notin refused /\ call.rec \notin Range(file)
      BY <1>1 DEF IInv, Types, CallShape, Excluded
    <2>2. \A c \in stable' : refused \cap Range(c) = {} /\ Range(c) \subseteq applied
      BY <1>1, <1>2, <1>3, <2>1 DEF IInv, Types, Excluded
    <2> QED BY <1>1, <1>3, <2>1, <2>2 DEF IInv, Excluded, In, Before, registry
  <1>8. Mirrored => Mirrored'
    BY <1>1, <1>2, <1>3 DEF IInv, Mirrored, Loadable, In, Before, new
  <1>9. Down' BY DEF Down, WriteSucceeds, Running
  <1> QED BY <1>4, <1>5, <1>6, <1>7, <1>8, <1>9 DEF IInv

\* A partial write leaves an incomplete record, which load_at drops.
LEMMA WriteFailsStep ==
  ASSUME IInv, WriteFails
  PROVE  IInv' /\ (Mirrored => Mirrored')
  <1>1. /\ call.kind \in {"create", "start"} /\ call.rec \in Record /\ call.step = "append"
        /\ ~failed /\ ~torn /\ ~down /\ file \in Seq(Item)
        /\ call'.kind = call.kind /\ call'.rec = call.rec /\ call'.step = "rollback"
        /\ call'.length = Len(file) /\ call' \in Call
        /\ SubSeq(file', 1, call'.length) = file /\ torn' \in BOOLEAN
        /\ UNCHANGED <<file, stable, records, failed, registry, down, crashes>>
    <2>1. call.kind \in {"create", "start"} /\ call.rec \in Record /\ file \in Seq(Item)
      BY DEF WriteFails, Running, Admissible, IInv, Types, TypeOK, CallShape, In
    <2>2. SubSeq(file, 1, Len(file)) = file BY <2>1, Appended DEF Item
    <2>3. /\ call.step = "append" /\ ~failed /\ ~torn /\ ~down /\ torn' \in BOOLEAN
          /\ UNCHANGED <<file, stable, records, failed, registry, down, crashes>>
      BY DEF WriteFails, Running, Admissible, IInv, Types, TypeOK, CallShape, In
    <2>4. /\ call'.kind = call.kind /\ call'.rec = call.rec /\ call'.step = "rollback"
          /\ call'.length = Len(file) /\ call' \in Call
      <3>1. call \in Call /\ "rollback" \in Steps BY DEF IInv, Types, TypeOK, Steps
      <3>2. call' = [call EXCEPT !.step = "rollback", !.length = Len(file)]
        BY DEF WriteFails
      <3>3. Len(file) \in Nat BY <2>1
      <3> QED BY <3>1, <3>2, <3>3 DEF Call
    <2> QED BY <2>1, <2>2, <2>3, <2>4
  <1>2. Types' BY <1>1 DEF IInv, Types, TypeOK, registry
  <1>3. CallShape' BY <1>1 DEF IInv, Types, CallShape, In, Before, registry
  <1>4. Acknowledged' BY <1>1 DEF IInv, Acknowledged, AckedSurvives, registry
  <1>5. Excluded' BY <1>1 DEF IInv, Types, Excluded, In, Before, registry
  <1>6. Mirrored => Mirrored' BY <1>1 DEF IInv, Mirrored, Loadable, In, Before
  <1>7. Down' BY DEF Down, WriteFails, Running
  <1> QED BY <1>2, <1>3, <1>4, <1>5, <1>6, <1>7 DEF IInv

\* A synchronised record is the only outcome and is acknowledged.
LEMMA SyncSucceedsStep ==
  ASSUME IInv, SyncSucceeds
  PROVE  IInv' /\ (Mirrored => Mirrored')
  <1>1. Types'
    BY RecordAppended DEF IInv, Types, TypeOK, Call, Calls, Steps, Item,
      CallShape, In, SyncSucceeds, Running, Idle, journal, registry
  <1>2. CallShape'
    BY RecordAppended DEF IInv, Types, TypeOK, CallShape, In, Before, Call,
      Item, SyncSucceeds, Running, Idle, journal, registry
  <1>3. Acknowledged'
    <2>1. ~down /\ call.rec \in applied /\ call.rec \in Range(file) /\ file \in stable
      BY DEF IInv, Types, CallShape, In, SyncSucceeds, Running, Range
    <2>2. acked \subseteq applied /\ acked \subseteq covered \cup Range(file)
      BY <2>1 DEF IInv, Acknowledged, AckedSurvives
    <2> QED BY <2>1, <2>2 DEF SyncSucceeds, Acknowledged, AckedSurvives
  <1>4. Excluded'
    BY RecordAppended DEF IInv, Types, TypeOK, CallShape, In, Excluded,
      Before, Call, Item, SyncSucceeds, Running, Idle, journal, registry
  <1>5. Mirrored => Mirrored'
    BY RecordAppended DEF IInv, Types, TypeOK, CallShape, In, Mirrored,
      Loadable, Before, Call, Item, SyncSucceeds, Running, Idle, journal,
      registry
  <1>6. Down' BY DEF Down, SyncSucceeds, Running
  <1> QED BY <1>1, <1>2, <1>3, <1>4, <1>5, <1>6 DEF IInv

\* A failed synchronisation is rolled back.
LEMMA SyncFailsStep ==
  ASSUME IInv, SyncFails
  PROVE  IInv' /\ (Mirrored => Mirrored')
  <1>1. Types'
    BY DEF IInv, Types, TypeOK, Call, Calls, Steps, Item, CallShape, In,
      SyncFails, Running, Goto, journal, registry
  <1>2. CallShape'
    BY DEF IInv, Types, TypeOK, CallShape, In, Before, Call, Item,
      SyncFails, Running, Goto, journal, registry
  <1>3. Acknowledged'
    BY DEF IInv, Types, TypeOK, CallShape, In, Acknowledged, AckedSurvives,
      Call, Item, SyncFails, Running, Goto, journal, registry
  <1>4. Excluded'
    BY DEF IInv, Types, TypeOK, CallShape, In, Excluded, Before, Call, Item,
      SyncFails, Running, Goto, journal, registry
  <1>5. Mirrored => Mirrored'
    BY DEF IInv, Types, TypeOK, CallShape, In, Mirrored, Loadable, Before,
      Call, Item, SyncFails, Running, Goto, journal, registry
  <1>6. Down' BY DEF Down, SyncFails, Running
  <1> QED BY <1>1, <1>2, <1>3, <1>4, <1>5, <1>6 DEF IInv

\* The rollback restores a file that was a possible outcome.
LEMMA RollbackTruncatesStep ==
  ASSUME IInv, RollbackTruncates
  PROVE  IInv' /\ (Mirrored => Mirrored')
  <1>1. /\ call.kind \in {"create", "start"} /\ call.step = "rollback"
        /\ ~failed /\ ~down /\ Before \in stable
        /\ call'.kind = call.kind /\ call'.rec = call.rec /\ call'.step = "rollbackSync"
        /\ call' \in Call
        /\ file' = Before /\ torn' = FALSE /\ stable' = stable
        /\ UNCHANGED <<records, failed, registry, down, crashes>>
    BY DEF RollbackTruncates, Running, Goto, Before, IInv, Types, TypeOK, CallShape, In,
           Call, Steps
  <1>2. Types' BY <1>1 DEF IInv, Types, TypeOK, registry
  <1>3. CallShape' BY <1>1 DEF IInv, CallShape, In, registry
  <1>4. Acknowledged' BY <1>1 DEF IInv, Acknowledged, AckedSurvives, registry
  <1>5. Excluded' BY <1>1 DEF IInv, Excluded, In, registry
  <1>6. Mirrored => Mirrored' BY <1>1 DEF IInv, Mirrored, Loadable, In
  <1>7. Down' BY DEF Down, RollbackTruncates, Running
  <1> QED BY <1>2, <1>3, <1>4, <1>5, <1>6, <1>7 DEF IInv

\* A synchronised rollback leaves no trace of the record.
LEMMA RollbackSyncsStep ==
  ASSUME IInv, RollbackSyncs
  PROVE  IInv' /\ (Mirrored => Mirrored')
  <1>1. Types'
    BY DEF IInv, Types, TypeOK, Call, Calls, Steps, Item, CallShape, In,
      RollbackSyncs, Running, Goto, journal, registry, AppendFails, Refuse,
      Idle
  <1>2. CallShape'
    BY DEF IInv, Types, TypeOK, CallShape, In, Before, Call, Item,
      RollbackSyncs, Running, Goto, journal, registry, AppendFails, Refuse,
      Idle
  <1>3. Acknowledged'
    BY DEF IInv, Types, TypeOK, CallShape, In, Acknowledged, AckedSurvives,
      Call, Item, RollbackSyncs, Running, Goto, journal, registry,
      AppendFails, Refuse, Idle
  <1>4. Excluded'
    BY SMTT(60) DEF IInv, Types, TypeOK, CallShape, In, Excluded, Before, Call, Item,
      RollbackSyncs, Running, Goto, journal, registry, AppendFails, Refuse,
      Idle
  <1>5. Mirrored => Mirrored'
    BY DEF IInv, Types, TypeOK, CallShape, In, Mirrored, Loadable, Before,
      Call, Item, RollbackSyncs, Running, Goto, journal, registry,
      AppendFails, Refuse, Idle
  <1>6. Down' BY DEF Down, RollbackSyncs, Running
  <1> QED BY <1>1, <1>2, <1>3, <1>4, <1>5, <1>6 DEF IInv

\* A failed rollback makes the journal unusable.
LEMMA RollbackFailsStep ==
  ASSUME IInv, RollbackFails
  PROVE  IInv' /\ (Mirrored => Mirrored')
  <1>1. Types'
    BY DEF IInv, Types, TypeOK, Call, Calls, Steps, Item, CallShape, In,
      RollbackFails, Running, Goto, journal, registry, AppendFails, Refuse,
      Idle
  <1>2. CallShape'
    BY DEF IInv, Types, TypeOK, CallShape, In, Before, Call, Item,
      RollbackFails, Running, Goto, journal, registry, AppendFails, Refuse,
      Idle
  <1>3. Acknowledged'
    BY DEF IInv, Types, TypeOK, CallShape, In, Acknowledged, AckedSurvives,
      Call, Item, RollbackFails, Running, Goto, journal, registry,
      AppendFails, Refuse, Idle
  <1>4. Excluded'
    <2>1. /\ call.kind \in {"create", "start"} /\ failed' = TRUE
          /\ call.rec \in applied /\ call.rec \notin refused
          /\ call.kind = "create" => call.rec.run = 0
          /\ \A r \in refused : r.run > 0 => r \in applied
      BY DEF RollbackFails, Running, IInv, CallShape, In, Excluded
    <2>2. CASE call.kind = "start"
      BY <2>1, <2>2
      DEF RollbackFails, AppendFails, Goto, registry, Excluded, In, IInv, Types, TypeOK, Call
    <2>3. CASE call.kind = "create"
      BY <2>1, <2>3 DEF RollbackFails, AppendFails, Refuse, Idle, Excluded, In
    <2> QED BY <2>1, <2>2, <2>3
  <1>5. Mirrored => Mirrored'
    BY DEF IInv, Types, TypeOK, CallShape, In, Mirrored, Loadable, Before,
      Call, Item, RollbackFails, Running, Goto, journal, registry,
      AppendFails, Refuse, Idle
  <1>6. Down' BY DEF Down, RollbackFails, Running
  <1> QED BY <1>1, <1>2, <1>3, <1>4, <1>5, <1>6 DEF IInv

\* The state file covers the registry.
LEMMA SaveSucceedsStep ==
  ASSUME IInv, SaveSucceeds
  PROVE  IInv' /\ (Mirrored => Mirrored')
  <1>1. Types'
    BY DEF IInv, Types, TypeOK, Call, Calls, Steps, Item, CallShape, In,
      SaveSucceeds, Running, Goto, journal, registry
  <1>2. CallShape'
    BY DEF IInv, Types, TypeOK, CallShape, In, Before, Call, Item,
      SaveSucceeds, Running, Goto, journal, registry
  <1>3. Acknowledged'
    BY DEF IInv, Types, TypeOK, CallShape, In, Acknowledged, AckedSurvives,
      Call, Item, SaveSucceeds, Running, Goto, journal, registry
  <1>4. Excluded'
    BY DEF IInv, Types, TypeOK, CallShape, In, Excluded, Before, Call, Item,
      SaveSucceeds, Running, Goto, journal, registry
  <1>5. Mirrored => Mirrored'
    BY DEF IInv, Types, TypeOK, CallShape, In, Mirrored, Loadable, Before,
      Call, Item, SaveSucceeds, Running, Goto, journal, registry
  <1>6. Down' BY DEF Down, SaveSucceeds, Running
  <1> QED BY <1>1, <1>2, <1>3, <1>4, <1>5, <1>6 DEF IInv

\* A failed save refuses the operation.
LEMMA SaveFailsStep ==
  ASSUME IInv, SaveFails
  PROVE  IInv' /\ (Mirrored => Mirrored')
  <1>1. Types'
    BY DEF IInv, Types, TypeOK, Call, Calls, Steps, Item, CallShape, In,
      SaveFails, Running, Goto, journal, registry, Refuse, Idle
  <1>2. CallShape'
    BY DEF IInv, Types, TypeOK, CallShape, In, Before, Call, Item,
      SaveFails, Running, Goto, journal, registry, Refuse, Idle
  <1>3. Acknowledged'
    BY DEF IInv, Types, TypeOK, CallShape, In, Acknowledged, AckedSurvives,
      Call, Item, SaveFails, Running, Goto, journal, registry, Refuse, Idle
  <1>4. Excluded'
    BY DEF IInv, Types, TypeOK, CallShape, In, Excluded, Before, Call, Item,
      SaveFails, Running, Goto, journal, registry, Refuse, Idle
  <1>5. Mirrored => Mirrored'
    BY DEF IInv, Types, TypeOK, CallShape, In, Mirrored, Loadable, Before,
      Call, Item, SaveFails, Running, Goto, journal, registry, Refuse, Idle
  <1>6. Down' BY DEF Down, SaveFails, Running
  <1> QED BY <1>1, <1>2, <1>3, <1>4, <1>5, <1>6 DEF IInv

\* The coordinator store follows the state file.
LEMMA StoreSucceedsStep ==
  ASSUME IInv, StoreSucceeds
  PROVE  IInv' /\ (Mirrored => Mirrored')
  <1>1. Types'
    BY DEF IInv, Types, TypeOK, Call, Calls, Steps, Item, CallShape, In,
      StoreSucceeds, Running, Goto, journal, registry
  <1>2. CallShape'
    BY DEF IInv, Types, TypeOK, CallShape, In, Before, Call, Item,
      StoreSucceeds, Running, Goto, journal, registry
  <1>3. Acknowledged'
    BY DEF IInv, Types, TypeOK, CallShape, In, Acknowledged, AckedSurvives,
      Call, Item, StoreSucceeds, Running, Goto, journal, registry
  <1>4. Excluded'
    BY DEF IInv, Types, TypeOK, CallShape, In, Excluded, Before, Call, Item,
      StoreSucceeds, Running, Goto, journal, registry
  <1>5. Mirrored => Mirrored'
    BY DEF IInv, Types, TypeOK, CallShape, In, Mirrored, Loadable, Before,
      Call, Item, StoreSucceeds, Running, Goto, journal, registry
  <1>6. Down' BY DEF Down, StoreSucceeds, Running
  <1> QED BY <1>1, <1>2, <1>3, <1>4, <1>5, <1>6 DEF IInv

\* A failed coordinator checkpoint refuses the operation.
LEMMA StoreFailsStep ==
  ASSUME IInv, StoreFails
  PROVE  IInv' /\ (Mirrored => Mirrored')
  <1>1. Types'
    BY DEF IInv, Types, TypeOK, Call, Calls, Steps, Item, CallShape, In,
      StoreFails, Running, Goto, journal, registry, Refuse, Idle
  <1>2. CallShape'
    BY DEF IInv, Types, TypeOK, CallShape, In, Before, Call, Item,
      StoreFails, Running, Goto, journal, registry, Refuse, Idle
  <1>3. Acknowledged'
    BY DEF IInv, Types, TypeOK, CallShape, In, Acknowledged, AckedSurvives,
      Call, Item, StoreFails, Running, Goto, journal, registry, Refuse, Idle
  <1>4. Excluded'
    BY DEF IInv, Types, TypeOK, CallShape, In, Excluded, Before, Call, Item,
      StoreFails, Running, Goto, journal, registry, Refuse, Idle
  <1>5. Mirrored => Mirrored'
    BY DEF IInv, Types, TypeOK, CallShape, In, Mirrored, Loadable, Before,
      Call, Item, StoreFails, Running, Goto, journal, registry, Refuse, Idle
  <1>6. Down' BY DEF Down, StoreFails, Running
  <1> QED BY <1>1, <1>2, <1>3, <1>4, <1>5, <1>6 DEF IInv

\* The file is emptied once the stores cover the registry.
LEMMA TruncatesStep ==
  ASSUME IInv, Truncates
  PROVE  IInv' /\ (Mirrored => Mirrored')
  <1>1. Types'
    <2>1. call' \in Call /\ call'.kind = call.kind /\ call'.rec = call.rec
      BY DEF IInv, Types, TypeOK, Call, Steps, Truncates, Goto
    <2>2. Len(<<>>) <= MaxRecords BY EmptyFile, JournalAssumption
    <2> QED BY <2>1, <2>2, EmptyFile DEF IInv, Types, TypeOK, Truncates, registry
  <1>2. CallShape'
    BY EmptyFile, JournalAssumption DEF IInv, Types, TypeOK, CallShape, In,
      Before, Call, Item, Truncates, Running, Goto, journal, registry
  <1>3. Acknowledged'
    BY EmptyFile, JournalAssumption DEF IInv, Types, TypeOK, CallShape, In,
      Acknowledged, AckedSurvives, Call, Item, Truncates, Running, Goto,
      journal, registry
  <1>4. Excluded'
    BY EmptyFile, JournalAssumption DEF IInv, Types, TypeOK, CallShape, In,
      Excluded, Before, Call, Item, Truncates, Running, Goto, journal,
      registry
  <1>5. Mirrored => Mirrored'
    BY EmptyFile, JournalAssumption DEF IInv, Types, TypeOK, CallShape, In,
      Mirrored, Loadable, Before, Call, Item, Truncates, Running, Goto,
      journal, registry
  <1>6. Down' BY DEF Down, Truncates, Running
  <1> QED BY <1>1, <1>2, <1>3, <1>4, <1>5, <1>6 DEF IInv

\* A file that cannot be emptied refuses the operation.
LEMMA TruncateFailsStep ==
  ASSUME IInv, TruncateFails
  PROVE  IInv' /\ (Mirrored => Mirrored')
  <1>1. Types'
    BY DEF IInv, Types, TypeOK, Call, Calls, Steps, Item, CallShape, In,
      TruncateFails, Running, Goto, journal, registry, Refuse, Idle
  <1>2. CallShape'
    BY DEF IInv, Types, TypeOK, CallShape, In, Before, Call, Item,
      TruncateFails, Running, Goto, journal, registry, Refuse, Idle
  <1>3. Acknowledged'
    BY DEF IInv, Types, TypeOK, CallShape, In, Acknowledged, AckedSurvives,
      Call, Item, TruncateFails, Running, Goto, journal, registry, Refuse,
      Idle
  <1>4. Excluded'
    BY DEF IInv, Types, TypeOK, CallShape, In, Excluded, Before, Call, Item,
      TruncateFails, Running, Goto, journal, registry, Refuse, Idle
  <1>5. Mirrored => Mirrored'
    BY DEF IInv, Types, TypeOK, CallShape, In, Mirrored, Loadable, Before,
      Call, Item, TruncateFails, Running, Goto, journal, registry, Refuse,
      Idle
  <1>6. Down' BY DEF Down, TruncateFails, Running
  <1> QED BY <1>1, <1>2, <1>3, <1>4, <1>5, <1>6 DEF IInv

\* The emptied file is the only outcome.
LEMMA ClearSyncsStep ==
  ASSUME IInv, ClearSyncs
  PROVE  IInv' /\ Mirrored'
  <1>1. Types'
    BY EmptyFile DEF IInv, Types, TypeOK, Call, Calls, Steps, Item,
      CallShape, In, ClearSyncs, Running, Idle, journal, registry
  <1>2. CallShape'
    <2>1. ~down /\ ~torn'
      BY DEF IInv, CallShape, In, ClearSyncs, Running
    <2> QED BY <2>1 DEF ClearSyncs, CallShape, In, Idle
  <1>3. Acknowledged'
    BY EmptyFile DEF IInv, Types, TypeOK, CallShape, In, Acknowledged,
      AckedSurvives, Call, Item, ClearSyncs, Running, Idle, journal,
      registry
  <1>4. Excluded'
    BY EmptyFile DEF IInv, Types, TypeOK, CallShape, In, Excluded, Before,
      Call, Item, ClearSyncs, Running, Idle, journal, registry
  <1>5. Mirrored'
    BY EmptyFile DEF IInv, Types, TypeOK, CallShape, In, Mirrored, Loadable,
      Before, Call, Item, ClearSyncs, Running, Idle, journal, registry
  <1>6. Down' BY DEF Down, ClearSyncs, Running
  <1> QED BY <1>1, <1>2, <1>3, <1>4, <1>5, <1>6 DEF IInv

\* An emptied file that is not synchronised refuses the operation.
LEMMA ClearSyncFailsStep ==
  ASSUME IInv, ClearSyncFails
  PROVE  IInv'
  <1>1. Types'
    BY DEF IInv, Types, TypeOK, Call, Calls, Steps, Item, CallShape, In,
      ClearSyncFails, Running, Goto, journal, registry, Refuse, Idle
  <1>2. CallShape'
    BY DEF IInv, Types, TypeOK, CallShape, In, Before, Call, Item,
      ClearSyncFails, Running, Goto, journal, registry, Refuse, Idle
  <1>3. Acknowledged'
    BY DEF IInv, Types, TypeOK, CallShape, In, Acknowledged, AckedSurvives,
      Call, Item, ClearSyncFails, Running, Goto, journal, registry, Refuse,
      Idle
  <1>4. Excluded'
    BY DEF IInv, Types, TypeOK, CallShape, In, Excluded, Before, Call, Item,
      ClearSyncFails, Running, Goto, journal, registry, Refuse, Idle
  <1>6. Down' BY DEF Down, ClearSyncFails, Running
  <1> QED BY <1>1, <1>2, <1>3, <1>4, <1>6 DEF IInv

\* A checkpoint begins.
LEMMA BeginCheckpointStep ==
  ASSUME IInv, BeginCheckpoint
  PROVE  IInv' /\ (Mirrored => Mirrored')
  <1>1. Types'
    BY DEF IInv, Types, TypeOK, Call, Calls, Steps, Item, CallShape, In,
      BeginCheckpoint, Begin, journal, registry
  <1>2. CallShape'
    BY DEF IInv, Types, TypeOK, CallShape, In, Before, Call, Item,
      BeginCheckpoint, Begin, journal, registry
  <1>3. Acknowledged'
    BY DEF IInv, Types, TypeOK, CallShape, In, Acknowledged, AckedSurvives,
      Call, Item, BeginCheckpoint, Begin, journal, registry
  <1>4. Excluded'
    BY DEF IInv, Types, TypeOK, CallShape, In, Excluded, Before, Call, Item,
      BeginCheckpoint, Begin, journal, registry
  <1>5. Mirrored => Mirrored'
    BY DEF IInv, Types, TypeOK, CallShape, In, Mirrored, Loadable, Before,
      Call, Item, BeginCheckpoint, Begin, journal, registry
  <1>6. Down' BY DEF Down, BeginCheckpoint, Begin
  <1> QED BY <1>1, <1>2, <1>3, <1>4, <1>5, <1>6 DEF IInv

\* The boot applies and covers what the file holds.
LEMMA BootStep ==
  ASSUME IInv, Boot
  PROVE  IInv' /\ Mirrored'
  <1>1. /\ call.kind = "none" /\ ~failed /\ ~torn /\ refused' = refused
        /\ file \in Seq(Item) /\ Range(file) \subseteq Item /\ file' = <<>>
        /\ stable' = {<<>>} /\ down' = FALSE
        /\ applied' = covered \cup Range(file) /\ covered' = applied'
        /\ UNCHANGED <<torn, records, failed, call, acked, crashes>>
        /\ acked \subseteq applied'
    BY Contents DEF Boot, IInv, Types, TypeOK, CallShape, Acknowledged, AckedSurvives
  <1>2. Types'
    <2>1. Len(<<>>) <= MaxRecords BY EmptyFile, JournalAssumption
    <2> QED BY <1>1, <2>1, EmptyFile DEF IInv, Types, TypeOK
  <1>3. CallShape' BY <1>1 DEF CallShape, In
  <1>4. Acknowledged' BY <1>1 DEF Acknowledged, AckedSurvives
  <1>5. Excluded'
    <2>1. \A r \in refused : r.run > 0 => r \in applied'
      BY <1>1 DEF IInv, Excluded, Down, Boot
    <2> QED BY <1>1, <2>1, EmptyFile DEF Excluded, In
  <1>6. Mirrored' BY <1>1, EmptyFile DEF IInv, Down, Mirrored, Loadable, In, Boot
  <1>7. Down' BY DEF Down, Boot
  <1> QED BY <1>2, <1>3, <1>4, <1>5, <1>6, <1>7 DEF IInv

\* A boot cut short leaves a journal whose records are all saved, or none.
LEMMA BootCutShortStep ==
  ASSUME IInv, NEW left \in {file, <<>>}, BootCutShort(left)
  PROVE  IInv' /\ (Mirrored => Mirrored')
  <1>1. /\ call.kind = "none" /\ ~failed /\ ~torn /\ refused = {} /\ records = <<>>
        /\ file \in Seq(Item) /\ Range(file) \subseteq Item /\ file' = left
        /\ stable' = {left} /\ down /\ file \in stable
        /\ applied' = covered \cup Range(file) /\ covered' = applied'
        /\ UNCHANGED <<torn, records, failed, call, acked, refused, down>>
        /\ acked \subseteq applied' /\ crashes' \in Nat
    BY Contents
    DEF BootCutShort, IInv, Types, TypeOK, CallShape, Acknowledged, AckedSurvives, Down
  <1>2. left \in Seq(Item) /\ Len(left) <= MaxRecords /\ ValidSequence(left)
    <2>1. Len(<<>>) <= MaxRecords BY EmptyFile, JournalAssumption
    <2>2. Len(file) <= MaxRecords /\ ValidSequence(file)
      BY <1>1 DEF IInv, Types, TypeOK, BootCutShort
    <2> QED BY <1>1, <2>1, <2>2, EmptyFile
  <1>3. Types' BY <1>1, <1>2 DEF IInv, Types, TypeOK
  <1>4. CallShape' BY <1>1 DEF CallShape, In
  <1>5. Acknowledged' BY <1>1 DEF Acknowledged, AckedSurvives
  <1>6. Excluded' BY <1>1 DEF Excluded, In
  <1>7. Mirrored => Mirrored' BY <1>1, <1>2 DEF Mirrored, Loadable, In
  <1>8. Down' BY <1>1 DEF Down
  <1> QED BY <1>3, <1>4, <1>5, <1>6, <1>7, <1>8 DEF IInv

\* A creation begins with a record no outcome holds.
LEMMA BeginCreateStep ==
  ASSUME IInv, NEW s \in Shells, BeginCreate(s)
  PROVE  IInv' /\ (Mirrored => Mirrored')
  <1>1. /\ call'.kind = "create" /\ call'.rec = Create(s) /\ call'.step = "append"
        /\ call' \in Call /\ Create(s) \in Record /\ call.kind = "none" /\ ~down
        /\ Create(s) \notin applied /\ applied' = applied \cup {Create(s)}
        /\ refused' = refused \ {Create(s)} /\ Create(s).run = 0
        /\ UNCHANGED <<journal, covered, acked, down, crashes>>
    <2>1. Len(file) \in Nat BY DEF IInv, Types, TypeOK
    <2>2. Create(s) \in Record BY JournalAssumption DEF Create, Record
    <2> QED
      BY <2>1, <2>2 DEF BeginCreate, Begin, Create, Call, Calls, Steps, Item
  <1>2. Types' BY <1>1 DEF IInv, Types, TypeOK, journal, Item
  <1>3. CallShape' BY <1>1 DEF IInv, CallShape, Acknowledged, In, journal
  <1>4. Acknowledged' BY <1>1 DEF IInv, Acknowledged, AckedSurvives, journal
  <1>5. Excluded' BY <1>1 DEF IInv, Excluded, In, journal
  <1>6. Mirrored => Mirrored' BY <1>1 DEF IInv, Mirrored, Loadable, In, journal
  <1>7. Down' BY DEF Down, BeginCreate, Begin
  <1> QED BY <1>2, <1>3, <1>4, <1>5, <1>6, <1>7 DEF IInv

\* A start begins with a record no outcome holds.
LEMMA BeginStartStep ==
  ASSUME IInv, NEW s \in Shells, NEW n \in 1..MaxRun, BeginStart(s, n)
  PROVE  IInv' /\ (Mirrored => Mirrored')
  <1>1. /\ call'.kind = "start" /\ call'.rec = Start(s, n) /\ call'.step = "append"
        /\ call' \in Call /\ Start(s, n) \in Record /\ call.kind = "none" /\ ~down
        /\ Start(s, n) \notin applied /\ applied' = applied \cup {Start(s, n)}
        /\ Start(s, n).run > 0
        /\ UNCHANGED <<journal, covered, acked, refused, down, crashes>>
    <2>1. Len(file) \in Nat BY DEF IInv, Types, TypeOK
    <2>2. Start(s, n) \in Record /\ Start(s, n).run > 0
      BY JournalAssumption DEF Start, Record
    <2> QED
      BY <2>1, <2>2 DEF BeginStart, Begin, NextRun, Call, Calls, Steps, Item
  <1>2. Types' BY <1>1 DEF IInv, Types, TypeOK, journal, Item
  <1>3. CallShape' BY <1>1 DEF IInv, CallShape, Acknowledged, In, journal
  <1>4. Acknowledged' BY <1>1 DEF IInv, Acknowledged, AckedSurvives, journal
  <1>5. Excluded' BY <1>1 DEF IInv, Excluded, In, journal
  <1>6. Mirrored => Mirrored' BY <1>1 DEF IInv, Mirrored, Loadable, In, journal
  <1>7. Down' BY DEF Down, BeginStart, Begin
  <1> QED BY <1>2, <1>3, <1>4, <1>5, <1>6, <1>7 DEF IInv

\* Any outcome satisfies what was required of all.
LEMMA CrashStep ==
  ASSUME IInv, NEW left \in stable, Crash(left)
  PROVE  IInv' /\ (Mirrored => Mirrored')
  <1>1. Types'
    <2>1. call' \in Call /\ call'.kind = "none"
      BY DEF Crash, Idle, Call, Calls, Steps, Item
    <2>2. crashes' \in Nat /\ left \in Seq(Item) /\ Len(left) <= MaxRecords
      BY DEF IInv, Types, TypeOK, Crash
    <2> QED BY <2>1, <2>2, EmptyFile DEF IInv, Types, TypeOK, Crash
  <1>2. CallShape'
    BY EmptyFile DEF IInv, Types, TypeOK, CallShape, In, Before, Call, Item,
      Crash, Idle
  <1>3. Acknowledged'
    BY EmptyFile DEF IInv, Types, TypeOK, CallShape, In, Acknowledged,
      AckedSurvives, Call, Item, Crash, Idle
  <1>4. Excluded'
    BY EmptyFile DEF IInv, Types, TypeOK, CallShape, In, Excluded, Before,
      Call, Item, Crash, Idle
  <1>5. Mirrored => Mirrored'
    BY EmptyFile DEF IInv, Types, TypeOK, CallShape, In, Mirrored, Loadable,
      Before, Call, Item, Crash, Idle
  <1>6. Down' BY DEF Down, Crash
  <1> QED BY <1>1, <1>2, <1>3, <1>4, <1>5, <1>6 DEF IInv

-----------------------------------------------------------------------------
\* The invariant is inductive, and only clear_state's failed synchronisation makes
\* memory and file differ; the next one that succeeds and a boot end that.
LEMMA NextStep ==
  ASSUME IInv, [Next]_vars
  PROVE  /\ IInv'
         /\ Mirrored => Mirrored' \/ ClearSyncFails
         /\ Boot \/ ClearSyncs => Mirrored'
  <1>1. CASE Appending
    BY <1>1, AppendRefusedStep, WriteSucceedsStep, WriteFailsStep, SyncSucceedsStep,
       SyncFailsStep, RollbackTruncatesStep, RollbackSyncsStep, RollbackFailsStep,
       BootStep, ClearSyncsStep
    DEF Appending
  <1>2. CASE Checkpointing
    BY <1>2, SaveSucceedsStep, SaveFailsStep, StoreSucceedsStep, StoreFailsStep,
       TruncatesStep, TruncateFailsStep, ClearSyncsStep, ClearSyncFailsStep, BootStep
    DEF Checkpointing
  <1>3. CASE UNCHANGED vars
    <2>1. IInv' /\ (Mirrored => Mirrored')
      BY <1>3 DEF vars, IInv, Types, TypeOK, CallShape, In, Before, Acknowledged,
                  AckedSurvives, Excluded, Mirrored, Loadable, Down
    <2> QED BY <2>1, BootStep, ClearSyncsStep
  <1> QED
    BY <1>1, <1>2, <1>3, BeginCreateStep, BeginStartStep, BeginCheckpointStep,
       CrashStep, BootStep, BootCutShortStep, ClearSyncsStep
    DEF Next


-----------------------------------------------------------------------------
(* What a start in the file builds on.                                     *)

\* A file whose starts build on what comes before them or on what was saved.
Grounded(c, saved) ==
  \A i \in DOMAIN c :
    /\ c[i] # Garbage
    /\ c[i].run > 0 =>
         /\ Create(c[i].shell) \in saved \cup {c[j] : j \in 1..(i - 1)}
         /\ \A n \in 1..(c[i].run - 1) :
              Start(c[i].shell, n) \in saved \cup {c[j] : j \in 1..(i - 1)}

\* The stores hold nothing that the registry has not, and a record in memory is
\* in the file or in the stores, whichever calls failed; so a record that follows
\* those in memory finds what it builds on.
Kept ==
  /\ covered \subseteq applied
  /\ Range(records) \subseteq applied
  /\ Range(records) \subseteq covered \cup Range(file)
  /\ In({"sync", "rollback"}) => Range(records) \subseteq covered \cup Range(Before)
  /\ call.kind = "create" => call.rec \notin covered /\ call.rec \notin Range(records)
  /\ BuildsOnKept

\* BuildsOnKept, file by file.
LEMMA BuildsOn == BuildsOnKept <=> \A c \in stable : Grounded(c, covered)
  BY DEF BuildsOnKept, Grounded

\* Saving more takes no ground away, and the empty file needs none.
LEMMA StaysGrounded ==
  ASSUME NEW saved, NEW more, saved \subseteq more
  PROVE  /\ \A c : Grounded(c, saved) => Grounded(c, more)
         /\ Grounded(<<>>, saved)
  <1>1. DOMAIN <<>> = {} OBVIOUS
  <1> QED BY <1>1 DEF Grounded

\* Outcomes that were possible before, or an emptied file, keep their ground.
LEMMA NothingNew ==
  ASSUME Kept, stable' \subseteq stable \cup {<<>>}, covered \subseteq covered'
  PROVE  BuildsOnKept'
  <1>1. \A c \in stable : Grounded(c, covered) BY BuildsOn DEF Kept
  <1>2. \A c \in stable' : Grounded(c, covered') BY <1>1, StaysGrounded
  <1> QED BY <1>2 DEF BuildsOnKept, Grounded

\* An item is the creation of its Shell or the start of one of its runs.
LEMMA ItemIs ==
  ASSUME NEW x \in Item PROVE x = [shell |-> x.shell, run |-> x.run]
  BY DEF Item, Record, Garbage

\* A record that continues a valid sequence finds in it what it builds on.
LEMMA FollowsValid ==
  ASSUME NEW q \in Seq(Item), NEW r \in Item, ValidSequence(Append(q, r)), r.run > 0,
         NEW known, Range(q) \subseteq known
  PROVE  /\ Create(r.shell) \in known
         /\ \A n \in 1..(r.run - 1) : Start(r.shell, n) \in known
  <1> DEFINE a == Append(q, r)
             k == Len(q) + 1
  <1>1. /\ DOMAIN a = 1..k /\ a[k] = r /\ k \in DOMAIN a /\ k - 1 = Len(q)
        /\ \A j \in 1..(k - 1) : a[j] = q[j] /\ q[j] \in Item /\ q[j] \in Range(q)
    BY AppendProperties DEF Range
  <1>2. \A j \in 1..(k - 1) :
           a[j] \in known /\ a[j] = [shell |-> a[j].shell, run |-> a[j].run]
    BY <1>1, ItemIs
  <1> HIDE DEF a, k
  <1>3. /\ \E j \in 1..(k - 1) : a[j] = Create(r.shell)
        /\ \A n \in 1..(r.run - 1) :
             \E j \in 1..(k - 1) : a[j].shell = r.shell /\ a[j].run = n
    BY <1>1 DEF ValidSequence, a
  <1>4. Create(r.shell) \in known BY <1>2, <1>3
  <1>5. ASSUME NEW n \in 1..(r.run - 1) PROVE Start(r.shell, n) \in known
    <2>1. PICK j \in 1..(k - 1) : a[j].shell = r.shell /\ a[j].run = n BY <1>3
    <2> QED BY <1>2, <2>1 DEF Start
  <1> QED BY <1>4, <1>5

\* An empty state directory holds nothing.
LEMMA KeptInit == Init => Kept
  <1> SUFFICES ASSUME Init PROVE Kept OBVIOUS
  <1>1. BuildsOnKept BY BuildsOn, StaysGrounded DEF Init
  <1> QED BY <1>1, EmptyFile DEF Init, Kept, In, Idle

\* A written record follows those in memory.
LEMMA KeptWrite ==
  ASSUME IInv, Kept, WriteSucceeds
  PROVE  Kept'
  <1> DEFINE new == Append(file, call.rec)
  <1>1. /\ call.kind \in {"create", "start"} /\ call.rec \in Record /\ call.step = "append"
        /\ ~failed /\ ~torn /\ ~down /\ file \in Seq(Item) /\ records \in Seq(Record)
        /\ ValidSequence(Append(records, call.rec)) /\ file \in stable
    BY DEF WriteSucceeds, Running, Admissible, IInv, Types, TypeOK, CallShape, In
  <1>2. /\ new \in Seq(Item) /\ Len(new) = Len(file) + 1
        /\ Range(new) = Range(file) \cup {call.rec}
        /\ SubSeq(new, 1, Len(file)) = file
        /\ DOMAIN new = 1..(Len(file) + 1) /\ new[Len(file) + 1] = call.rec
        /\ \A i \in 1..Len(file) : new[i] = file[i]
    BY <1>1, Appended, AppendProperties DEF Item
  <1>3. /\ file' = new /\ stable' = stable \cup {new}
        /\ UNCHANGED <<records, applied, covered>>
        /\ call'.kind = call.kind /\ call'.rec = call.rec
        /\ SubSeq(file', 1, call'.length) = file
    BY <1>1, <1>2 DEF WriteSucceeds, registry, IInv, Types, TypeOK, Call
  <1>4. Grounded(new, covered)
    <2> SUFFICES ASSUME NEW i \in DOMAIN new
                 PROVE  /\ new[i] # Garbage
                        /\ new[i].run > 0 =>
                             /\ Create(new[i].shell) \in covered \cup {new[j] : j \in 1..(i - 1)}
                             /\ \A n \in 1..(new[i].run - 1) :
                                  Start(new[i].shell, n) \in
                                    covered \cup {new[j] : j \in 1..(i - 1)}
      BY DEF Grounded
    <2>1. Grounded(file, covered) BY <1>1, BuildsOn DEF Kept
    <2>2. CASE i \in 1..Len(file)
      <3>1. {new[j] : j \in 1..(i - 1)} = {file[j] : j \in 1..(i - 1)}
        BY <1>1, <1>2, <2>2
      <3>2. i \in DOMAIN file /\ new[i] = file[i] BY <1>1, <1>2, <2>2
      <3> QED BY <2>1, <3>1, <3>2 DEF Grounded
    <2>3. CASE i = Len(file) + 1
      <3>1. {new[j] : j \in 1..(i - 1)} = Range(file)
        BY <1>1, <1>2, <2>3 DEF Range
      <3>2. Range(records) \subseteq covered \cup Range(file) BY DEF Kept
      <3>3. records \in Seq(Item) BY <1>1 DEF Item
      <3>4. call.rec \in Item /\ call.rec # Garbage /\ new[i] = call.rec
        <4>1. ValidSequence(Append(records, call.rec)) BY <1>1
        <4>2. Len(records) + 1 \in DOMAIN Append(records, call.rec)
              /\ Append(records, call.rec)[Len(records) + 1] = call.rec
          BY <1>1
        <4>3. call.rec # Garbage BY <4>1, <4>2 DEF ValidSequence
        <4> QED BY <1>1, <1>2, <2>3, <4>3 DEF Item
      <3> QED BY <1>1, <3>1, <3>2, <3>3, <3>4, FollowsValid
    <2> QED BY <1>1, <1>2, <2>2, <2>3
  <1> HIDE DEF new
  <1>5. \A c \in stable' : Grounded(c, covered')
    BY <1>3, <1>4, BuildsOn DEF Kept
  <1>6. BuildsOnKept' BY <1>5 DEF BuildsOnKept, Grounded
  <1>7. Range(records)' = Range(records) BY <1>3 DEF Range
  <1>8. Range(file)' = Range(new) BY <1>3 DEF Range
  <1>9. Range(Before)' = Range(file) BY <1>3 DEF Range, Before
  <1>10. Range(records) \subseteq applied /\ covered \subseteq applied
         /\ Range(records) \subseteq covered \cup Range(file)
         /\ call.kind = "create" => call.rec \notin covered /\ call.rec \notin Range(records)
    BY DEF Kept
  <1> QED BY <1>2, <1>3, <1>6, <1>7, <1>8, <1>9, <1>10 DEF Kept

\* The other system calls of an append.
LEMMA KeptAppend ==
  ASSUME IInv, Kept, Appending
  PROVE  Kept'
  <1> USE DEF Kept, In, Before, Running, Goto, journal, registry, Range
  <1>1. CASE AppendRefused
    <2>1. BuildsOnKept' BY <1>1, NothingNew DEF AppendRefused, AppendFails, Refuse
    <2> QED BY <1>1, <2>1
      DEF AppendRefused, AppendFails, Refuse, Idle, IInv, Types, TypeOK, Call, CallShape
  <1>2. CASE WriteSucceeds BY <1>2, KeptWrite
  <1>3. CASE WriteFails
    <2>1. BuildsOnKept' BY <1>3, NothingNew DEF WriteFails
    <2>2. file \in Seq(Item) /\ SubSeq(file, 1, Len(file)) = file
      BY Appended DEF IInv, Types, TypeOK, Item
    <2>3. /\ call'.length = Len(file) /\ call'.kind = call.kind /\ call'.rec = call.rec
          /\ UNCHANGED <<file, records, covered, applied>>
      BY <1>3 DEF WriteFails, IInv, Types, TypeOK, Call
    <2>4. /\ Range(file)' = Range(file) /\ Range(records)' = Range(records)
          /\ Range(Before)' = Range(file)
      BY <2>2, <2>3
    <2> HIDE DEF Range, Before
    <2> QED BY <2>1, <2>3, <2>4
  <1>4. CASE SyncSucceeds
    <2>1. BuildsOnKept'
      BY <1>4, NothingNew DEF SyncSucceeds, IInv, Types
    <2>2. /\ call.rec \in Range(file) /\ call.rec \in applied /\ records \in Seq(Item)
          /\ call.rec \in Item
      BY <1>4 DEF SyncSucceeds, IInv, CallShape, Types, TypeOK, Call, Item
    <2>3. Range(Append(records, call.rec)) = Range(records) \cup {call.rec}
      BY <2>2, Appended
    <2> HIDE DEF Range
    <2>4. Range(records)' = Range(records) \cup {call.rec} /\ Range(file)' = Range(file)
      BY <1>4, <2>3 DEF SyncSucceeds, Range
    <2> QED BY <1>4, <2>1, <2>2, <2>4 DEF SyncSucceeds, Idle
  <1>5. CASE SyncFails
    <2>1. BuildsOnKept' BY <1>5, NothingNew DEF SyncFails
    <2>2. /\ call'.length = call.length /\ call'.kind = call.kind /\ call'.rec = call.rec
          /\ In({"sync", "rollback"}) /\ UNCHANGED <<file, records, covered, applied>>
      BY <1>5 DEF SyncFails, IInv, Types, TypeOK, Call
    <2>3. /\ Range(file)' = Range(file) /\ Range(records)' = Range(records)
          /\ Range(Before)' = Range(Before)
      BY <2>2
    <2> HIDE DEF Range, Before
    <2> QED BY <2>1, <2>2, <2>3
  <1>6. CASE RollbackTruncates
    <2>1. BuildsOnKept'
      BY <1>6, NothingNew DEF RollbackTruncates, IInv, CallShape
    <2>2. Range(file)' = Range(Before) /\ Range(records)' = Range(records)
      BY <1>6 DEF RollbackTruncates
    <2> HIDE DEF Range
    <2> QED BY <1>6, <2>1, <2>2 DEF RollbackTruncates, IInv, Types, TypeOK, Call
  <1>7. CASE RollbackSyncs
    <2>1. BuildsOnKept'
      BY <1>7, NothingNew DEF RollbackSyncs, AppendFails, Refuse, IInv, Types
    <2> QED BY <1>7, <2>1
      DEF RollbackSyncs, AppendFails, Refuse, Idle, IInv, Types, TypeOK, Call, CallShape
  <1>8. CASE RollbackFails
    <2>1. BuildsOnKept' BY <1>8, NothingNew DEF RollbackFails, AppendFails, Refuse
    <2> QED BY <1>8, <2>1
      DEF RollbackFails, AppendFails, Refuse, Idle, IInv, Types, TypeOK, Call, CallShape
  <1> QED BY <1>1, <1>2, <1>3, <1>4, <1>5, <1>6, <1>7, <1>8 DEF Appending

\* The checkpoint saves all that is in memory before it empties the file.
LEMMA KeptCheckpoint ==
  ASSUME IInv, Kept, Checkpointing
  PROVE  Kept'
  <1> USE DEF Kept, In, Before, Running, Goto, journal, registry, Range
  <1>1. CASE SaveSucceeds
    <2>1. BuildsOnKept' BY <1>1, NothingNew DEF SaveSucceeds
    <2>2. call.kind # "create" BY <1>1 DEF SaveSucceeds, IInv, CallShape
    <2> QED BY <1>1, <2>1, <2>2 DEF SaveSucceeds, IInv, Types, TypeOK, Call
  <1>2. CASE SaveFails \/ StoreFails \/ TruncateFails \/ ClearSyncFails
    <2>1. BuildsOnKept'
      BY <1>2, NothingNew DEF SaveFails, StoreFails, TruncateFails, ClearSyncFails, Refuse
    <2>2. call.kind # "create" /\ call'.kind = "none"
      BY <1>2 DEF SaveFails, StoreFails, TruncateFails, ClearSyncFails, Refuse, Idle,
                  IInv, CallShape
    <2>3. UNCHANGED <<file, records, covered, applied>>
      BY <1>2, <2>2 DEF SaveFails, StoreFails, TruncateFails, ClearSyncFails, Refuse
    <2> QED BY <2>1, <2>2, <2>3
  <1>3. CASE StoreSucceeds
    <2>1. BuildsOnKept' BY <1>3, NothingNew DEF StoreSucceeds
    <2> QED BY <1>3, <2>1, ZenonT(90) DEF StoreSucceeds, IInv, Types, TypeOK, Call
  <1>4. CASE Truncates
    <2>1. BuildsOnKept' BY <1>4, NothingNew DEF Truncates
    <2>2. covered = applied /\ call.kind # "create"
      BY <1>4 DEF Truncates, IInv, CallShape
    <2> QED BY <1>4, <2>1, <2>2 DEF Truncates, IInv, Types, TypeOK, Call
  <1>5. CASE ClearSyncs
    <2>1. file = <<>> BY <1>5 DEF ClearSyncs, IInv, CallShape
    <2>2. BuildsOnKept' BY <1>5, <2>1, NothingNew DEF ClearSyncs
    <2>3. Range(records') = {} BY <1>5, EmptyFile DEF ClearSyncs
    <2> QED BY <1>5, <2>2, <2>3 DEF ClearSyncs, Idle
  <1> QED BY <1>1, <1>2, <1>3, <1>4, <1>5 DEF Checkpointing

\* What a start builds on is kept by every step.
LEMMA KeptStep == IInv /\ Kept /\ [Next]_vars => Kept'
  <1> SUFFICES ASSUME IInv, Kept, [Next]_vars PROVE Kept' OBVIOUS
  <1> USE DEF Kept, In, Before, journal, registry, Range
  <1>1. ASSUME NEW s \in Shells, BeginCreate(s) PROVE Kept'
    <2>1. BuildsOnKept' BY <1>1, NothingNew DEF BeginCreate, Begin
    <2> QED BY <1>1, <2>1 DEF BeginCreate, Begin
  <1>2. ASSUME NEW s \in Shells, NEW n \in 1..MaxRun, BeginStart(s, n) PROVE Kept'
    <2>1. BuildsOnKept' BY <1>2, NothingNew DEF BeginStart, Begin
    <2> QED BY <1>2, <2>1 DEF BeginStart, Begin
  <1>3. CASE BeginCheckpoint
    <2>1. BuildsOnKept' BY <1>3, NothingNew DEF BeginCheckpoint, Begin
    <2> QED BY <1>3, <2>1 DEF BeginCheckpoint, Begin
  <1>4. ASSUME NEW left \in stable, Crash(left) PROVE Kept'
    <2>1. BuildsOnKept' BY <1>4, NothingNew DEF Crash
    <2>2. Range(records') = {} BY <1>4, EmptyFile DEF Crash
    <2> QED BY <1>4, <2>1, <2>2 DEF Crash, Idle
  <1>5. ASSUME Boot \/ \E left \in {file, <<>>} : BootCutShort(left) PROVE Kept'
    <2>1. file \in stable /\ records = <<>> /\ call.kind = "none"
      BY <1>5 DEF Boot, BootCutShort, IInv, Types, Down, CallShape
    <2>2. /\ stable' \subseteq stable \cup {<<>>} /\ covered \subseteq covered'
          /\ covered' = applied' /\ UNCHANGED <<records, call>>
      BY <1>5, <2>1 DEF Boot, BootCutShort
    <2>3. BuildsOnKept' BY <2>2, NothingNew
    <2>4. Range(records') = {} BY <2>1, <2>2, EmptyFile
    <2> QED BY <2>1, <2>2, <2>3, <2>4
  <1>6. CASE UNCHANGED vars
    <2>1. BuildsOnKept' BY <1>6, NothingNew DEF vars
    <2>2. UNCHANGED <<file, records, call, covered, applied>> BY <1>6 DEF vars
    <2>3. /\ Range(file)' = Range(file) /\ Range(records)' = Range(records)
          /\ Range(Before)' = Range(Before)
      BY <2>2
    <2>4. In({"sync", "rollback"})' = In({"sync", "rollback"}) BY <2>2
    <2> HIDE DEF Range, Before, In
    <2> QED BY <2>1, <2>2, <2>3, <2>4
  <1> QED BY <1>1, <1>2, <1>3, <1>4, <1>5, <1>6, KeptAppend, KeptCheckpoint DEF Next

\* Every reachable state is well typed and the file within its limit.
THEOREM TypeCorrect == Spec => []TypeOK
  <1>1. IInv => TypeOK BY DEF IInv, Types
  <1> QED BY <1>1, InitInv, NextStep, PTL DEF Spec

\* A creation or start that LocalShellJournal::append or the fallback of
\* handle_attach reported as done survives every crash.
THEOREM AcknowledgedSurvives == Spec => []AckedSurvives
  <1>1. IInv => AckedSurvives BY DEF IInv, Acknowledged
  <1> QED BY <1>1, InitInv, NextStep, PTL DEF Spec

\* A creation or start that was reported as failed does not come back, unless
\* the journal has marked its last append as ambiguous.
THEOREM RefusedIsOut == Spec => []RefusedStaysOut
  <1>1. IInv => RefusedStaysOut BY DEF IInv, Excluded, RefusedStaysOut
  <1> QED BY <1>1, InitInv, NextStep, PTL DEF Spec

\* While file and memory agree, load_at accepts whatever a crash leaves.  They
\* agree at first, and no failure of an append, of its rollback, of a checkpoint
\* and no crash ends that but the synchronisation that fails in clear_state
\* after the file was emptied; the next clear_state that succeeds, and the next
\* boot, restore it.
THEOREM OnlyClearSpoils ==
  Spec => /\ Mirrored
          /\ [](Mirrored => Loadable)
          /\ [][/\ Mirrored => Mirrored' \/ ClearSyncFails
                /\ Boot \/ ClearSyncs => Mirrored']_vars
  <1>1. Mirrored => Loadable BY DEF Mirrored
  <1>2. IInv /\ [Next]_vars =>
          [/\ Mirrored => Mirrored' \/ ClearSyncFails
           /\ Boot \/ ClearSyncs => Mirrored']_vars
    BY NextStep
  <1> QED BY <1>1, <1>2, InitInv, NextStep, PTL DEF Spec

\* What a start in the file builds on is in front of it or in the checkpointed
\* stores, whichever call of append, of the checkpoint or of clear_state failed.
THEOREM StartsBuildOnKept == Spec => []BuildsOnKept
  <1>1. Kept => BuildsOnKept BY DEF Kept
  <1> QED BY <1>1, InitInv, NextStep, KeptInit, KeptStep, PTL DEF Spec
=============================================================================
