------------------------- MODULE GenerationStoreProofs -------------------------
(* Theorems about GenerationStore, for every number of processes,            *)
(* generations, aborts and power losses.                                     *)
EXTENDS GenerationStore, TLAPS

\* A process is between __enter__ and __exit__ of the writer lock exactly when
\* it holds the lock.
OneWriter == \A p \in Process : pc[p] \in Inside <=> lock = p

\* What a call produces keeps the number it was staged for.
WriterInv ==
    \A p \in Process :
        /\ pc[p] \in {"write", "syncGenerations", "point"} =>
              \/ call[p] = "initialize" /\ current = NoGeneration
              \/ call[p] = "commit" /\ current \in 0..(MaxGeneration - 1)
        /\ pc[p] \in {"syncPointer", "return"} => current # NoGeneration

\* What a reader is loading is complete and not above CURRENT.
ReaderInv ==
    \A p \in Process :
        pc[p] = "loading" =>
            /\ base[p] # NoGeneration
            /\ base[p] <= current
            /\ Complete(gens[base[p]])

IInv == TypeOK /\ OneWriter /\ WriterInv /\ ReaderInv

-------------------------------------------------------------------------------
(* Directories                                                               *)

\* Removing files from a directory, or writing its next one, is again a
\* directory with the same log.
LEMMA DirectoryParts ==
    ASSUME NEW dir \in Directory
    PROVE  /\ Absent \in Directory
           /\ \A left \in Torn(dir) : left \in Directory /\ left.log = dir.log
           /\ \A next \in NextWrites(dir, InitializeOrder)
                             \cup NextWrites(dir, CommitOrder) :
                 next \in Directory /\ next.log = dir.log
<1>1. Absent \in Directory
  BY DEF Absent, Directory
<1>2. ASSUME NEW files \in SUBSET Files
      PROVE  /\ [dir EXCEPT !.files = files] \in Directory
             /\ [dir EXCEPT !.files = files].log = dir.log
  BY DEF Directory
<1>3. dir.files \subseteq Files
  BY DEF Directory
<1>4. ASSUME NEW left \in Torn(dir)
      PROVE  left \in Directory /\ left.log = dir.log
  <2>1. PICK rest \in SUBSET dir.files : left = [dir EXCEPT !.files = rest]
    BY DEF Torn
  <2> QED
    BY <1>2, <1>3, <2>1
<1>5. \A i \in 1..4 : InitializeOrder[i] \in Files /\ CommitOrder[i] \in Files
  BY DEF InitializeOrder, CommitOrder, Files, CoreFiles
<1>6. ASSUME NEW next \in NextWrites(dir, InitializeOrder)
      PROVE  next \in Directory /\ next.log = dir.log
  <2>1. PICK i \in 1..4 : next = [dir EXCEPT !.files = @ \cup {InitializeOrder[i]}]
    BY DEF NextWrites
  <2> QED
    BY <1>2, <1>3, <1>5, <2>1
<1>7. ASSUME NEW next \in NextWrites(dir, CommitOrder)
      PROVE  next \in Directory /\ next.log = dir.log
  <2>1. PICK i \in 1..4 : next = [dir EXCEPT !.files = @ \cup {CommitOrder[i]}]
    BY DEF NextWrites
  <2> QED
    BY <1>2, <1>3, <1>5, <2>1
<1> QED
  BY <1>1, <1>4, <1>6, <1>7

\* A changed entry keeps state/generations well typed.
LEMMA EntryTypes ==
    ASSUME TypeOK, NEW g \in Generation
    PROVE  /\ RemoveTree(g) =>
                 /\ gens' \in [Generation -> Directory]
                 /\ gensOnDisk' \in [Generation -> SUBSET Directory]
           /\ \A dir \in Directory : PutDirectory(g, dir) =>
                 /\ gens' \in [Generation -> Directory]
                 /\ gensOnDisk' \in [Generation -> SUBSET Directory]
<1>1. gens[g] \in Directory /\ gensOnDisk[g] \in SUBSET Directory
  BY DEF TypeOK
<1>2. Absent \in Directory /\ Torn(gens[g]) \in SUBSET Directory
  BY <1>1, DirectoryParts
<1>3. RemoveTree(g) =>
         /\ gens' \in [Generation -> Directory]
         /\ gensOnDisk' \in [Generation -> SUBSET Directory]
  BY <1>1, <1>2 DEF RemoveTree, TypeOK
<1>4. ASSUME NEW dir \in Directory, PutDirectory(g, dir)
      PROVE  /\ gens' \in [Generation -> Directory]
             /\ gensOnDisk' \in [Generation -> SUBSET Directory]
  BY <1>1, <1>4 DEF PutDirectory, TypeOK
<1> QED
  BY <1>3, <1>4

-------------------------------------------------------------------------------
(* The inductive invariant.  The definitions below only name places and      *)
(* frame conditions; every leaf needs them.                                   *)
USE DEF Goto, Leave, StayInside, Inside, Places, Calls, Outcomes,
        processVars, diskVars, countVars

\* Readers and the lock: nothing on disk changes.
LEMMA EntryStep ==
    ASSUME IInv, NEW p \in Process, 
           ReadPointer(p) \/ ReadGeneration(p) \/ Start(p) \/ Enter(p) \/ LockTimeout(p)
    PROVE  IInv'
<1> USE BoundsAssumption DEF IInv
<1>1. CASE ReadPointer(p)
  BY <1>1 DEF ReadPointer, TypeOK, OneWriter, WriterInv, ReaderInv, Valid, Pointer, Generation, NoGeneration
<1>2. CASE ReadGeneration(p)
  BY <1>2 DEF ReadGeneration, TypeOK, OneWriter, WriterInv, ReaderInv, Pointer, Directory
<1>3. CASE Start(p)
  BY <1>3 DEF Start, TypeOK, OneWriter, WriterInv, ReaderInv, Pointer
<1>4. CASE Enter(p)
  BY <1>4 DEF Enter, TypeOK, OneWriter, WriterInv, ReaderInv
<1>5. CASE LockTimeout(p)
  BY <1>5 DEF LockTimeout, TypeOK, OneWriter, WriterInv, ReaderInv
<1> QED
  BY <1>1, <1>2, <1>3, <1>4, <1>5

\* Recovery never touches a generation that a reader may be loading.
LEMMA RecoveryStep ==
    ASSUME IInv, NEW p \in Process, Recovery(p)
    PROVE  IInv'
<1> USE BoundsAssumption DEF IInv
<1>1. CASE SweepStaging(p)
  BY <1>1 DEF SweepStaging, TypeOK, OneWriter, WriterInv, ReaderInv, Absent, Directory
<1>2. CASE ScanRemove(p)
  <2>1. PICK g \in Generation : Unmarked(g) /\ RemoveTree(g)
    BY <1>2 DEF ScanRemove
  <2>2. TypeOK'
    BY <1>2, <2>1, EntryTypes DEF ScanRemove, TypeOK
  <2>3. ASSUME NEW q \in Process, pc[q] = "loading"
        PROVE  base[q] \in Generation /\ gens'[base[q]] = gens[base[q]]
    <3>1. base[q] \in Generation /\ Complete(gens[base[q]])
      BY <2>3 DEF ReaderInv, TypeOK, Pointer
    <3>2. base[q] # g
      BY <2>1, <3>1 DEF Unmarked, Marked, Complete, Files
    <3> QED
      BY <2>1, <3>1, <3>2 DEF RemoveTree, TypeOK
  <2> QED
    BY <1>2, <2>2, <2>3 DEF ScanRemove, OneWriter, WriterInv, ReaderInv
<1>3. CASE ScanRefuse(p)
  BY <1>3 DEF ScanRefuse, TypeOK, OneWriter, WriterInv, ReaderInv
<1>4. CASE ScanDone(p)
  BY <1>4 DEF ScanDone, TypeOK, OneWriter, WriterInv, ReaderInv
<1>5. CASE PointerRepair(p)
  <2>1. PICK newest \in CompleteGenerations :
           /\ \A g \in CompleteGenerations : g <= newest
           /\ ReplaceCurrent(newest)
    BY <1>5 DEF PointerRepair
  <2>2. newest \in Generation
    BY <2>1 DEF CompleteGenerations
  <2>3. TypeOK'
    BY <1>5, <2>1, <2>2 DEF PointerRepair, ReplaceCurrent, TypeOK, Pointer
  <2>4. OneWriter' /\ WriterInv'
    BY <1>5, <2>1, <2>2
    DEF PointerRepair, ReplaceCurrent, TypeOK, OneWriter, WriterInv, NoGeneration
  <2>5. ASSUME NEW q \in Process, pc[q] = "loading"
        PROVE  base[q] <= newest
    BY <2>1, <2>5 DEF ReaderInv, CompleteGenerations, TypeOK, Pointer
  <2>6. ReaderInv'
    BY <1>5, <2>1, <2>5 DEF PointerRepair, ReplaceCurrent, ReaderInv, TypeOK
  <2> QED
    BY <2>3, <2>4, <2>6
<1>6. CASE PointerRepairSync(p)
  BY <1>6 DEF PointerRepairSync, TypeOK, OneWriter, WriterInv, ReaderInv
<1>7. CASE PointerNone(p)
  BY <1>7 DEF PointerNone, TypeOK, OneWriter, WriterInv, ReaderInv
<1>8. CASE PointerKeep(p)
  BY <1>8 DEF PointerKeep, TypeOK, OneWriter, WriterInv, ReaderInv
<1>9. CASE AbandonRemove(p)
  <2>1. PICK g \in Generation : Abandoned(g) /\ RemoveTree(g)
    BY <1>9 DEF AbandonRemove
  <2>2. TypeOK'
    BY <1>9, <2>1, EntryTypes DEF AbandonRemove, TypeOK
  <2>3. ASSUME NEW q \in Process, pc[q] = "loading"
        PROVE  base[q] \in Generation /\ gens'[base[q]] = gens[base[q]]
    <3>1. base[q] \in Generation /\ base[q] <= current
      BY <2>3 DEF ReaderInv, TypeOK, Pointer
    <3>2. base[q] # g
      BY <2>1, <3>1 DEF Abandoned, Generation, TypeOK, Pointer
    <3> QED
      BY <2>1, <3>1, <3>2 DEF RemoveTree, TypeOK
  <2> QED
    BY <1>9, <2>2, <2>3 DEF AbandonRemove, OneWriter, WriterInv, ReaderInv
<1>10. CASE AbandonDone(p)
  BY <1>10 DEF AbandonDone, TypeOK, OneWriter, WriterInv, ReaderInv
<1> QED
  BY <1>1, <1>2, <1>3, <1>4, <1>5, <1>6, <1>7, <1>8, <1>9, <1>10 DEF Recovery

\* A call decides what to do under the lock.
LEMMA DecisionStep ==
    ASSUME IInv, NEW p \in Process, Decision(p)
    PROVE  IInv'
<1> USE BoundsAssumption DEF IInv
<1>1. CASE RecoverReturn(p)
  BY <1>1 DEF RecoverReturn, TypeOK, OneWriter, WriterInv, ReaderInv
<1>2. CASE InitializeReturn(p)
  BY <1>2 DEF InitializeReturn, TypeOK, OneWriter, WriterInv, ReaderInv
<1>3. CASE PointerRefuse(p)
  BY <1>3 DEF PointerRefuse, TypeOK, OneWriter, WriterInv, ReaderInv
<1>4. CASE InitializeStage(p)
  <2>1. [files |-> {}, log |-> <<operations + 1>>] \in Directory
    BY <1>4 DEF InitializeStage, TypeOK, Directory
  <2>2. 0 \in Generation
    BY DEF Generation
  <2>3. TypeOK'
    BY <1>4, <2>1, <2>2, EntryTypes DEF InitializeStage, TypeOK
  <2>4. OneWriter' /\ WriterInv'
    BY <1>4 DEF InitializeStage, TypeOK, OneWriter, WriterInv
  <2>5. ReaderInv'
    BY <1>4 DEF InitializeStage, TypeOK, ReaderInv, Pointer, Generation, NoGeneration
  <2> QED
    BY <2>3, <2>4, <2>5
<1>5. CASE CommitStale(p)
  BY <1>5 DEF CommitStale, TypeOK, OneWriter, WriterInv, ReaderInv
<1>6. CASE CommitReject(p)
  BY <1>6 DEF CommitReject, TypeOK, OneWriter, WriterInv, ReaderInv
<1>7. CASE CommitStage(p)
  <2>1. current \in Generation
    BY <1>7 DEF CommitStage, Valid, TypeOK, Pointer
  <2>2. gens[current].log \in Seq(1..MaxOperations)
    BY <2>1 DEF TypeOK, Directory
  <2>3. operations + 1 \in 1..MaxOperations
    BY <1>7 DEF CommitStage, TypeOK
  <2>4. Append(gens[current].log, operations + 1) \in Seq(1..MaxOperations)
    BY <2>2, <2>3
  <2>5. staging' \in Directory /\ operations' \in 0..MaxOperations
    BY <1>7, <2>3, <2>4 DEF CommitStage, Directory
  <2>6. TypeOK'
    BY <1>7, <2>5 DEF CommitStage, TypeOK
  <2>7. current \in 0..(MaxGeneration - 1)
    BY <1>7, <2>1 DEF CommitStage, Generation
  <2> QED
    BY <1>7, <2>6, <2>7 DEF CommitStage, TypeOK, OneWriter, WriterInv, ReaderInv
<1> QED
  BY <1>1, <1>2, <1>3, <1>4, <1>5, <1>6, <1>7 DEF Decision

\* A generation is produced where no reader can be.
LEMMA ProductionStep ==
    ASSUME IInv, NEW p \in Process, Production(p)
    PROVE  IInv'
<1> USE BoundsAssumption DEF IInv
<1>1. CASE InitializeWrite(p)
  <2>1. PICK dir \in NextWrites(gens[0], InitializeOrder) : PutDirectory(0, dir)
    BY <1>1 DEF InitializeWrite
  <2>2. 0 \in Generation
    BY DEF Generation
  <2>3. dir \in Directory
    BY <2>1, <2>2, DirectoryParts DEF TypeOK
  <2>4. TypeOK'
    BY <1>1, <2>1, <2>2, <2>3, EntryTypes DEF InitializeWrite, TypeOK
  <2>5. current = NoGeneration
    BY <1>1 DEF InitializeWrite, WriterInv
  <2> QED
    BY <1>1, <2>4, <2>5
    DEF InitializeWrite, TypeOK, OneWriter, WriterInv, ReaderInv, Pointer, Generation, NoGeneration
<1>2. CASE InitializeSealed(p)
  BY <1>2 DEF InitializeSealed, TypeOK, OneWriter, WriterInv, ReaderInv
<1>3. CASE CommitWrite(p)
  <2>1. staging' \in Directory
    BY <1>3, DirectoryParts DEF CommitWrite, TypeOK
  <2> QED
    BY <1>3, <2>1 DEF CommitWrite, TypeOK, OneWriter, WriterInv, ReaderInv
<1>4. CASE CommitPublish(p)
  <2>1. Target(p) \in Generation /\ Target(p) = current + 1
    BY <1>4 DEF CommitPublish, WriterInv, Target, Generation
  <2>2. TypeOK'
    BY <1>4, <2>1, EntryTypes DEF CommitPublish, TypeOK, Absent, Directory
  <2>3. OneWriter' /\ WriterInv'
    BY <1>4 DEF CommitPublish, TypeOK, OneWriter, WriterInv
  <2>4. ReaderInv'
    BY <1>4, <2>1
    DEF CommitPublish, PutDirectory, TypeOK, ReaderInv, Pointer, Generation, NoGeneration
  <2> QED
    BY <2>2, <2>3, <2>4
<1>5. CASE SyncGenerations(p)
  BY <1>5 DEF SyncGenerations, TypeOK, OneWriter, WriterInv, ReaderInv
<1>6. CASE PointCurrent(p)
  BY <1>6 DEF PointCurrent, TypeOK, OneWriter, WriterInv, ReaderInv, Target, ReplaceCurrent, Generation, Pointer, NoGeneration
<1>7. CASE SyncPointer(p)
  BY <1>7 DEF SyncPointer, TypeOK, OneWriter, WriterInv, ReaderInv
<1>8. CASE Return(p)
  BY <1>8 DEF Return, TypeOK, OneWriter, WriterInv, ReaderInv, Pointer, Directory
<1> QED
  BY <1>1, <1>2, <1>3, <1>4, <1>5, <1>6, <1>7, <1>8 DEF Production

\* A call that ends half-way leaves the readers' generations alone.
LEMMA AbortStep ==
    ASSUME IInv, NEW p \in Process, Abort(p) \/ AbortRemoval(p)
    PROVE  IInv'
<1> USE BoundsAssumption DEF IInv
<1>1. CASE Abort(p)
  BY <1>1 DEF Abort, TypeOK, OneWriter, WriterInv, ReaderInv
<1>2. CASE AbortRemoval(p)
  <2>1. PICK g \in Generation :
           /\ \/ pc[p] = "scan" /\ Unmarked(g)
              \/ pc[p] = "abandon" /\ Abandoned(g)
           /\ \E left \in Torn(gens[g]) :
                 /\ gens' = [gens EXCEPT ![g] = left]
                 /\ gensOnDisk' = [gensOnDisk EXCEPT ![g] = @ \cup Torn(gens[g])]
    BY <1>2 DEF AbortRemoval
  <2>2. PICK left \in Torn(gens[g]) :
           /\ gens' = [gens EXCEPT ![g] = left]
           /\ gensOnDisk' = [gensOnDisk EXCEPT ![g] = @ \cup Torn(gens[g])]
    BY <2>1
  <2>3. left \in Directory /\ Torn(gens[g]) \in SUBSET Directory
    BY <2>2, DirectoryParts DEF TypeOK
  <2>4. /\ gens' \in [Generation -> Directory]
        /\ gensOnDisk' \in [Generation -> SUBSET Directory]
    BY <2>2, <2>3 DEF TypeOK
  <2>5. TypeOK'
    BY <1>2, <2>4 DEF AbortRemoval, TypeOK
  <2>6. ASSUME NEW q \in Process, pc[q] = "loading"
        PROVE  base[q] \in Generation /\ gens'[base[q]] = gens[base[q]]
    <3>1. /\ base[q] \in Generation /\ base[q] <= current
          /\ Complete(gens[base[q]])
      BY <2>6 DEF ReaderInv, TypeOK, Pointer
    <3>2. base[q] # g
      BY <2>1, <3>1
      DEF Unmarked, Marked, Complete, Files, Abandoned, Generation, TypeOK, Pointer
    <3> QED
      BY <2>2, <3>1, <3>2 DEF TypeOK
  <2> QED
    BY <1>2, <2>5, <2>6 DEF AbortRemoval, TypeOK, OneWriter, WriterInv, ReaderInv
<1> QED
  BY <1>1, <1>2

\* After a power loss no process is left inside or reading.
LEMMA PowerLossStep ==
    ASSUME IInv, PowerLoss
    PROVE  IInv'
<1> USE BoundsAssumption DEF IInv
<1>1. PICK found \in [{g \in Generation : gensOnDisk[g] # {gens[g]}} ->
                         UNION {gensOnDisk[g] :
                                  g \in {h \in Generation : gensOnDisk[h] # {gens[h]}}}] :
         /\ \A g \in {h \in Generation : gensOnDisk[h] # {gens[h]}} :
               found[g] \in gensOnDisk[g]
         /\ gens' = [g \in Generation |->
                        IF g \in {h \in Generation : gensOnDisk[h] # {gens[h]}}
                        THEN found[g] ELSE gens[g]]
  BY DEF PowerLoss
<1>2. gens' \in [Generation -> Directory]
  BY <1>1 DEF TypeOK
<1>3. gensOnDisk' \in [Generation -> SUBSET Directory]
  BY <1>2 DEF PowerLoss
<1>4. staging' \in Directory
  BY DirectoryParts DEF PowerLoss, TypeOK
<1>5. current' \in Pointer /\ currentOnDisk' \in SUBSET Pointer
  BY DEF PowerLoss, TypeOK
<1>6. base' \in [Process -> Pointer]
  BY DEF PowerLoss, TypeOK, Pointer
<1>7. TypeOK'
  BY <1>2, <1>3, <1>4, <1>5, <1>6 DEF PowerLoss, TypeOK
<1>8. OneWriter' /\ WriterInv' /\ ReaderInv'
  BY DEF PowerLoss, OneWriter, WriterInv, ReaderInv
<1> QED
  BY <1>7, <1>8

\* A project directory that does not exist yet satisfies the invariant.
LEMMA InitIInv == Init => IInv
<1> USE BoundsAssumption DEF Init
<1>1. Init => TypeOK
  BY DEF TypeOK, Absent, Directory, Pointer
<1>2. Init => OneWriter /\ WriterInv /\ ReaderInv
  BY DEF OneWriter, WriterInv, ReaderInv
<1> QED
  BY <1>1, <1>2 DEF IInv

\* Every step of a call, of a reader or of a failure preserves the invariant.
LEMMA NextIInv == IInv /\ [Next]_vars => IInv'
<1> SUFFICES ASSUME IInv, [Next]_vars
             PROVE  IInv'
  OBVIOUS
<1>1. CASE UNCHANGED vars
  BY <1>1
  DEF vars, IInv, TypeOK, OneWriter, WriterInv, ReaderInv, Complete
<1>2. ASSUME NEW p \in Process, ReadPointer(p) \/ Start(p)
      PROVE  IInv'
  BY <1>2, EntryStep
<1>3. ASSUME NEW p \in Process, Progress(p)
      PROVE  IInv'
  BY <1>3, EntryStep, RecoveryStep, DecisionStep, ProductionStep DEF Progress
<1>4. ASSUME NEW p \in Process, Abort(p) \/ AbortRemoval(p)
      PROVE  IInv'
  BY <1>4, AbortStep
<1> QED
  BY <1>1, <1>2, <1>3, <1>4, PowerLossStep DEF Next

-------------------------------------------------------------------------------
(* Theorems                                                                  *)

\* The invariant holds in every state of initialize(), commit() and recover().
LEMMA Invariance == Spec => []IInv
<1>1. Init => IInv
  BY InitIInv
<1>2. IInv /\ [Next]_vars => IInv'
  BY NextIInv
<1> QED
  BY <1>1, <1>2, PTL DEF Spec

\* Type correctness of the store's state.
THEOREM TypeCorrect == Spec => []TypeOK
<1>1. IInv => TypeOK
  BY DEF IInv
<1> QED
  BY <1>1, Invariance, PTL

\* The writer lock admits one call at a time, although calls time out, are
\* aborted and lose power while they hold it (_GenerationWriterLock).
THEOREM WriterExclusion ==
    Spec => [](\A p, q \in Process : pc[p] \in Inside /\ pc[q] \in Inside => p = q)
<1>1. IInv => \A p, q \in Process : pc[p] \in Inside /\ pc[q] \in Inside => p = q
  BY DEF IInv, OneWriter
<1> QED
  BY <1>1, Invariance, PTL

\* load_current() runs without the lock and still never finds its generation
\* incomplete, whatever recoveries, aborts and power losses happen.
THEOREM ReadersSafe == Spec => []ReadersFindTheirGeneration
<1>1. IInv => ReadersFindTheirGeneration
  BY DEF IInv, ReaderInv, ReadersFindTheirGeneration
<1> QED
  BY <1>1, Invariance, PTL
================================================================================
