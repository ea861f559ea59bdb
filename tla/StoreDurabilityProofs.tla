------------------------- MODULE StoreDurabilityProofs -------------------------
(* What a power loss cannot take back, and that the generations are one      *)
(* linear history; and what holds of that history while the power does not   *)
(* fail: theorems about GenerationStore, for every number of processes,      *)
(* generations, aborts and power losses.                                     *)
EXTENDS GenerationStoreProofs, SequenceTheorems, WellFoundedInduction

\* A whole generation that contains what was acknowledged.
Holds(dir) == Complete(dir) /\ IsPrefix(acked, dir.log)

\* Whatever version of CURRENT and of the generation that it names is found after
\* a power loss.
Durable ==
    acked # <<>> =>
        /\ current # NoGeneration
        /\ \A c \in currentOnDisk \cup {current} :
              /\ c \in Generation /\ c <= current
              /\ Holds(gens[c]) /\ \A dir \in gensOnDisk[c] : Holds(dir)

\* The new generation is on disk before CURRENT names it, and CURRENT is on disk
\* before the call returns.
WriterDurable(p) ==
    /\ pc[p] = "repaired" => acked = <<>>
    /\ pc[p] = "write" /\ call[p] = "commit" => IsPrefix(acked, staging.log)
    /\ pc[p] \in {"syncGenerations", "point"} => Holds(gens[Target(p)])
    /\ pc[p] = "point" => gensOnDisk[Target(p)] = {gens[Target(p)]}
    /\ pc[p] \in {"syncPointer", "return"} =>
           Holds(gens[current]) /\ gensOnDisk[current] = {gens[current]}
    /\ pc[p] = "return" => currentOnDisk = {current}

\* What each pass of _recover_locked has dealt with.
Cleaned(p) ==
    /\ pc[p] \in {"scan", "pointer", "repaired", "abandon", "decide"} => staging = Absent
    /\ pc[p] \in {"pointer", "repaired", "abandon", "decide"} =>
           \A g \in Generation : Exists(gens[g]) => Complete(gens[g])
    /\ pc[p] \in {"repaired", "decide"} =>
           \A g \in Generation : Exists(gens[g]) => g <= current

DInv == Durable /\ \A p \in Process : WriterDurable(p) /\ Cleaned(p)

LEMMA PrefixFacts ==
    ASSUME NEW S, NEW t \in Seq(S)
    PROVE  /\ IsPrefix(<<>>, t) /\ IsPrefix(t, t)
           /\ \A s \in Seq(S), x \in S : IsPrefix(s, t) => IsPrefix(s, Append(t, x))
  BY DEF IsPrefix

USE DEF Goto, Leave, StayInside, Inside, Places, Calls, Outcomes,
        processVars, diskVars, countVars

\* A step that changes nothing on disk and leads nobody into a pass of the
\* recovery or of a production.
LEMMA Undisturbed ==
    ASSUME DInv, UNCHANGED <<diskVars, acked>>,
           \A p \in Process : pc'[p] \in Inside \ {"sweep"} => pc'[p] = pc[p] /\ call'[p] = call[p]
    PROVE  DInv'
<1>1. Durable'
  BY DEF DInv, Durable, Holds
<1>2. ASSUME NEW p \in Process PROVE WriterDurable(p)' /\ Cleaned(p)'
  <2>1. WriterDurable(p) /\ Cleaned(p)
    BY DEF DInv
  <2>2. CASE pc'[p] \in Inside \ {"sweep"}
    BY <2>1, <2>2 DEF WriterDurable, Cleaned, Holds, Target
  <2>3. CASE pc'[p] \notin Inside \ {"sweep"}
    BY <2>3 DEF WriterDurable, Cleaned
  <2> QED
    BY <2>2, <2>3
<1> QED
  BY <1>1, <1>2 DEF DInv

\* A step of the lock's holder is nobody else's.
LEMMA Alone ==
    ASSUME IInv, NEW p \in Process, pc[p] \in Inside, \A q \in Process : q # p => pc'[q] = pc[q],
           Durable', WriterDurable(p)', Cleaned(p)'
    PROVE  DInv'
<1>1. ASSUME NEW q \in Process, q # p PROVE WriterDurable(q)' /\ Cleaned(q)'
  <2>1. pc'[q] \notin Inside
    BY <1>1 DEF IInv, OneWriter
  <2> QED
    BY <2>1 DEF WriterDurable, Cleaned
<1> QED
  BY <1>1 DEF DInv

LEMMA EntryDurable ==
    ASSUME IInv, DInv, NEW p \in Process,
           ReadPointer(p) \/ ReadGeneration(p) \/ Start(p) \/ Enter(p) \/ LockTimeout(p)
    PROVE  DInv'
<1>1. pc \in [Process -> Places] /\ call \in [Process -> Calls]
  BY DEF IInv, TypeOK
<1>2. UNCHANGED <<diskVars, acked>>
  BY DEF ReadPointer, ReadGeneration, Start, Enter, LockTimeout
<1>3. ASSUME NEW q \in Process
      PROVE  pc'[q] \in Inside \ {"sweep"} => pc'[q] = pc[q] /\ call'[q] = call[q]
  BY <1>1 DEF ReadPointer, ReadGeneration, Start, Enter, LockTimeout
<1> QED
  BY <1>2, <1>3, Undisturbed

\* Every call that ends without having changed anything.
LEMMA LeaveDurable ==
    ASSUME IInv, DInv, NEW p \in Process, NEW result, Leave(p, result), UNCHANGED <<diskVars, acked>>
    PROVE  DInv'
<1>1. pc \in [Process -> Places] /\ call \in [Process -> Calls]
  BY DEF IInv, TypeOK
<1> QED
  BY <1>1, Undisturbed

\* A directory that is not whole, or is above CURRENT, is not one that CURRENT
\* may name after a power loss.
LEMMA RemovedDurable ==
    ASSUME IInv, DInv, NEW g \in Generation, NEW versions \in SUBSET Directory, NEW left \in Directory,
           ~Complete(gens[g]) \/ g > current,
           gens' = [gens EXCEPT ![g] = left],
           gensOnDisk' = [gensOnDisk EXCEPT ![g] = @ \cup versions],
           UNCHANGED <<current, currentOnDisk, acked>>
    PROVE  Durable'
<1>1. gens \in [Generation -> Directory] /\ gensOnDisk \in [Generation -> SUBSET Directory]
  BY DEF IInv, TypeOK
<1>2. SUFFICES ASSUME acked # <<>>, NEW c \in currentOnDisk \cup {current}
               PROVE  Holds(gens[c])' /\ \A dir \in gensOnDisk'[c] : Holds(dir)'
  BY DEF DInv, Durable
<1>3. c \in Generation /\ c <= current /\ Holds(gens[c]) /\ \A dir \in gensOnDisk[c] : Holds(dir)
  BY <1>2 DEF DInv, Durable
<1>4. c # g
  BY <1>3, BoundsAssumption DEF Holds, Generation, IInv, TypeOK, Pointer, NoGeneration
<1> QED
  BY <1>1, <1>3, <1>4 DEF Holds

LEMMA RecoveryDurable ==
    ASSUME IInv, DInv, NEW p \in Process, Recovery(p)
    PROVE  DInv'
<1>1. /\ gens \in [Generation -> Directory] /\ gensOnDisk \in [Generation -> SUBSET Directory]
      /\ pc \in [Process -> Places] /\ call \in [Process -> Calls] /\ current \in Pointer
      /\ Durable /\ WriterDurable(p) /\ Cleaned(p)
  BY DEF IInv, TypeOK, DInv
<1>2. CASE SweepStaging(p)
  <2>1. Durable' /\ WriterDurable(p)' /\ Cleaned(p)'
    BY <1>1, <1>2 DEF SweepStaging, Durable, Holds, WriterDurable, Cleaned
  <2> QED
    BY <1>1, <1>2, <2>1, Alone DEF SweepStaging
<1>3. CASE ScanRemove(p)
  <2>1. PICK g \in Generation : Unmarked(g) /\ RemoveTree(g)
    BY <1>3 DEF ScanRemove
  <2>2. ~Complete(gens[g])
    BY <2>1 DEF Unmarked, Marked, Complete, Files
  <2>3. Absent \in Directory /\ {Absent} \cup Torn(gens[g]) \in SUBSET Directory
    BY <1>1, DirectoryParts
  <2>4. Durable'
    <3> DEFINE versions == {Absent} \cup Torn(gens[g])
    <3>1. gensOnDisk[g] \cup {Absent} \cup Torn(gens[g]) = gensOnDisk[g] \cup versions
      OBVIOUS
    <3>2. /\ gens' = [gens EXCEPT ![g] = Absent]
          /\ gensOnDisk' = [gensOnDisk EXCEPT ![g] = @ \cup versions]
      BY <2>1, <3>1 DEF RemoveTree
    <3>3. UNCHANGED <<current, currentOnDisk, acked>>
      BY <1>3 DEF ScanRemove
    <3> HIDE DEF versions
    <3>4. versions \in SUBSET Directory
      BY <2>3 DEF versions
    <3> QED
      BY <2>2, <2>3, <3>2, <3>3, <3>4, RemovedDurable
  <2>5. WriterDurable(p)' /\ Cleaned(p)'
    BY <1>1, <1>3 DEF ScanRemove, WriterDurable, Cleaned
  <2> QED
    BY <1>1, <1>3, <2>4, <2>5, Alone DEF ScanRemove
<1>4. CASE ScanRefuse(p)
  BY <1>4, LeaveDurable DEF ScanRefuse
<1>5. CASE ScanDone(p)
  <2>1. Durable' /\ WriterDurable(p)'
    BY <1>1, <1>5 DEF ScanDone, Durable, Holds, WriterDurable
  <2>2. Cleaned(p)'
    BY <1>1, <1>5 DEF ScanDone, Cleaned, Unmarked, MarkedButIncomplete
  <2> QED
    BY <1>1, <1>5, <2>1, <2>2, Alone DEF ScanDone
<1>6. CASE PointerRepair(p)
  <2>1. PICK newest \in CompleteGenerations :
            (\A g \in CompleteGenerations : g <= newest) /\ ReplaceCurrent(newest)
    BY <1>6 DEF PointerRepair
  <2>2. acked = <<>>
    BY <1>1, <1>6 DEF PointerRepair, Durable, Holds, Valid
  <2>3. Durable'
    BY <1>6, <2>2 DEF PointerRepair, Durable
  <2>4. WriterDurable(p)'
    BY <1>1, <1>6, <2>2 DEF PointerRepair, WriterDurable
  <2>5. current' = newest /\ gens' = gens /\ staging' = staging
    BY <1>6, <2>1 DEF PointerRepair, ReplaceCurrent
  <2>6. Cleaned(p)'
    BY <1>1, <1>6, <2>1, <2>5 DEF PointerRepair, Cleaned, CompleteGenerations
  <2> QED
    BY <1>1, <1>6, <2>3, <2>4, <2>6, Alone DEF PointerRepair
<1>7. CASE PointerRepairSync(p)
  <2>1. Durable'
    BY <1>1, <1>7 DEF PointerRepairSync, Durable, WriterDurable
  <2>2. WriterDurable(p)' /\ Cleaned(p)'
    BY <1>1, <1>7 DEF PointerRepairSync, WriterDurable, Cleaned
  <2> QED
    BY <1>1, <1>7, <2>1, <2>2, Alone DEF PointerRepairSync
<1>8. CASE PointerNone(p)
  <2>1. Durable' /\ WriterDurable(p)'
    BY <1>1, <1>8 DEF PointerNone, Durable, Holds, WriterDurable
  <2>2. Cleaned(p)'
    BY <1>1, <1>8 DEF PointerNone, Cleaned, CompleteGenerations
  <2> QED
    BY <1>1, <1>8, <2>1, <2>2, Alone DEF PointerNone
<1>9. CASE PointerKeep(p)
  <2>1. Durable' /\ WriterDurable(p)' /\ Cleaned(p)'
    BY <1>1, <1>9 DEF PointerKeep, Durable, Holds, WriterDurable, Cleaned
  <2> QED
    BY <1>1, <1>9, <2>1, Alone DEF PointerKeep
<1>10. CASE AbandonRemove(p)
  <2>1. PICK g \in Generation : Abandoned(g) /\ RemoveTree(g)
    BY <1>10 DEF AbandonRemove
  <2>2. g > current
    BY <2>1 DEF Abandoned
  <2>3. Absent \in Directory /\ {Absent} \cup Torn(gens[g]) \in SUBSET Directory
    BY <1>1, DirectoryParts
  <2>4. Durable'
    <3> DEFINE versions == {Absent} \cup Torn(gens[g])
    <3>1. gensOnDisk[g] \cup {Absent} \cup Torn(gens[g]) = gensOnDisk[g] \cup versions
      OBVIOUS
    <3>2. /\ gens' = [gens EXCEPT ![g] = Absent]
          /\ gensOnDisk' = [gensOnDisk EXCEPT ![g] = @ \cup versions]
      BY <2>1, <3>1 DEF RemoveTree
    <3>3. UNCHANGED <<current, currentOnDisk, acked>>
      BY <1>10 DEF AbandonRemove
    <3> HIDE DEF versions
    <3>4. versions \in SUBSET Directory
      BY <2>3 DEF versions
    <3> QED
      BY <2>2, <2>3, <3>2, <3>3, <3>4, RemovedDurable
  <2>5. WriterDurable(p)'
    BY <1>1, <1>10 DEF AbandonRemove, WriterDurable
  <2>6. Cleaned(p)'
    BY <1>1, <1>10, <2>1 DEF AbandonRemove, RemoveTree, Cleaned, Exists, Absent
  <2> QED
    BY <1>1, <1>10, <2>4, <2>5, <2>6, Alone DEF AbandonRemove
<1>11. CASE AbandonDone(p)
  <2>1. Durable' /\ WriterDurable(p)'
    BY <1>1, <1>11 DEF AbandonDone, Durable, Holds, WriterDurable
  <2>2. Cleaned(p)'
    BY <1>1, <1>11, BoundsAssumption
       DEF AbandonDone, Cleaned, Abandoned, Generation, Pointer, NoGeneration
  <2> QED
    BY <1>1, <1>11, <2>1, <2>2, Alone DEF AbandonDone
<1> QED
  BY <1>2, <1>3, <1>4, <1>5, <1>6, <1>7, <1>8, <1>9, <1>10, <1>11 DEF Recovery

LEMMA DecisionDurable ==
    ASSUME IInv, DInv, NEW p \in Process, Decision(p)
    PROVE  DInv'
<1>1. /\ gens \in [Generation -> Directory] /\ gensOnDisk \in [Generation -> SUBSET Directory]
      /\ pc \in [Process -> Places] /\ call \in [Process -> Calls] /\ current \in Pointer
      /\ acked \in Seq(1..MaxOperations) /\ operations \in 0..MaxOperations
      /\ Durable /\ WriterDurable(p) /\ Cleaned(p)
  BY DEF IInv, TypeOK, DInv
<1>2. CASE RecoverReturn(p) \/ InitializeReturn(p) \/ PointerRefuse(p)
           \/ CommitStale(p) \/ CommitReject(p)
  BY <1>2, LeaveDurable DEF RecoverReturn, InitializeReturn, PointerRefuse, CommitStale, CommitReject
<1>3. CASE InitializeStage(p)
  <2>1. acked = <<>>
    BY <1>1, <1>3 DEF InitializeStage, Durable
  <2>2. Durable' /\ WriterDurable(p)' /\ Cleaned(p)'
    BY <1>1, <1>3, <2>1 DEF InitializeStage, Durable, WriterDurable, Cleaned
  <2> QED
    BY <1>1, <1>3, <2>2, Alone DEF InitializeStage
<1>4. CASE CommitStage(p)
  <2>1. Durable' /\ Cleaned(p)'
    BY <1>1, <1>4 DEF CommitStage, Durable, Holds, Cleaned
  <2>2. /\ current \in Generation /\ gens[current].log \in Seq(1..MaxOperations)
        /\ operations' \in 1..MaxOperations
        /\ staging'.log = Append(gens[current].log, operations')
    BY <1>1, <1>4, BoundsAssumption DEF CommitStage, Valid, Pointer, Directory
  <2>3. IsPrefix(acked, gens[current].log)
    <3>1. CASE acked = <<>>
      BY <2>2, <3>1, PrefixFacts
    <3>2. CASE acked # <<>>
      BY <1>1, <3>2 DEF Durable, Holds
    <3> QED
      BY <3>1, <3>2
  <2>4. IsPrefix(acked, staging'.log)
    BY <1>1, <2>2, <2>3, PrefixFacts
  <2>5. WriterDurable(p)'
    BY <1>1, <1>4, <2>4 DEF CommitStage, WriterDurable
  <2> QED
    BY <1>1, <1>4, <2>1, <2>5, Alone DEF CommitStage
<1> QED
  BY <1>2, <1>3, <1>4 DEF Decision

\* What a call produces under a number that CURRENT does not have yet.
LEMMA AddedDurable ==
    ASSUME IInv, DInv, NEW g \in Generation, NEW dir \in Directory, PutDirectory(g, dir),
           acked = <<>> \/ g > current, UNCHANGED <<current, currentOnDisk, acked>>
    PROVE  Durable'
<1>1. gens \in [Generation -> Directory] /\ gensOnDisk \in [Generation -> SUBSET Directory]
  BY DEF IInv, TypeOK
<1>2. SUFFICES ASSUME acked # <<>>, NEW c \in currentOnDisk \cup {current}
               PROVE  Holds(gens[c])' /\ \A d \in gensOnDisk'[c] : Holds(d)'
  BY DEF DInv, Durable
<1>3. c \in Generation /\ c <= current /\ Holds(gens[c]) /\ \A d \in gensOnDisk[c] : Holds(d)
  BY <1>2 DEF DInv, Durable
<1>4. c # g
  BY <1>2, <1>3, BoundsAssumption DEF Generation, IInv, TypeOK, Pointer, NoGeneration
<1> QED
  BY <1>1, <1>3, <1>4 DEF Holds, PutDirectory

LEMMA ProductionDurable ==
    ASSUME IInv, DInv, NEW p \in Process, Production(p)
    PROVE  DInv'
<1>1. /\ gens \in [Generation -> Directory] /\ gensOnDisk \in [Generation -> SUBSET Directory]
      /\ pc \in [Process -> Places] /\ call \in [Process -> Calls] /\ current \in Pointer
      /\ acked \in Seq(1..MaxOperations) /\ staging \in Directory
      /\ currentOnDisk \in SUBSET Pointer /\ 0 \in Generation
      /\ Durable /\ WriterDurable(p) /\ Cleaned(p)
  BY BoundsAssumption DEF IInv, TypeOK, DInv, Generation
<1>2. /\ call[p] = "initialize" /\ pc[p] \in {"write", "syncGenerations", "point"} =>
             current = NoGeneration /\ acked = <<>>
      /\ call[p] = "commit" /\ pc[p] \in {"write", "syncGenerations", "point"} =>
             current \in 0..(MaxGeneration - 1)
      /\ pc[p] \in {"write", "syncGenerations", "point"} => call[p] \in {"initialize", "commit"}
      /\ pc[p] \in {"syncPointer", "return"} => current \in Generation
  BY <1>1 DEF IInv, WriterInv, Durable, Pointer
<1>3. /\ pc[p] \in {"write", "syncGenerations", "point"} => Target(p) \in Generation
      /\ acked # <<>> /\ pc[p] \in {"write", "syncGenerations", "point"} => Target(p) = current + 1
  BY <1>1, <1>2, BoundsAssumption DEF Target, Generation
<1>4. CASE InitializeWrite(p)
  <2>1. PICK dir \in NextWrites(gens[0], InitializeOrder) : PutDirectory(0, dir)
    BY <1>4 DEF InitializeWrite
  <2>2. dir \in Directory
    BY <1>1, <2>1, DirectoryParts
  <2>3. Durable'
    BY <1>1, <1>2, <1>4, <2>1, <2>2, AddedDurable DEF InitializeWrite
  <2>4. WriterDurable(p)' /\ Cleaned(p)'
    BY <1>1, <1>4 DEF InitializeWrite, WriterDurable, Cleaned
  <2> QED
    BY <1>1, <1>4, <2>3, <2>4, Alone DEF InitializeWrite
<1>5. CASE InitializeSealed(p)
  <2>1. Durable' /\ Cleaned(p)'
    BY <1>1, <1>5 DEF InitializeSealed, Durable, Holds, Cleaned
  <2>2. IsPrefix(acked, gens[0].log)
    BY <1>1, <1>2, <1>5, PrefixFacts DEF InitializeSealed, Directory
  <2>3. WriterDurable(p)'
    BY <1>1, <1>5, <2>2 DEF InitializeSealed, WriterDurable, Holds, Target
  <2> QED
    BY <1>1, <1>5, <2>1, <2>3, Alone DEF InitializeSealed
<1>6. CASE CommitWrite(p)
  <2>1. staging'.log = staging.log
    BY <1>1, <1>6, DirectoryParts DEF CommitWrite
  <2>2. Durable' /\ WriterDurable(p)' /\ Cleaned(p)'
    BY <1>1, <1>6, <2>1 DEF CommitWrite, Durable, Holds, WriterDurable, Cleaned
  <2> QED
    BY <1>1, <1>6, <2>2, Alone DEF CommitWrite
<1>7. CASE CommitPublish(p)
  <2>1. Complete(staging) /\ PutDirectory(Target(p), staging) /\ IsPrefix(acked, staging.log)
    BY <1>1, <1>7 DEF CommitPublish, WriterDurable
  <2>2. Target(p) \in Generation /\ (acked = <<>> \/ Target(p) > current)
    BY <1>1, <1>2, <1>3, <1>7 DEF CommitPublish
  <2>3. Durable'
    BY <1>1, <1>7, <2>1, <2>2, AddedDurable DEF CommitPublish
  <2>4. gens'[Target(p)] = staging /\ Target(p)' = Target(p)
    BY <1>1, <1>7, <2>1, <2>2 DEF CommitPublish, PutDirectory, Target
  <2>5. WriterDurable(p)' /\ Cleaned(p)'
    BY <1>1, <1>7, <2>1, <2>4 DEF CommitPublish, WriterDurable, Cleaned, Holds
  <2> QED
    BY <1>1, <1>7, <2>3, <2>5, Alone DEF CommitPublish
<1>8. CASE SyncGenerations(p)
  <2>1. Durable'
    BY <1>1, <1>8 DEF SyncGenerations, Durable, Holds
  <2>2. Target(p)' = Target(p)
    BY <1>8 DEF SyncGenerations, Target
  <2>3. WriterDurable(p)' /\ Cleaned(p)'
    BY <1>1, <1>3, <1>8, <2>2 DEF SyncGenerations, WriterDurable, Cleaned, Holds
  <2> QED
    BY <1>1, <1>8, <2>1, <2>3, Alone DEF SyncGenerations
<1>9. CASE PointCurrent(p)
  <2>1. /\ current' = Target(p) /\ currentOnDisk' = currentOnDisk \cup {Target(p)}
        /\ UNCHANGED <<gens, gensOnDisk, acked, staging>> /\ pc[p] = "point"
    BY <1>9 DEF PointCurrent, ReplaceCurrent
  <2>2. /\ Target(p) \in Generation /\ Holds(gens[Target(p)])
        /\ gensOnDisk[Target(p)] = {gens[Target(p)]}
    BY <1>1, <1>3, <2>1 DEF WriterDurable
  <2>3. Durable'
    <3>1. SUFFICES ASSUME acked # <<>>, NEW c \in currentOnDisk' \cup {current'}
                   PROVE  /\ c \in Generation /\ c <= current' /\ Holds(gens[c])
                          /\ \A dir \in gensOnDisk[c] : Holds(dir)
      BY <2>1, <2>2 DEF Durable, Holds, Generation, NoGeneration
    <3>2. Target(p) = current + 1
      BY <1>3, <2>1, <3>1
    <3>3. CASE c = Target(p)
      BY <2>1, <2>2, <3>3 DEF Generation
    <3>4. CASE c # Target(p)
      <4>1. c \in currentOnDisk \cup {current}
        BY <2>1, <3>1, <3>4
      <4>2. c \in Generation /\ c <= current /\ Holds(gens[c]) /\ \A dir \in gensOnDisk[c] : Holds(dir)
        BY <1>1, <3>1, <4>1 DEF Durable
      <4>3. current \in Generation
        BY <1>1, <3>1 DEF Durable, Pointer
      <4>4. c <= current + 1
        BY <4>2, <4>3, BoundsAssumption DEF Generation
      <4> QED
        BY <2>1, <3>2, <4>2, <4>4
    <3> QED
      BY <3>3, <3>4
  <2>4. WriterDurable(p)' /\ Cleaned(p)'
    BY <1>1, <1>9, <2>1, <2>2 DEF PointCurrent, WriterDurable, Cleaned, Holds
  <2> QED
    BY <1>1, <1>9, <2>3, <2>4, Alone DEF PointCurrent
<1>10. CASE SyncPointer(p)
  <2>1. Durable' /\ WriterDurable(p)' /\ Cleaned(p)'
    BY <1>1, <1>10 DEF SyncPointer, Durable, Holds, WriterDurable, Cleaned
  <2> QED
    BY <1>1, <1>10, <2>1, Alone DEF SyncPointer
<1>11. CASE Return(p)
  <2>1. /\ current \in Generation /\ acked' = gens[current].log
        /\ Complete(gens[current]) /\ gensOnDisk[current] = {gens[current]}
        /\ currentOnDisk = {current} /\ UNCHANGED <<gens, gensOnDisk, current, currentOnDisk>>
    BY <1>1, <1>2, <1>11 DEF Return, WriterDurable, Holds
  <2>2. IsPrefix(acked', gens[current].log)
    BY <1>1, <2>1, PrefixFacts DEF Directory
  <2>3. Durable'
    BY <2>1, <2>2 DEF Durable, Holds, Generation, NoGeneration
  <2>4. WriterDurable(p)' /\ Cleaned(p)'
    BY <1>1, <1>11 DEF Return, WriterDurable, Cleaned
  <2>5. \A q \in Process : q # p => pc'[q] = pc[q]
    BY <1>1, <1>11 DEF Return
  <2> QED
    BY <1>11, <2>3, <2>4, <2>5, Alone DEF Return
<1> QED
  BY <1>4, <1>5, <1>6, <1>7, <1>8, <1>9, <1>10, <1>11 DEF Production

\* A call that dies, and one that dies in the middle of a removal.
LEMMA AbortDurable ==
    ASSUME IInv, DInv, NEW p \in Process, Abort(p) \/ AbortRemoval(p)
    PROVE  DInv'
<1>1. CASE Abort(p)
  BY <1>1, LeaveDurable DEF Abort
<1>2. CASE AbortRemoval(p)
  <2>1. PICK g \in Generation :
            /\ \/ pc[p] = "scan" /\ Unmarked(g)
               \/ pc[p] = "abandon" /\ Abandoned(g)
            /\ \E left \in Torn(gens[g]) :
                  /\ gens' = [gens EXCEPT ![g] = left]
                  /\ gensOnDisk' = [gensOnDisk EXCEPT ![g] = @ \cup Torn(gens[g])]
    BY <1>2 DEF AbortRemoval
  <2>2. ~Complete(gens[g]) \/ g > current
    BY <2>1 DEF Unmarked, Marked, Complete, Files, Abandoned
  <2>3. gens[g] \in Directory
    BY DEF IInv, TypeOK
  <2>4. Torn(gens[g]) \in SUBSET Directory
    BY <2>3, DirectoryParts
  <2>5. PICK left \in Torn(gens[g]) :
            /\ gens' = [gens EXCEPT ![g] = left]
            /\ gensOnDisk' = [gensOnDisk EXCEPT ![g] = @ \cup Torn(gens[g])]
    BY <2>1
  <2>6. UNCHANGED <<current, currentOnDisk, acked>>
    BY <1>2 DEF AbortRemoval
  <2>7. Durable'
    <3> DEFINE versions == Torn(gens[g])
    <3>1. versions \in SUBSET Directory /\ left \in Directory
      BY <2>4, <2>5
    <3>2. gens' = [gens EXCEPT ![g] = left] /\ gensOnDisk' = [gensOnDisk EXCEPT ![g] = @ \cup versions]
      BY <2>5
    <3> HIDE DEF versions
    <3> QED
      BY <2>2, <2>6, <3>1, <3>2, RemovedDurable
  <2>8. pc \in [Process -> Places] /\ pc' = [pc EXCEPT ![p] = "idle"] /\ pc[p] \in Inside
    BY <1>2, <2>1 DEF AbortRemoval, IInv, TypeOK
  <2>9. WriterDurable(p)' /\ Cleaned(p)'
    BY <2>8 DEF WriterDurable, Cleaned
  <2>10. \A q \in Process : q # p => pc'[q] = pc[q]
    BY <2>8
  <2> QED
    BY <2>7, <2>8, <2>9, <2>10, Alone
<1> QED
  BY <1>1, <1>2

\* Every process is gone, and whatever version of an entry is found, it is one of
\* those that Durable is about.
LEMMA PowerLossDurable ==
    ASSUME IInv, DInv, PowerLoss
    PROVE  DInv'
<1>1. \A p \in Process : pc'[p] = "idle"
  BY DEF PowerLoss
<1>2. \A p \in Process : WriterDurable(p)' /\ Cleaned(p)'
  BY <1>1 DEF WriterDurable, Cleaned
<1> DEFINE unsynced == {g \in Generation : gensOnDisk[g] # {gens[g]}}
<1>3. PICK found \in [unsynced -> UNION {gensOnDisk[g] : g \in unsynced}] :
          /\ \A g \in unsynced : found[g] \in gensOnDisk[g]
          /\ gens' = [g \in Generation |-> IF g \in unsynced THEN found[g] ELSE gens[g]]
  BY DEF PowerLoss
<1>4. \A g \in Generation : gens'[g] \in gensOnDisk[g]
  BY <1>3
<1>5. /\ gensOnDisk' = [g \in Generation |-> {gens'[g]}] /\ acked' = acked
      /\ current' \in currentOnDisk /\ currentOnDisk' = {current'}
  BY DEF PowerLoss
<1>6. Durable'
  <2>1. SUFFICES ASSUME acked # <<>>
                 PROVE  /\ current' \in Generation /\ current' # NoGeneration /\ current' <= current'
                        /\ Holds(gens[current])' /\ gensOnDisk'[current'] = {gens'[current']}
    BY <1>5 DEF Durable, Holds
  <2>2. current' \in Generation /\ \A dir \in gensOnDisk[current'] : Holds(dir)
    BY <1>5, <2>1 DEF DInv, Durable
  <2>3. Holds(gens[current])'
    BY <1>4, <1>5, <2>2 DEF Holds, Complete
  <2> QED
    BY <1>5, <2>2, <2>3 DEF Generation, NoGeneration
<1> QED
  BY <1>2, <1>6 DEF DInv

LEMMA InitDurable == Init => DInv
  BY DEF Init, DInv, Durable, WriterDurable, Cleaned

LEMMA NextDurable == IInv /\ DInv /\ [Next]_vars => DInv'
<1> SUFFICES ASSUME IInv, DInv, [Next]_vars
             PROVE  DInv'
  OBVIOUS
<1>1. CASE UNCHANGED vars
  BY <1>1, Undisturbed DEF vars
<1>2. ASSUME NEW p \in Process, ReadPointer(p) \/ Start(p)
      PROVE  DInv'
  BY <1>2, EntryDurable
<1>3. ASSUME NEW p \in Process, Progress(p)
      PROVE  DInv'
  BY <1>3, EntryDurable, RecoveryDurable, DecisionDurable, ProductionDurable DEF Progress
<1>4. ASSUME NEW p \in Process, Abort(p) \/ AbortRemoval(p)
      PROVE  DInv'
  BY <1>4, AbortDurable
<1> QED
  BY <1>1, <1>2, <1>3, <1>4, PowerLossDurable DEF Next

LEMMA DurableInvariance == Spec => [](IInv /\ DInv)
<1>1. Spec => []IInv
  BY Invariance
<1>2. Init => DInv
  BY InitDurable
<1>3. IInv /\ DInv /\ [Next]_vars => DInv'
  BY NextDurable
<1> QED
  BY <1>1, <1>2, <1>3, PTL DEF Spec

\* Recovery's newest complete generation is one of them.
LEMMA Newest ==
    ASSUME NEW S \in SUBSET Generation, S # {}
    PROVE  Max(S) \in S /\ \A g \in S : g <= Max(S)
<1> DEFINE T == {MaxGeneration - g : g \in S}
           R == {pair \in Nat \X Nat : pair[1] < pair[2]}
<1>1. \A g \in S : g \in Nat /\ MaxGeneration - g \in Nat
  BY BoundsAssumption DEF Generation
<1>2. T \in SUBSET Nat /\ T # {}
  BY <1>1
<1>3. IsWellFoundedOn(R, Nat)
  BY NatLessThanWellFounded DEF OpToRel
<1>4. PICK x \in T : \A y \in T : ~(<<y, x>> \in R)
  <2> HIDE DEF T, R
  <2> QED
    BY <1>2, <1>3, WFMin
<1>5. PICK g \in S : x = MaxGeneration - g
  OBVIOUS
<1>6. ASSUME NEW h \in S PROVE g >= h
  <2>1. MaxGeneration - h \in T /\ MaxGeneration - h \in Nat /\ MaxGeneration - g \in Nat
    BY <1>1
  <2>2. ~(<<MaxGeneration - h, MaxGeneration - g>> \in R)
    BY <1>4, <1>5, <2>1
  <2>3. ~(MaxGeneration - h < MaxGeneration - g)
    BY <2>1, <2>2
  <2> QED
    BY <1>1, <2>3, BoundsAssumption
<1> QED
  BY <1>5, <1>6 DEF Max

\* What the current state holds, whether or not CURRENT dangles.
LEMMA LogType == IInv => CommittedLog \in Seq(1..MaxOperations)
<1> SUFFICES ASSUME IInv
             PROVE  CommittedLog \in Seq(1..MaxOperations)
  OBVIOUS
<1>1. gens \in [Generation -> Directory] /\ current \in Pointer
  BY DEF IInv, TypeOK
<1>2. CompleteGenerations \in SUBSET Generation
  BY DEF CompleteGenerations
<1>3. Effective \in Pointer
  BY <1>1, <1>2, Newest DEF Effective, Pointer
<1>4. CASE Effective = NoGeneration
  BY <1>4 DEF CommittedLog
<1>5. CASE Effective # NoGeneration
  BY <1>1, <1>3, <1>5 DEF CommittedLog, Pointer, Directory
<1> QED
  BY <1>4, <1>5

\* What was acknowledged is in the history.
LEMMA AcknowledgedFirst == IInv /\ DInv => AcknowledgedSurvives
<1>1. SUFFICES ASSUME IInv, DInv
               PROVE  AcknowledgedSurvives
  OBVIOUS
<1>2. CASE acked = <<>>
  BY <1>1, <1>2, LogType, PrefixFacts DEF AcknowledgedSurvives
<1>3. CASE acked # <<>>
  BY <1>1, <1>3 DEF AcknowledgedSurvives, DInv, Durable, Holds, Valid, CommittedLog, Effective
<1> QED
  BY <1>2, <1>3

-------------------------------------------------------------------------------
(* One linear history.  Until CURRENT names something that no power loss can *)
(* take back (Anchored), a power loss may leave a later generation and take  *)
(* the one below it: to a caller, a promotion that took effect just then.    *)

\* What a directory is or may be found to be.
Versions(g) == gensOnDisk[g] \cup {gens[g]}

\* The log of generation g has g + 1 promotions.
Numbered ==
    \A g \in Generation : \A dir \in Versions(g) : Exists(dir) \/ Complete(dir) =>
        Len(dir.log) = g + 1 /\ \A i \in DOMAIN dir.log : dir.log[i] <= operations

\* One promotion more than the history of the store, and a new one.
Extends(log) ==
    \E x \in 1..operations :
        /\ log = Append(CommittedLog, x)
        /\ \A i \in DOMAIN CommittedLog : CommittedLog[i] < x

\* Whatever CURRENT may be found to name is whole and a part of the history.
Anchored ==
    /\ current # NoGeneration
    /\ \A c \in currentOnDisk \cup {current} :
          /\ c # NoGeneration /\ c <= current
          /\ \A dir \in Versions(c) : Complete(dir) /\ IsPrefix(dir.log, gens[current].log)

\* Whatever generation may be found whole is a part of the history, or extends it.
Settled ==
    \A g \in Generation : \A dir \in Versions(g) : Complete(dir) =>
        /\ Effective # NoGeneration
        /\ \/ g <= Effective /\ IsPrefix(dir.log, CommittedLog)
           \/ g = Effective + 1 /\ Extends(dir.log)

Linear == Anchored \/ Settled

\* What the lock's holder is producing extends the history.
Producing(p) ==
    /\ pc[p] \in {"repaired", "abandon"} => Valid(current)
    /\ pc[p] = "decide" /\ ~Valid(current) => CompleteGenerations = {}
    /\ pc[p] \in {"write", "syncGenerations", "point"} /\ call[p] = "initialize" =>
           Exists(gens[0]) /\ CompleteGenerations \subseteq {0}
    /\ pc[p] = "write" /\ call[p] = "commit" => Valid(current) /\ Extends(staging.log)
    /\ pc[p] \in {"syncGenerations", "point"} /\ call[p] = "commit" =>
           Valid(current) /\ Extends(gens[current + 1].log)

RInv == Numbered /\ Linear /\ \A p \in Process : Producing(p)

\* A step as a caller sees it.
AtomicStep == [Atomic!Next]_<<CommittedLog, acked>>

LEMMA PrefixByElements ==
    ASSUME NEW S, NEW s \in Seq(S), NEW t \in Seq(S)
    PROVE  /\ IsPrefix(s, t) <=> Len(s) <= Len(t) /\ \A i \in 1..Len(s) : s[i] = t[i]
           /\ IsPrefix(s, t) => s \in Prefixes(t)
<1>1. /\ Len(s) \in Nat /\ Len(t) \in Nat
      /\ SubSeq(s, 1, Len(s)) = s
  OBVIOUS
<1>2. ASSUME Len(s) <= Len(t)
      PROVE  s = SubSeq(t, 1, Len(s)) <=> \A i \in 1..Len(s) : s[i] = t[i]
  <2>1. /\ SubSeq(t, 1, Len(s)) \in Seq(S) /\ Len(SubSeq(t, 1, Len(s))) = Len(s)
        /\ \A i \in 1..Len(s) : SubSeq(t, 1, Len(s))[i] = t[i]
    BY <1>1, <1>2
  <2> QED
    BY <1>1, <2>1, SeqEqual
<1>3. IsPrefix(s, t) <=> Len(s) <= Len(t) /\ s = SubSeq(t, 1, Len(s))
  BY <1>1 DEF IsPrefix
<1>4. ASSUME IsPrefix(s, t) PROVE s \in Prefixes(t)
  <2>1. Len(s) \in 0..Len(t) /\ s = SubSeq(t, 1, Len(s))
    BY <1>1, <1>3, <1>4
  <2> QED
    BY <2>1 DEF Prefixes
<1> QED
  BY <1>2, <1>3, <1>4

LEMMA PrefixOrder ==
    ASSUME NEW S, NEW s \in Seq(S), NEW t \in Seq(S), NEW u \in Seq(S)
    PROVE  /\ IsPrefix(s, t) /\ IsPrefix(t, u) => IsPrefix(s, u)
           /\ IsPrefix(s, u) /\ IsPrefix(t, u) /\ Len(s) <= Len(t) => IsPrefix(s, t)
  BY PrefixByElements

\* Recovery settles on CURRENT, or else on the newest generation that is whole.
Settles ==
    /\ CommittedLog \in Seq(1..MaxOperations) /\ Effective \in Pointer
    /\ Valid(current) => Effective = current
    /\ Effective = NoGeneration => CompleteGenerations = {} /\ CommittedLog = <<>>
    /\ Effective # NoGeneration =>
           Effective \in CompleteGenerations /\ CommittedLog = gens[Effective].log
    /\ ~Valid(current) => \A g \in CompleteGenerations : g <= Effective

LEMMA Settling == IInv => Settles
<1> SUFFICES ASSUME IInv
             PROVE  Settles
  OBVIOUS
<1>1. current \in Pointer /\ CompleteGenerations \in SUBSET Generation
  BY DEF IInv, TypeOK, CompleteGenerations
<1>2. \A S \in SUBSET Generation : S # {} => Max(S) \in S /\ \A g \in S : g <= Max(S)
  BY Newest
<1>3. CASE Valid(current)
  BY <1>1, <1>3, LogType DEF Valid, Effective, CommittedLog, Pointer, CompleteGenerations, Settles
<1>4. CASE ~Valid(current) /\ CompleteGenerations = {}
  BY <1>1, <1>4, LogType DEF Effective, CommittedLog, Pointer, Settles
<1>5. CASE ~Valid(current) /\ CompleteGenerations # {}
  <2>1. Effective \in CompleteGenerations /\ \A g \in CompleteGenerations : g <= Effective
    BY <1>1, <1>2, <1>5 DEF Effective
  <2>2. Effective \in Generation /\ Effective # NoGeneration
    BY <1>1, <2>1 DEF Generation, NoGeneration
  <2> QED
    BY <1>1, <1>5, <2>1, <2>2, LogType DEF CommittedLog, Pointer, Settles
<1> QED
  BY <1>3, <1>4, <1>5

LEMMA SettlingNext == IInv' => Settles'
  BY Settling, PTL

\* The lock's holder takes a step: the others produce nothing.
LEMMA OnlyProducer ==
    ASSUME IInv, NEW p \in Process, pc[p] \in Inside, \A q \in Process : q # p => pc'[q] = pc[q],
           Numbered', Linear', Producing(p)'
    PROVE  RInv'
<1>1. ASSUME NEW q \in Process, q # p PROVE Producing(q)'
  <2>1. pc'[q] \notin Inside
    BY <1>1 DEF IInv, OneWriter
  <2> QED
    BY <2>1 DEF Producing
<1> QED
  BY <1>1 DEF RInv

\* Nothing is found that could not be found before.
LEMMA ShrunkLinear ==
    ASSUME IInv, RInv, UNCHANGED <<gens, current>>, operations' \in Nat, operations <= operations',
           \A g \in Generation : gensOnDisk'[g] \subseteq Versions(g),
           currentOnDisk' \subseteq currentOnDisk \cup {current}
    PROVE  /\ Numbered' /\ Linear'
           /\ Effective' = Effective /\ CommittedLog' = CommittedLog
           /\ CompleteGenerations' = CompleteGenerations /\ (Valid(current)' <=> Valid(current))
           /\ \A log : Extends(log) => Extends(log)'
<1>1. /\ gens \in [Generation -> Directory] /\ gensOnDisk \in [Generation -> SUBSET Directory]
      /\ operations \in Nat /\ Numbered /\ Linear /\ currentOnDisk \in SUBSET Pointer
      /\ current \in Pointer
  BY BoundsAssumption DEF IInv, TypeOK, RInv
<1>2. /\ CompleteGenerations' = CompleteGenerations /\ (Valid(current)' <=> Valid(current))
      /\ Effective' = Effective
  BY DEF CompleteGenerations, Valid, Effective, Complete
<1>3. CommittedLog' = CommittedLog
  BY <1>2 DEF CommittedLog
<1>4. \A g \in Generation : Versions(g)' \subseteq Versions(g)
  BY DEF Versions
<1>5. ASSUME NEW log, Extends(log) PROVE Extends(log)'
  BY <1>1, <1>3, <1>5 DEF Extends
<1>6. Numbered'
  <2>1. ASSUME NEW g \in Generation, NEW dir \in Versions(g)', Exists(dir) \/ Complete(dir)
        PROVE  Len(dir.log) = g + 1 /\ \A i \in DOMAIN dir.log : dir.log[i] <= operations'
    <3>1. dir \in Directory /\ Len(dir.log) = g + 1 /\ \A i \in DOMAIN dir.log : dir.log[i] <= operations
      BY <1>1, <1>4, <2>1 DEF Numbered, Versions
    <3>2. \A i \in DOMAIN dir.log : dir.log[i] \in Nat
      <4>1. dir.log \in Seq(1..MaxOperations)
        BY <3>1 DEF Directory
      <4>2. \A i \in DOMAIN dir.log : dir.log[i] \in 1..MaxOperations
        BY <4>1, ElementOfSeq, LenProperties
      <4> QED
        BY <4>2, BoundsAssumption
    <3> QED
      BY <1>1, <3>1, <3>2
  <2> QED
    BY <2>1 DEF Numbered, Exists, Complete
<1>7. CASE Anchored
  <2>1. \A c \in currentOnDisk' \cup {current'} : c \in Generation /\ c \in currentOnDisk \cup {current}
    BY <1>1, <1>7 DEF Anchored, Pointer
  <2>2. Anchored'
    BY <1>4, <1>7, <2>1 DEF Anchored, Complete
  <2> QED
    BY <1>2, <1>3, <1>5, <1>6, <2>2 DEF Linear
<1>8. CASE Settled
  <2>1. Settled'
    BY <1>2, <1>3, <1>4, <1>5, <1>8 DEF Settled, Complete
  <2> QED
    BY <1>2, <1>3, <1>5, <1>6, <2>1 DEF Linear
<1> QED
  BY <1>1, <1>7, <1>8 DEF Linear

\* A step that changes nothing on disk and leads nobody into a pass.
LEMMA UndisturbedLinear ==
    ASSUME IInv, RInv, UNCHANGED <<diskVars, operations>>,
           \A p \in Process : pc'[p] \in Inside \ {"sweep"} => pc'[p] = pc[p] /\ call'[p] = call[p]
    PROVE  RInv' /\ CommittedLog' = CommittedLog
<1>1. operations \in Nat
  BY BoundsAssumption DEF IInv, TypeOK
<1>2. /\ Numbered' /\ Linear' /\ CommittedLog' = CommittedLog
      /\ CompleteGenerations' = CompleteGenerations /\ (Valid(current)' <=> Valid(current))
      /\ \A log : Extends(log) => Extends(log)'
  BY <1>1, ShrunkLinear DEF Versions
<1>3. ASSUME NEW p \in Process PROVE Producing(p)'
  <2>1. Producing(p)
    BY DEF RInv
  <2>2. CASE pc'[p] \in Inside \ {"sweep"}
    BY <1>2, <2>1, <2>2 DEF Producing, Exists
  <2>3. CASE pc'[p] \notin Inside \ {"sweep"}
    BY <2>3 DEF Producing
  <2> QED
    BY <2>2, <2>3
<1> QED
  BY <1>2, <1>3 DEF RInv

LEMMA EntryLinear ==
    ASSUME IInv, RInv, NEW p \in Process,
           ReadPointer(p) \/ ReadGeneration(p) \/ Start(p) \/ Enter(p) \/ LockTimeout(p)
    PROVE  RInv' /\ AtomicStep
<1>1. pc \in [Process -> Places] /\ call \in [Process -> Calls]
  BY DEF IInv, TypeOK
<1>2. UNCHANGED <<diskVars, operations, acked>>
  BY DEF ReadPointer, ReadGeneration, Start, Enter, LockTimeout
<1>3. ASSUME NEW q \in Process
      PROVE  pc'[q] \in Inside \ {"sweep"} => pc'[q] = pc[q] /\ call'[q] = call[q]
  BY <1>1 DEF ReadPointer, ReadGeneration, Start, Enter, LockTimeout
<1> QED
  BY <1>2, <1>3, UndisturbedLinear DEF AtomicStep

LEMMA LeaveLinear ==
    ASSUME IInv, RInv, NEW p \in Process, NEW result, Leave(p, result),
           UNCHANGED <<diskVars, operations>>
    PROVE  RInv' /\ CommittedLog' = CommittedLog
<1>1. pc \in [Process -> Places] /\ call \in [Process -> Calls]
  BY DEF IInv, TypeOK
<1> QED
  BY <1>1, UndisturbedLinear

\* A directory that is not whole, or is above CURRENT, goes away in part or as a whole.
LEMMA RemovedLinear ==
    ASSUME IInv, RInv, NEW g \in Generation, NEW left \in {Absent} \cup Torn(gens[g]),
           NEW versions \in SUBSET ({Absent} \cup Torn(gens[g])),
           ~Complete(gens[g]) \/ (Valid(current) /\ g > current),
           gens' = [gens EXCEPT ![g] = left],
           gensOnDisk' = [gensOnDisk EXCEPT ![g] = @ \cup versions],
           UNCHANGED <<current, currentOnDisk, operations>>
    PROVE  /\ Numbered' /\ Linear'
           /\ CommittedLog' = CommittedLog
           /\ (Valid(current)' <=> Valid(current))
<1>1. /\ gens \in [Generation -> Directory] /\ gensOnDisk \in [Generation -> SUBSET Directory]
      /\ operations \in Nat /\ Numbered /\ Linear /\ currentOnDisk \in SUBSET Pointer
      /\ current \in Pointer
  BY BoundsAssumption DEF IInv, TypeOK, RInv
<1>2. \A dir \in {left} \cup versions :
          /\ dir = Absent \/ (dir.log = gens[g].log /\ dir.files \subseteq gens[g].files)
          /\ ~Complete(Absent) /\ ~Exists(Absent)
  <2>1. ASSUME NEW dir \in Torn(gens[g]) PROVE dir.log = gens[g].log /\ dir.files \subseteq gens[g].files
    <3>1. PICK files \in SUBSET gens[g].files : dir = [gens[g] EXCEPT !.files = files]
      BY <2>1 DEF Torn
    <3>2. gens[g] \in Directory
      BY <1>1
    <3> QED
      BY <3>1, <3>2 DEF Directory
  <2> QED
    BY <2>1 DEF Absent, Complete, Files, Exists
<1>3. \A h \in Generation : \A dir \in Versions(h)' :
          \/ dir \in Versions(h)
          \/ h = g /\ dir = Absent
          \/ h = g /\ dir.log = gens[g].log /\ (Complete(dir) => Complete(gens[g]))
  <2>1. \A dir \in {left} \cup versions :
            dir = Absent \/ (dir.log = gens[g].log /\ (Complete(dir) => Complete(gens[g])))
    <3>1. gens[g].files \subseteq Files
      BY <1>1 DEF Directory
    <3> QED
      BY <1>2, <3>1 DEF Complete
  <2> QED
    BY <1>1, <2>1 DEF Versions
<1>4. \A h \in Generation : h # g => gens'[h] = gens[h]
  BY <1>1
<1>5. Valid(current)' <=> Valid(current)
  <2>1. CASE current = g
    <3>1. ~Complete(gens[g]) /\ ~Complete(left)
      <4>1. ~Complete(gens[g])
        BY <1>1, <2>1, BoundsAssumption DEF Generation
      <4>2. gens[g].files \subseteq Files
        BY <1>1 DEF Directory
      <4> QED
        BY <1>2, <4>1, <4>2 DEF Complete
    <3> QED
      BY <1>1, <2>1, <3>1 DEF Valid, Complete
  <2>2. CASE current # g
    BY <1>1, <1>4, <2>2 DEF Valid, Complete, Pointer
  <2> QED
    BY <2>1, <2>2
<1>6. Effective' = Effective /\ CommittedLog' = CommittedLog
  <2>1. CASE Valid(current)
    BY <1>1, <1>4, <1>5, <2>1, BoundsAssumption DEF Valid, Effective, CommittedLog, Pointer, Generation, NoGeneration
  <2>2. CASE ~Valid(current)
    <3>1. ~Complete(gens[g]) /\ ~Complete(left)
      <4>1. gens[g].files \subseteq Files
        BY <1>1 DEF Directory
      <4> QED
        BY <1>2, <2>2, <4>1 DEF Complete
    <3>2. CompleteGenerations' = CompleteGenerations
      BY <1>1, <1>4, <3>1 DEF CompleteGenerations, Complete
    <3>3. Effective' = Effective
      BY <1>5, <2>2, <3>2 DEF Effective
    <3>4. Settles
      BY Settling
    <3>5. Effective = NoGeneration \/ (Effective \in Generation /\ Effective # g)
      <4>1. Effective # NoGeneration => Effective \in CompleteGenerations
        BY <3>4 DEF Settles
      <4> QED
        BY <3>1, <4>1 DEF CompleteGenerations
    <3> QED
      BY <1>4, <3>3, <3>5 DEF CommittedLog
  <2> QED
    BY <2>1, <2>2
<1>7. Numbered'
  <2>1. ASSUME NEW h \in Generation, NEW dir \in Versions(h)', Exists(dir) \/ Complete(dir)
        PROVE  Len(dir.log) = h + 1 /\ \A i \in DOMAIN dir.log : dir.log[i] <= operations
    <3>1. PICK old \in Versions(h) : old.log = dir.log /\ (Complete(dir) => Complete(old))
      BY <1>2, <1>3, <2>1 DEF Versions, Exists
    <3> QED
      BY <1>1, <2>1, <3>1 DEF Numbered, Exists, Complete
  <2> QED
    BY <2>1 DEF Numbered, Exists, Complete
<1>8. CASE Anchored
  <2>1. current \in Generation /\ g # current /\ \A c \in currentOnDisk \cup {current} : c \in Generation /\ c # g
    BY <1>1, <1>8, BoundsAssumption DEF Anchored, Pointer, Versions, Generation
  <2>2. \A c \in currentOnDisk \cup {current} : Versions(c)' = Versions(c)
    BY <1>1, <2>1 DEF Versions
  <2>3. Anchored'
    BY <1>4, <1>8, <2>1, <2>2 DEF Anchored, Complete
  <2> QED
    BY <1>5, <1>6, <1>7, <2>3 DEF Linear
<1>9. CASE Settled
  <2>1. \A log : Extends(log)' <=> Extends(log)
    BY <1>6 DEF Extends
  <2>2. ASSUME NEW h \in Generation, NEW dir \in Versions(h)', Complete(dir)
        PROVE  /\ Effective' # NoGeneration
               /\ \/ h <= Effective' /\ IsPrefix(dir.log, CommittedLog')
                  \/ h = Effective' + 1 /\ Extends(dir.log)'
    <3>1. PICK old \in Versions(h) : Complete(old) /\ old.log = dir.log
      BY <1>2, <1>3, <2>2 DEF Versions
    <3> QED
      BY <1>6, <1>9, <2>1, <3>1 DEF Settled
  <2>3. Settled'
    BY <2>2 DEF Settled, Complete
  <2> QED
    BY <1>5, <1>6, <1>7, <2>3 DEF Linear
<1> QED
  BY <1>1, <1>8, <1>9 DEF Linear

LEMMA RecoveryLinear ==
    ASSUME IInv, DInv, RInv, NEW p \in Process, Recovery(p)
    PROVE  RInv' /\ AtomicStep
<1>1. /\ gens \in [Generation -> Directory] /\ gensOnDisk \in [Generation -> SUBSET Directory]
      /\ pc \in [Process -> Places] /\ call \in [Process -> Calls] /\ current \in Pointer
      /\ operations \in Nat /\ Producing(p) /\ Numbered /\ Linear
  BY BoundsAssumption DEF IInv, TypeOK, RInv
\* Most passes only look, or remove what is in the way.
<1>2. ASSUME \/ SweepStaging(p) \/ ScanDone(p) \/ PointerNone(p) \/ PointerKeep(p)
             \/ AbandonDone(p) \/ PointerRepairSync(p)
      PROVE  RInv' /\ AtomicStep
  <2>1. /\ UNCHANGED <<gens, gensOnDisk, current, operations, acked, call>>
        /\ currentOnDisk' \subseteq currentOnDisk \cup {current}
        /\ pc[p] \in Inside /\ \A q \in Process : q # p => pc'[q] = pc[q]
    BY <1>1, <1>2
       DEF SweepStaging, ScanDone, PointerNone, PointerKeep, AbandonDone, PointerRepairSync
  <2>2. /\ Numbered' /\ Linear' /\ CommittedLog' = CommittedLog
        /\ CompleteGenerations' = CompleteGenerations /\ (Valid(current)' <=> Valid(current))
    BY <1>1, <2>1, ShrunkLinear DEF Versions
  <2>3. Producing(p)'
    BY <1>1, <1>2, <2>2
       DEF SweepStaging, ScanDone, PointerNone, PointerKeep, AbandonDone, PointerRepairSync, Producing
  <2> QED
    BY <2>1, <2>2, <2>3, OnlyProducer DEF AtomicStep
<1>3. CASE ScanRemove(p) \/ AbandonRemove(p)
  <2>1. PICK g \in Generation :
            /\ ~Complete(gens[g]) \/ (Valid(current) /\ g > current)
            /\ RemoveTree(g)
    BY <1>1, <1>3 DEF ScanRemove, AbandonRemove, Unmarked, Marked, Complete, Files, Abandoned, Producing
  <2>2. UNCHANGED <<current, currentOnDisk, operations, acked, pc, call>> /\ pc[p] \in {"scan", "abandon"}
    BY <1>3 DEF ScanRemove, AbandonRemove
  <2> DEFINE versions == {Absent} \cup Torn(gens[g])
  <2>3. /\ gens' = [gens EXCEPT ![g] = Absent]
        /\ gensOnDisk' = [gensOnDisk EXCEPT ![g] = @ \cup versions]
    <3>1. gensOnDisk[g] \cup {Absent} \cup Torn(gens[g]) = gensOnDisk[g] \cup versions
      OBVIOUS
    <3> QED
      BY <2>1, <3>1 DEF RemoveTree
  <2>4. versions \in SUBSET ({Absent} \cup Torn(gens[g])) /\ Absent \in {Absent} \cup Torn(gens[g])
    OBVIOUS
  <2> HIDE DEF versions
  <2>5. Numbered' /\ Linear' /\ CommittedLog' = CommittedLog /\ (Valid(current)' <=> Valid(current))
    BY <2>1, <2>2, <2>3, <2>4, RemovedLinear
  <2>6. Producing(p)'
    BY <1>1, <2>2, <2>5 DEF Producing
  <2> QED
    BY <2>2, <2>5, <2>6, OnlyProducer DEF AtomicStep
<1>4. CASE ScanRefuse(p)
  BY <1>4, LeaveLinear DEF ScanRefuse, AtomicStep
\* CURRENT is pointed at what it stood for.
<1>5. CASE PointerRepair(p)
  <2>1. PICK newest \in CompleteGenerations :
            (\A g \in CompleteGenerations : g <= newest) /\ ReplaceCurrent(newest)
    BY <1>5 DEF PointerRepair
  <2>2. ~Valid(current) /\ UNCHANGED <<gens, gensOnDisk, operations, acked>>
    BY <1>5 DEF PointerRepair
  <2>3. newest \in Generation /\ newest # NoGeneration /\ Complete(gens[newest]) /\ current' = newest
    BY <2>1 DEF CompleteGenerations, Generation, NoGeneration, ReplaceCurrent
  <2>4. Settles
    BY Settling
  <2>5. Effective = newest
    <3>1. Effective # NoGeneration
      BY <2>1, <2>4 DEF Settles
    <3>2. Effective \in CompleteGenerations /\ newest <= Effective /\ Effective <= newest
      BY <2>1, <2>2, <2>4, <3>1 DEF Settles
    <3> QED
      BY <2>3, <3>2 DEF CompleteGenerations, Generation
  <2>6. Valid(current)' /\ Effective' = newest
    BY <2>2, <2>3 DEF Valid, Effective, Complete
  <2>7. CommittedLog' = CommittedLog
    BY <2>2, <2>5, <2>6 DEF CommittedLog
  <2>8. Numbered'
    BY <1>1, <2>2 DEF Numbered, Versions, Exists, Complete
  <2>9. Settled
    BY <1>1, <2>2 DEF Linear, Anchored, Valid, Versions
  <2>10. Settled'
    BY <2>2, <2>5, <2>6, <2>7, <2>9 DEF Settled, Versions, Complete, Extends
  <2>11. Producing(p)'
    BY <1>1, <1>5, <2>6 DEF PointerRepair, Producing
  <2> QED
    BY <1>1, <1>5, <2>2, <2>7, <2>8, <2>10, <2>11, OnlyProducer DEF PointerRepair, Linear, AtomicStep
<1> QED
  BY <1>2, <1>3, <1>4, <1>5 DEF Recovery

LEMMA DecisionLinear ==
    ASSUME IInv, DInv, RInv, NEW p \in Process, Decision(p)
    PROVE  RInv' /\ AtomicStep
<1>1. /\ gens \in [Generation -> Directory] /\ gensOnDisk \in [Generation -> SUBSET Directory]
      /\ pc \in [Process -> Places] /\ call \in [Process -> Calls] /\ current \in Pointer
      /\ operations \in Nat /\ Producing(p) /\ Numbered /\ Linear /\ 0 \in Generation
  BY BoundsAssumption DEF IInv, TypeOK, RInv, Generation
<1>2. CASE RecoverReturn(p) \/ InitializeReturn(p) \/ PointerRefuse(p)
           \/ CommitStale(p) \/ CommitReject(p)
  BY <1>2, LeaveLinear
     DEF RecoverReturn, InitializeReturn, PointerRefuse, CommitStale, CommitReject, AtomicStep
<1>3. CASE InitializeStage(p)
  <2> DEFINE fresh == [files |-> {}, log |-> <<operations'>>]
  <2>1. /\ operations' = operations + 1 /\ PutDirectory(0, fresh) /\ current = NoGeneration
        /\ UNCHANGED <<current, currentOnDisk, acked, call>>
        /\ pc[p] = "decide" /\ pc'[p] = "write" /\ call[p] = "initialize"
    BY <1>1, <1>3 DEF InitializeStage
  <2>2. ~Valid(current) /\ CompleteGenerations = {} /\ ~Complete(fresh)
    BY <1>1, <2>1 DEF Valid, Producing, Complete, Files
  <2>3. Effective = NoGeneration /\ CommittedLog = <<>>
    BY <2>2 DEF Effective, CommittedLog
  <2>4. CompleteGenerations' = {}
    BY <1>1, <2>1, <2>2 DEF CompleteGenerations, PutDirectory, Complete
  <2>5. Effective' = NoGeneration /\ CommittedLog' = <<>>
    BY <2>1, <2>4 DEF Effective, CommittedLog, Valid
  <2>6. \A g \in Generation : \A dir \in Versions(g)' : dir \in Versions(g) \/ (g = 0 /\ dir = fresh)
    BY <1>1, <2>1 DEF Versions, PutDirectory
  <2>7. Numbered'
    <3>1. ASSUME NEW g \in Generation, NEW dir \in Versions(g)', Exists(dir) \/ Complete(dir)
          PROVE  Len(dir.log) = g + 1 /\ \A i \in DOMAIN dir.log : dir.log[i] <= operations'
      <4>1. CASE g = 0 /\ dir = fresh
        BY <1>1, <2>1, <4>1
      <4>2. CASE dir \in Versions(g)
        <5>1. dir \in Directory
          BY <1>1, <4>2 DEF Versions
        <5>2. \A i \in DOMAIN dir.log : dir.log[i] \in Nat
          BY <5>1, BoundsAssumption, ElementOfSeq, LenProperties DEF Directory
        <5>3. Len(dir.log) = g + 1 /\ \A i \in DOMAIN dir.log : dir.log[i] <= operations
          BY <1>1, <3>1, <4>2 DEF Numbered
        <5> QED
          BY <1>1, <2>1, <5>2, <5>3
      <4> QED
        BY <2>6, <4>1, <4>2
    <3> QED
      BY <3>1 DEF Numbered, Exists, Complete
  <2>8. Settled'
    <3>1. Settled
      BY <1>1, <2>1 DEF Linear, Anchored
    <3>2. \A g \in Generation : \A dir \in Versions(g) : ~Complete(dir)
      BY <2>3, <3>1 DEF Settled
    <3> QED
      BY <2>2, <2>6, <3>2 DEF Settled, Complete
  <2>9. Producing(p)'
    <3>1. Exists(gens[0])'
      BY <1>1, <2>1 DEF PutDirectory, Exists
    <3> QED
      BY <2>1, <2>4, <3>1 DEF Producing
  <2> QED
    BY <1>1, <1>3, <2>1, <2>3, <2>5, <2>7, <2>8, <2>9, OnlyProducer DEF InitializeStage, Linear, AtomicStep
<1>4. CASE CommitStage(p)
  <2>1. /\ operations' = operations + 1 /\ Valid(current)
        /\ staging'.log = Append(gens[current].log, operations')
        /\ UNCHANGED <<gens, gensOnDisk, current, currentOnDisk, acked, call>>
        /\ pc[p] = "decide" /\ pc'[p] = "write" /\ call[p] = "commit"
        /\ \A q \in Process : q # p => pc'[q] = pc[q]
    BY <1>1, <1>4 DEF CommitStage
  <2>2. /\ Numbered' /\ Linear' /\ CommittedLog' = CommittedLog
        /\ (Valid(current)' <=> Valid(current))
    BY <1>1, <2>1, ShrunkLinear DEF Versions
  <2>3. CommittedLog = gens[current].log /\ current \in Generation
    BY <1>1, <2>1, Settling DEF Valid, Settles, Pointer, CommittedLog
  <2>4. \A i \in DOMAIN CommittedLog : CommittedLog[i] < operations'
    <3>1. gens[current] \in Directory /\ gens[current] \in Versions(current)
      BY <1>1, <2>3 DEF Versions
    <3>2. \A i \in DOMAIN gens[current].log : gens[current].log[i] \in Nat
      BY <3>1, BoundsAssumption, ElementOfSeq, LenProperties DEF Directory
    <3>3. ASSUME NEW i \in DOMAIN gens[current].log PROVE gens[current].log[i] <= operations
      <4>1. gens[current].log # <<>>
        BY <3>1, <3>3 DEF Directory
      <4> QED
        BY <1>1, <2>3, <3>1, <3>3, <4>1 DEF Numbered, Exists, Complete
    <3> QED
      BY <1>1, <2>1, <2>3, <3>2, <3>3
  <2>5. Extends(staging.log)'
    BY <1>1, <2>1, <2>2, <2>3, <2>4 DEF Extends
  <2>6. Producing(p)'
    BY <2>1, <2>2, <2>5 DEF Producing
  <2> QED
    BY <2>1, <2>2, <2>6, OnlyProducer DEF AtomicStep
<1> QED
  BY <1>2, <1>3, <1>4 DEF Decision

\* A promotion takes effect.
LEMMA Applied ==
    ASSUME IInv, CommittedLog \in Seq(1..MaxOperations), Extends(CommittedLog'), UNCHANGED acked
    PROVE  AtomicStep
<1>1. PICK x \in 1..operations :
          CommittedLog' = Append(CommittedLog, x) /\ \A i \in DOMAIN CommittedLog : CommittedLog[i] < x
  BY DEF Extends
<1>2. x \in 1..MaxOperations
  BY BoundsAssumption DEF IInv, TypeOK
<1>3. x \notin Atomic!ToSet(CommittedLog)
  <2>1. ASSUME NEW i \in DOMAIN CommittedLog PROVE CommittedLog[i] # x
    <3>1. CommittedLog[i] < x /\ CommittedLog[i] \in 1..MaxOperations
      BY <1>1, <2>1, ElementOfSeq, LenProperties
    <3> QED
      BY <1>2, <3>1
  <2> QED
    BY <2>1 DEF Atomic!ToSet
<1> QED
  BY <1>1, <1>2, <1>3 DEF AtomicStep, Atomic!Next, Atomic!Apply

\* The next file of generation 0 is written; with the marker, it takes effect.
LEMMA InitializeWriteLinear ==
    ASSUME IInv, RInv, NEW p \in Process, InitializeWrite(p)
    PROVE  RInv' /\ AtomicStep
<1>1. /\ gens \in [Generation -> Directory] /\ gensOnDisk \in [Generation -> SUBSET Directory]
      /\ pc[p] = "write" /\ call[p] = "initialize" /\ current = NoGeneration
      /\ operations \in Nat /\ Producing(p) /\ Numbered /\ Linear /\ 0 \in Generation
      /\ UNCHANGED <<pc, call, current, operations, acked>>
  BY BoundsAssumption DEF IInv, TypeOK, WriterInv, RInv, Generation, InitializeWrite, NoGeneration
<1>2. PICK dir \in NextWrites(gens[0], InitializeOrder) : PutDirectory(0, dir)
  BY DEF InitializeWrite
<1>3. dir \in Directory /\ dir.log = gens[0].log
  BY <1>1, DirectoryParts
<1>4. ~Complete(gens[0])
  <2>1. PICK i \in 1..4 : InitializeOrder[i] \notin gens[0].files
    BY DEF NextWrites
  <2>2. InitializeOrder[i] \in Files
    BY DEF InitializeOrder, Files, CoreFiles
  <2> QED
    BY <2>1, <2>2 DEF Complete
<1>5. CompleteGenerations = {} /\ ~Valid(current) /\ Exists(gens[0])
  BY <1>1, <1>4 DEF Producing, CompleteGenerations, Valid
<1>6. Effective = NoGeneration /\ CommittedLog = <<>>
  BY <1>5 DEF Effective, CommittedLog
<1>7. \A g \in Generation : \A d \in Versions(g)' : d \in Versions(g) \/ (g = 0 /\ d = dir)
  BY <1>1, <1>2 DEF Versions, PutDirectory
<1>8. gens'[0] = dir /\ \A g \in Generation : g # 0 => gens'[g] = gens[g]
  BY <1>1, <1>2 DEF PutDirectory
<1>9. Numbered'
  <2>1. gens[0] \in Versions(0)
    BY DEF Versions
  <2> QED
    BY <1>1, <1>3, <1>7, <2>1 DEF Numbered, Exists, Complete
<1>10. \A g \in Generation : \A d \in Versions(g) : ~Complete(d)
  BY <1>1, <1>6 DEF Linear, Anchored, Settled
<1>11. Extends(dir.log) /\ dir.log \in Seq(1..MaxOperations)
  <2>1. dir.log \in Seq(1..MaxOperations) /\ Len(dir.log) = 1 /\ \A i \in DOMAIN dir.log : dir.log[i] <= operations
    <3>1. gens[0] \in Versions(0)
      BY DEF Versions
    <3>2. dir.log \in Seq(1..MaxOperations)
      BY <1>3 DEF Directory
    <3>3. Len(gens[0].log) = 0 + 1 /\ \A i \in DOMAIN gens[0].log : gens[0].log[i] <= operations
      BY <1>1, <1>5, <3>1 DEF Numbered
    <3> QED
      BY <1>3, <3>2, <3>3
  <2>2. 1 \in DOMAIN dir.log /\ dir.log[1] \in 1..MaxOperations
    <3>1. 1 \in 1..Len(dir.log)
      BY <2>1
    <3>2. dir.log[1] \in 1..MaxOperations
      BY <2>1, <3>1, ElementOfSeq
    <3> QED
      BY <2>1, <3>1, <3>2
  <2>3. dir.log[1] \in 1..operations /\ dir.log = Append(<<>>, dir.log[1])
    <3>1. dir.log[1] \in 1..operations
      BY <1>1, <2>1, <2>2
    <3> QED
      BY <2>1, <2>2, <3>1
  <2> QED
    BY <1>6, <2>1, <2>3 DEF Extends
<1>12. CASE Complete(dir)
  <2>1. CompleteGenerations' = {0}
    <3>1. Complete(gens[0])'
      BY <1>8, <1>12 DEF Complete
    <3>2. \A g \in Generation : g # 0 => ~Complete(gens[g])'
      BY <1>5, <1>8 DEF Complete, CompleteGenerations
    <3> QED
      BY <1>1, <3>1, <3>2 DEF CompleteGenerations
  <2>2. ~Valid(current)'
    BY <1>1 DEF Valid
  <2>3. Effective' = 0
    <3>1. Effective' = Max(CompleteGenerations')
      BY <2>1, <2>2 DEF Effective
    <3>2. Max({0}) \in {0}
      BY <1>1, Newest
    <3> QED
      BY <2>1, <3>1, <3>2
  <2>4. CommittedLog' = dir.log
    BY <1>8, <2>3 DEF CommittedLog, NoGeneration
  <2>5. Settled'
    <3>1. ASSUME NEW g \in Generation, NEW d \in Versions(g)', Complete(d) PROVE g = 0 /\ d = dir
      BY <1>7, <1>10, <3>1
    <3>2. IsPrefix(dir.log, dir.log)
      BY <1>11, PrefixFacts
    <3>3. 0 <= Effective' /\ Effective' # NoGeneration
      BY <2>3 DEF NoGeneration
    <3> QED
      BY <2>4, <3>1, <3>2, <3>3 DEF Settled, Complete
  <2>6. Producing(p)'
    BY <1>1, <1>3, <1>5, <1>8, <2>1 DEF Producing, Exists
  <2>7. AtomicStep
    BY <1>1, <1>6, <1>11, <2>4, Applied
  <2> QED
    BY <1>1, <1>9, <2>5, <2>6, <2>7, OnlyProducer DEF Linear
<1>13. CASE ~Complete(dir)
  <2>1. CompleteGenerations' = {}
    <3>1. \A g \in Generation : ~Complete(gens[g])'
      BY <1>5, <1>8, <1>13 DEF Complete, CompleteGenerations
    <3> QED
      BY <3>1 DEF CompleteGenerations
  <2>2. Effective' = NoGeneration /\ CommittedLog' = <<>>
    BY <1>1, <2>1 DEF Effective, CommittedLog, Valid
  <2>3. Settled'
    BY <1>7, <1>10, <1>13 DEF Settled, Complete
  <2>4. Producing(p)'
    BY <1>1, <1>3, <1>5, <1>8, <2>1 DEF Producing, Exists
  <2> QED
    BY <1>1, <1>6, <1>9, <2>2, <2>3, <2>4, OnlyProducer DEF Linear, AtomicStep
<1> QED
  BY <1>12, <1>13

\* The finished staging directory gets its number.
LEMMA PublishLinear ==
    ASSUME IInv, RInv, NEW p \in Process, CommitPublish(p)
    PROVE  RInv' /\ AtomicStep
<1>1. /\ gens \in [Generation -> Directory] /\ gensOnDisk \in [Generation -> SUBSET Directory]
      /\ pc \in [Process -> Places] /\ pc[p] = "write" /\ pc'[p] = "syncGenerations"
      /\ call[p] = "commit" /\ current \in 0..(MaxGeneration - 1) /\ staging \in Directory
      /\ operations \in Nat /\ Producing(p) /\ Numbered /\ Linear /\ currentOnDisk \in SUBSET Pointer
      /\ UNCHANGED <<call, current, currentOnDisk, operations, acked>>
      /\ \A q \in Process : q # p => pc'[q] = pc[q]
  BY BoundsAssumption DEF IInv, TypeOK, WriterInv, RInv, CommitPublish
<1>2. /\ PutDirectory(current + 1, staging) /\ Valid(current) /\ Extends(staging.log)
      /\ current + 1 \in Generation /\ current \in Generation /\ current # current + 1
  BY <1>1, BoundsAssumption DEF CommitPublish, Target, Producing, Generation
<1>3. /\ gens'[current + 1] = staging
      /\ \A g \in Generation : g # current + 1 => gens'[g] = gens[g] /\ Versions(g)' = Versions(g)
      /\ \A d \in Versions(current + 1)' : d \in Versions(current + 1) \/ d = staging
  BY <1>1, <1>2 DEF PutDirectory, Versions
<1>4. Settles
  BY Settling
<1>5. /\ Valid(current)' /\ Effective = current /\ Effective' = current
      /\ CommittedLog = gens[current].log /\ CommittedLog' = CommittedLog
  <2>1. Valid(current)' /\ current # NoGeneration
    BY <1>1, <1>2, <1>3 DEF Valid, Complete
  <2>2. Effective = current /\ Effective' = current
    BY <1>1, <1>2, <2>1 DEF Effective
  <2> QED
    BY <1>2, <1>3, <2>1, <2>2 DEF CommittedLog
<1>6. \A log : Extends(log)' <=> Extends(log)
  BY <1>1, <1>5 DEF Extends
<1>7. Len(staging.log) = current + 2 /\ \A i \in DOMAIN staging.log : staging.log[i] <= operations
  <2>1. PICK x \in 1..operations : /\ staging.log = Append(CommittedLog, x)
                                   /\ \A i \in DOMAIN CommittedLog : CommittedLog[i] < x
    BY <1>2 DEF Extends
  <2>2. gens[current] \in Versions(current) /\ Complete(gens[current])
    BY <1>2 DEF Versions, Valid
  <2>3. Len(CommittedLog) = current + 1
    BY <1>1, <1>2, <1>5, <2>2 DEF Numbered
  <2>4. CommittedLog \in Seq(1..MaxOperations)
    BY <1>4 DEF Settles
  <2>5. ASSUME NEW i \in DOMAIN staging.log PROVE staging.log[i] <= operations
    <3>1. i \in 1..(Len(CommittedLog) + 1)
      BY <2>1, <2>4, <2>5
    <3>2. CASE i = Len(CommittedLog) + 1
      BY <1>1, <2>1, <2>4, <3>2
    <3>3. CASE i \in 1..Len(CommittedLog)
      <4>1. staging.log[i] = CommittedLog[i] /\ CommittedLog[i] < x /\ CommittedLog[i] \in 1..MaxOperations
        <5>1. CommittedLog[i] \in 1..MaxOperations
          BY <2>4, <3>3, ElementOfSeq
        <5>2. i \in DOMAIN CommittedLog /\ Append(CommittedLog, x)[i] = CommittedLog[i]
          BY <2>4, <3>3
        <5> QED
          BY <2>1, <5>1, <5>2
      <4> QED
        BY <1>1, <4>1
    <3> QED
      BY <2>4, <3>1, <3>2, <3>3
  <2> QED
    BY <1>1, <2>1, <2>3, <2>4, <2>5
<1>8. Numbered'
  <2>1. ASSUME NEW g \in Generation, NEW d \in Versions(g)', Exists(d) \/ Complete(d)
        PROVE  Len(d.log) = g + 1 /\ \A i \in DOMAIN d.log : d.log[i] <= operations
    <3>1. CASE d \in Versions(g)
      BY <1>1, <2>1, <3>1 DEF Numbered
    <3>2. CASE g = current + 1 /\ d = staging
      BY <1>1, <1>7, <3>2
    <3> QED
      BY <1>1, <1>3, <2>1, <3>1, <3>2
  <2> QED
    BY <1>1, <2>1 DEF Numbered, Exists, Complete
<1>9. Linear'
  <2>1. CASE Anchored
    <3>1. ASSUME NEW c \in currentOnDisk \cup {current}
          PROVE  c \in Generation /\ c <= current /\ c # current + 1
      <4>1. c # NoGeneration /\ c <= current /\ c \in Pointer
        <5>1. current \in Pointer
          BY <1>2 DEF Pointer
        <5> QED
          BY <1>1, <2>1, <3>1, <5>1 DEF Anchored
      <4> QED
        BY <1>1, <4>1, BoundsAssumption DEF Pointer, Generation
    <3>2. Anchored'
      BY <1>1, <1>2, <1>3, <2>1, <3>1 DEF Anchored, Complete
    <3> QED
      BY <3>2 DEF Linear
  <2>2. CASE Settled
    <3>1. ASSUME NEW g \in Generation, NEW d \in Versions(g)', Complete(d)
          PROVE  /\ Effective' # NoGeneration
                 /\ \/ g <= Effective' /\ IsPrefix(d.log, CommittedLog')
                    \/ g = Effective' + 1 /\ Extends(d.log)'
      <4>1. CASE d \in Versions(g)
        BY <1>5, <1>6, <2>2, <3>1, <4>1 DEF Settled
      <4>2. CASE g = current + 1 /\ d = staging
        BY <1>1, <1>2, <1>5, <1>6, <4>2 DEF NoGeneration
      <4> QED
        BY <1>1, <1>3, <3>1, <4>1, <4>2
    <3>2. Settled'
      BY <3>1 DEF Settled, Complete
    <3> QED
      BY <3>2 DEF Linear
  <2> QED
    BY <1>1, <2>1, <2>2 DEF Linear
<1>10. Producing(p)'
  BY <1>1, <1>2, <1>3, <1>5, <1>6 DEF Producing
<1> QED
  BY <1>1, <1>5, <1>8, <1>9, <1>10, OnlyProducer DEF AtomicStep

\* CURRENT names what the call produced: a promotion takes effect.
LEMMA PointLinear ==
    ASSUME IInv, DInv, RInv, NEW p \in Process, PointCurrent(p)
    PROVE  RInv' /\ AtomicStep
<1>1. /\ gens \in [Generation -> Directory] /\ gensOnDisk \in [Generation -> SUBSET Directory]
      /\ pc \in [Process -> Places] /\ pc[p] = "point" /\ pc'[p] = "syncPointer"
      /\ \/ call[p] = "initialize" /\ current = NoGeneration
         \/ call[p] = "commit" /\ current \in 0..(MaxGeneration - 1)
      /\ operations \in Nat /\ Producing(p) /\ Numbered /\ Linear /\ currentOnDisk \in SUBSET Pointer
      /\ UNCHANGED <<call, gens, gensOnDisk, operations, acked>>
      /\ current' = Target(p) /\ currentOnDisk' = currentOnDisk \cup {Target(p)}
      /\ \A q \in Process : q # p => pc'[q] = pc[q]
  BY DEF IInv, TypeOK, WriterInv, RInv, PointCurrent, ReplaceCurrent
<1>2. Complete(gens[Target(p)]) /\ gensOnDisk[Target(p)] = {gens[Target(p)]}
  BY <1>1 DEF DInv, WriterDurable, Holds
<1>3. Settles
  BY Settling
<1>4. Target(p) \in Generation /\ Target(p) # NoGeneration
  BY <1>1, BoundsAssumption DEF Target, Generation, NoGeneration
<1>5. Valid(current)' /\ Effective' = Target(p) /\ CommittedLog' = gens[Target(p)].log
  <2>1. Valid(current)'
    BY <1>1, <1>2, <1>4 DEF Valid, Complete
  <2>2. Effective' = Target(p)
    BY <1>1, <2>1 DEF Effective
  <2> QED
    BY <1>1, <1>4, <2>1, <2>2 DEF CommittedLog
<1>6. Numbered'
  BY <1>1 DEF Numbered, Versions, Exists, Complete
<1>7. Producing(p)'
  BY <1>1 DEF Producing
<1>8. gens[Target(p)].log \in Seq(1..MaxOperations)
  BY <1>1, <1>4 DEF Directory
<1>9. IsPrefix(gens[Target(p)].log, gens[Target(p)].log)
  BY <1>8, PrefixFacts
<1>10. CASE call[p] = "initialize"
  <2>1. current = NoGeneration /\ Target(p) = 0 /\ CompleteGenerations \subseteq {0} /\ ~Valid(current)
    BY <1>1, <1>10 DEF Target, Producing, Valid
  <2>2. Effective = 0
    <3>1. 0 \in CompleteGenerations
      BY <1>2, <1>4, <2>1 DEF CompleteGenerations
    <3> QED
      BY <1>3, <2>1, <3>1 DEF Settles
  <2>3. CommittedLog' = CommittedLog /\ Effective' = Effective
    BY <1>3, <1>5, <2>1, <2>2 DEF Settles, NoGeneration
  <2>4. Settled
    BY <1>1, <2>1 DEF Linear, Anchored
  <2>5. Settled'
    BY <1>1, <2>3, <2>4 DEF Settled, Versions, Complete, Extends
  <2> QED
    BY <1>1, <1>6, <1>7, <2>3, <2>5, OnlyProducer DEF Linear, AtomicStep
<1>11. CASE call[p] = "commit"
  <2>1. /\ current \in Generation /\ current + 1 \in Generation /\ Target(p) = current + 1
        /\ Valid(current) /\ Extends(gens[current + 1].log)
    BY <1>1, <1>4, <1>11, BoundsAssumption DEF Target, Producing, Generation
  <2>2. Effective = current /\ CommittedLog = gens[current].log
    BY <1>3, <2>1 DEF Settles, Valid
  <2>3. CommittedLog \in Seq(1..MaxOperations) /\ CommittedLog' \in Seq(1..MaxOperations)
    BY <1>3, <1>5, <1>8 DEF Settles
  <2>4. IsPrefix(CommittedLog, CommittedLog')
    <3>1. PICK x \in 1..operations : CommittedLog' = Append(CommittedLog, x)
      BY <1>5, <2>1 DEF Extends
    <3>2. x \in 1..MaxOperations
      BY <3>1, BoundsAssumption DEF IInv, TypeOK
    <3>3. IsPrefix(CommittedLog, CommittedLog)
      BY <2>3, PrefixFacts
    <3> QED
      BY <2>3, <3>1, <3>2, <3>3, PrefixFacts
  <2>5. AtomicStep
    BY <1>1, <1>5, <2>1, <2>3, Applied
  <2>6. Linear'
    <3>1. CASE Anchored
      <4>1. ASSUME NEW c \in currentOnDisk \cup {current}, NEW dir \in Versions(c)
            PROVE  /\ c # NoGeneration /\ c <= current + 1
                   /\ Complete(dir) /\ IsPrefix(dir.log, CommittedLog')
        <5>1. c # NoGeneration /\ c <= current /\ Complete(dir) /\ IsPrefix(dir.log, CommittedLog)
          BY <2>2, <3>1, <4>1 DEF Anchored
        <5>2. c \in Generation
          BY <1>1, <2>1, <5>1 DEF Pointer
        <5>3. dir \in Directory
          BY <1>1, <5>2 DEF Versions
        <5>4. IsPrefix(dir.log, CommittedLog')
          BY <2>3, <2>4, <5>1, <5>3, PrefixOrder DEF Directory
        <5> QED
          BY <2>1, <5>1, <5>2, <5>4, BoundsAssumption DEF Generation
      <4>2. \A dir \in Versions(current + 1) : dir = gens[current + 1]
        BY <1>2, <2>1 DEF Versions
      <4>3. Complete(gens[current + 1]) /\ IsPrefix(gens[current + 1].log, CommittedLog')
        BY <1>2, <1>5, <1>9, <2>1
      <4>4. \A c : Versions(c)' = Versions(c)
        BY <1>1 DEF Versions
      <4>5. \A c \in currentOnDisk \cup {current} : c # NoGeneration /\ c <= current + 1
        <5>1. ASSUME NEW c \in currentOnDisk \cup {current} PROVE c # NoGeneration /\ c <= current + 1
          <6>1. gens[c] \in Versions(c)
            BY DEF Versions
          <6> QED
            BY <4>1, <5>1, <6>1
        <5> QED
          BY <5>1
      <4>6. current' = current + 1 /\ currentOnDisk' = currentOnDisk \cup {current + 1} /\ gens' = gens
        BY <1>1, <2>1
      <4>7. CommittedLog' = gens'[current'].log
        BY <1>5, <2>1, <4>6
      <4>8. Anchored'
        <5>1. current' # NoGeneration /\ current + 1 <= current + 1 /\ current + 1 # NoGeneration
          BY <1>4, <2>1, <4>6 DEF Generation
        <5>2. ASSUME NEW c \in currentOnDisk' \cup {current'}
              PROVE  /\ c # NoGeneration /\ c <= current'
                     /\ \A dir \in Versions(c) : Complete(dir) /\ IsPrefix(dir.log, CommittedLog')
          <6>1. CASE c = current + 1
            BY <4>2, <4>3, <4>6, <5>1, <6>1
          <6>2. CASE c \in currentOnDisk \cup {current}
            BY <4>1, <4>5, <4>6, <6>2
          <6> QED
            BY <4>6, <6>1, <6>2
        <5>3. \A c : \A dir : Complete(dir)' <=> Complete(dir)
          BY DEF Complete
        <5> QED
          BY <4>4, <4>7, <5>1, <5>2, <5>3 DEF Anchored, Complete
      <4> QED
        BY <4>8 DEF Linear
    <3>2. CASE Settled
      <4>1. ASSUME NEW g \in Generation, NEW dir \in Versions(g), Complete(dir)
            PROVE  g <= current + 1 /\ IsPrefix(dir.log, CommittedLog')
        <5>1. \/ g <= current /\ IsPrefix(dir.log, CommittedLog)
              \/ g = current + 1
          BY <2>2, <3>2, <4>1 DEF Settled
        <5>2. CASE g <= current /\ IsPrefix(dir.log, CommittedLog)
          <6>1. dir.log \in Seq(1..MaxOperations)
            BY <1>1, <4>1 DEF Versions, Directory
          <6>2. IsPrefix(dir.log, CommittedLog')
            BY <2>3, <2>4, <5>2, <6>1, PrefixOrder
          <6> QED
            BY <2>1, <5>2, <6>2 DEF Generation
        <5>3. CASE g = current + 1
          <6>1. dir = gens[current + 1]
            BY <1>2, <2>1, <4>1, <5>3 DEF Versions
          <6> QED
            BY <1>5, <1>9, <2>1, <5>3, <6>1 DEF Generation
        <5> QED
          BY <5>1, <5>2, <5>3
      <4>2. Effective' = current + 1 /\ Effective' # NoGeneration
        BY <1>4, <1>5, <2>1
      <4>3. Settled'
        BY <1>1, <4>1, <4>2 DEF Settled, Versions, Complete
      <4> QED
        BY <4>3 DEF Linear
    <3> QED
      BY <1>1, <3>1, <3>2 DEF Linear
  <2> QED
    BY <1>1, <1>6, <1>7, <2>5, <2>6, OnlyProducer
<1> QED
  BY <1>1, <1>10, <1>11

LEMMA ProductionLinear ==
    ASSUME IInv, DInv, RInv, NEW p \in Process, Production(p)
    PROVE  RInv' /\ AtomicStep
<1>1. /\ gens \in [Generation -> Directory] /\ staging \in Directory
      /\ pc \in [Process -> Places] /\ call \in [Process -> Calls] /\ current \in Pointer
      /\ operations \in Nat /\ Producing(p)
  BY BoundsAssumption DEF IInv, TypeOK, RInv
<1>2. CASE InitializeWrite(p)
  BY <1>2, InitializeWriteLinear
<1>3. CASE CommitPublish(p)
  BY <1>3, PublishLinear
<1>4. CASE PointCurrent(p)
  BY <1>4, PointLinear
\* What only makes sure of what is there.
<1>5. ASSUME InitializeSealed(p) \/ CommitWrite(p) \/ SyncGenerations(p) \/ SyncPointer(p)
      PROVE  RInv' /\ AtomicStep
  <2>1. /\ UNCHANGED <<gens, current, operations, acked, call>>
        /\ \A g \in Generation : gensOnDisk'[g] \subseteq Versions(g)
        /\ currentOnDisk' \subseteq currentOnDisk \cup {current}
        /\ pc[p] \in Inside /\ \A q \in Process : q # p => pc'[q] = pc[q]
    BY <1>1, <1>5 DEF InitializeSealed, CommitWrite, SyncGenerations, SyncPointer, Versions
  <2>2. /\ Numbered' /\ Linear' /\ CommittedLog' = CommittedLog
        /\ CompleteGenerations' = CompleteGenerations /\ (Valid(current)' <=> Valid(current))
        /\ \A log : Extends(log) => Extends(log)'
    BY <1>1, <2>1, ShrunkLinear
  <2>3. Producing(p)'
    <3>1. CASE CommitWrite(p)
      <4>1. staging'.log = staging.log
        BY <1>1, <3>1, DirectoryParts DEF CommitWrite
      <4> QED
        BY <1>1, <2>1, <2>2, <3>1, <4>1 DEF CommitWrite, Producing
    <3>2. CASE InitializeSealed(p) \/ SyncGenerations(p) \/ SyncPointer(p)
      BY <1>1, <2>1, <2>2, <3>2 DEF InitializeSealed, SyncGenerations, SyncPointer, Producing, Exists
    <3> QED
      BY <1>5, <3>1, <3>2
  <2> QED
    BY <2>1, <2>2, <2>3, OnlyProducer DEF AtomicStep
<1>6. CASE Return(p)
  <2>1. /\ UNCHANGED <<diskVars, operations>> /\ acked' = gens[current].log /\ Leave(p, "done")
        /\ Valid(current)
    BY <1>6 DEF Return, DInv, WriterDurable, Holds, Valid, IInv, WriterInv
  <2>2. RInv' /\ CommittedLog' = CommittedLog
    BY <2>1, LeaveLinear
  <2>3. acked' = CommittedLog
    BY <2>1, Settling DEF Settles, Valid
  <2> QED
    BY <2>2, <2>3 DEF AtomicStep, Atomic!Next, Atomic!Acknowledge
<1> QED
  BY <1>2, <1>3, <1>4, <1>5, <1>6 DEF Production

\* A call that dies, and one that dies in the middle of a removal.
LEMMA AbortLinear ==
    ASSUME IInv, DInv, RInv, NEW p \in Process, Abort(p) \/ AbortRemoval(p)
    PROVE  RInv' /\ AtomicStep
<1>1. CASE Abort(p)
  BY <1>1, LeaveLinear DEF Abort, AtomicStep
<1>2. CASE AbortRemoval(p)
  <2>1. PICK g \in Generation :
            /\ \/ pc[p] = "scan" /\ Unmarked(g)
               \/ pc[p] = "abandon" /\ Abandoned(g)
            /\ \E left \in Torn(gens[g]) :
                  /\ gens' = [gens EXCEPT ![g] = left]
                  /\ gensOnDisk' = [gensOnDisk EXCEPT ![g] = @ \cup Torn(gens[g])]
    BY <1>2 DEF AbortRemoval
  <2>2. ~Complete(gens[g]) \/ (Valid(current) /\ g > current)
    BY <2>1 DEF Unmarked, Marked, Complete, Files, Abandoned, RInv, Producing
  <2>3. PICK left \in Torn(gens[g]) :
            /\ gens' = [gens EXCEPT ![g] = left]
            /\ gensOnDisk' = [gensOnDisk EXCEPT ![g] = @ \cup Torn(gens[g])]
    BY <2>1
  <2>4. UNCHANGED <<current, currentOnDisk, operations, acked>>
    BY <1>2 DEF AbortRemoval
  <2>5. Numbered' /\ Linear' /\ CommittedLog' = CommittedLog
    <3> DEFINE versions == Torn(gens[g])
    <3>1. /\ versions \in SUBSET ({Absent} \cup Torn(gens[g]))
          /\ left \in {Absent} \cup Torn(gens[g])
      BY <2>3
    <3>2. gens' = [gens EXCEPT ![g] = left] /\ gensOnDisk' = [gensOnDisk EXCEPT ![g] = @ \cup versions]
      BY <2>3
    <3> HIDE DEF versions
    <3> QED
      BY <2>2, <2>4, <3>1, <3>2, RemovedLinear
  <2>6. /\ pc \in [Process -> Places] /\ pc' = [pc EXCEPT ![p] = "idle"] /\ pc[p] \in Inside
        /\ \A q \in Process : q # p => pc'[q] = pc[q]
    BY <1>2, <2>1 DEF AbortRemoval, IInv, TypeOK
  <2>7. Producing(p)'
    BY <2>6 DEF Producing
  <2> QED
    BY <2>4, <2>5, <2>6, <2>7, OnlyProducer DEF AtomicStep
<1> QED
  BY <1>1, <1>2

\* Whatever is found is a part of the history, or one promotion more.
LEMMA PowerLossLinear ==
    ASSUME IInv, DInv, RInv, PowerLoss, IInv', DInv'
    PROVE  RInv' /\ AtomicStep
<1>1. /\ gens \in [Generation -> Directory] /\ gensOnDisk \in [Generation -> SUBSET Directory]
      /\ gens' \in [Generation -> Directory]
      /\ current \in Pointer /\ currentOnDisk \in SUBSET Pointer /\ current' \in Pointer
      /\ operations \in Nat /\ Numbered /\ Linear
  BY BoundsAssumption DEF IInv, TypeOK, RInv
<1> DEFINE unsynced == {g \in Generation : gensOnDisk[g] # {gens[g]}}
<1>2. PICK found \in [unsynced -> UNION {gensOnDisk[g] : g \in unsynced}] :
          /\ \A g \in unsynced : found[g] \in gensOnDisk[g]
          /\ gens' = [g \in Generation |-> IF g \in unsynced THEN found[g] ELSE gens[g]]
  BY DEF PowerLoss
<1>3. \A g \in Generation : gens'[g] \in Versions(g)
  BY <1>2 DEF Versions
<1>4. /\ gensOnDisk' = [g \in Generation |-> {gens'[g]}] /\ acked' = acked /\ operations' = operations
      /\ current' \in currentOnDisk /\ currentOnDisk' = {current'}
      /\ \A p \in Process : pc'[p] = "idle"
  BY DEF PowerLoss
<1> HIDE DEF unsynced
<1>5. \A g \in Generation : Versions(g)' = {gens'[g]}
  BY <1>4 DEF Versions
<1>6. Settles /\ Settles'
  BY Settling, SettlingNext
<1>7. Numbered' /\ \A p \in Process : Producing(p)'
  BY <1>1, <1>3, <1>4, <1>5 DEF Numbered, Producing, Exists, Complete
<1>8. CommittedLog \in Seq(1..MaxOperations) /\ CommittedLog' \in Seq(1..MaxOperations)
  BY <1>6 DEF Settles
<1>9. ASSUME IsPrefix(CommittedLog', CommittedLog) PROVE AtomicStep
  <2>1. IsPrefix(acked, CommittedLog')
    <3>1. AcknowledgedSurvives'
      <4>1. IInv' /\ DInv' => AcknowledgedSurvives'
        BY AcknowledgedFirst, PTL
      <4> QED
        BY <4>1
    <3> QED
      BY <1>4, <3>1 DEF AcknowledgedSurvives
  <2>2. CommittedLog' \in Prefixes(CommittedLog)
    BY <1>8, <1>9, PrefixByElements
  <2> QED
    BY <1>4, <2>1, <2>2 DEF AtomicStep, Atomic!Next, Atomic!Forget, Prefixes, Atomic!Prefixes,
                            IsPrefix, Atomic!IsPrefix
\* Once CURRENT names a whole generation, it is all that can be found.
<1>10. ASSUME Valid(current)' PROVE Linear'
  <2>1. current' \in Generation /\ current' # NoGeneration /\ Complete(gens[current])'
    BY <1>1, <1>10 DEF Valid, Pointer
  <2>2. gens'[current'].log \in Seq(1..MaxOperations)
    BY <1>1, <2>1 DEF Directory
  <2>3. IsPrefix(gens'[current'].log, gens'[current'].log)
    BY <2>2, PrefixFacts
  <2>4. current' <= current'
    BY <2>1 DEF Generation
  <2>5. Anchored'
    BY <1>4, <1>5, <2>1, <2>3, <2>4 DEF Anchored, Complete
  <2> QED
    BY <2>5 DEF Linear
<1>11. CASE Anchored
  <2>1. current' \in Generation /\ current \in Generation
    BY <1>1, <1>4, <1>11 DEF Anchored, Pointer
  <2>2. /\ Complete(gens'[current']) /\ IsPrefix(gens'[current'].log, gens[current].log)
        /\ Complete(gens[current]) /\ current # NoGeneration /\ current' # NoGeneration
    BY <1>3, <1>4, <1>11, <2>1 DEF Anchored, Versions
  <2>3. Valid(current) /\ Valid(current)'
    BY <2>2 DEF Valid, Complete
  <2>4. CommittedLog = gens[current].log /\ CommittedLog' = gens'[current'].log
    BY <1>6, <2>2, <2>3 DEF Settles
  <2> QED
    BY <1>7, <1>9, <1>10, <2>2, <2>3, <2>4 DEF RInv
<1>12. CASE Settled /\ Effective' = NoGeneration
  <2>1. CommittedLog' = <<>> /\ \A g \in Generation : ~Complete(gens'[g])
    BY <1>6, <1>12 DEF Settles, CompleteGenerations, Complete
  <2>2. IsPrefix(CommittedLog', CommittedLog)
    BY <1>8, <2>1, PrefixFacts
  <2>3. Settled'
    BY <1>5, <2>1 DEF Settled, Complete
  <2> QED
    BY <1>7, <1>9, <2>2, <2>3 DEF RInv, Linear
<1>13. CASE Settled /\ Effective' # NoGeneration
  <2> DEFINE f == Effective'
  <2>1. f \in Generation /\ Complete(gens'[f]) /\ CommittedLog' = gens'[f].log
    BY <1>6, <1>13 DEF Settles, CompleteGenerations, Complete
  <2>2. \A g \in Generation : Complete(gens'[g]) =>
            /\ Effective \in Generation
            /\ \/ g <= Effective /\ IsPrefix(gens'[g].log, CommittedLog)
               \/ g = Effective + 1 /\ Extends(gens'[g].log)
    BY <1>3, <1>6, <1>13 DEF Settled, Settles, CompleteGenerations
  <2>3. \A g \in Generation : Complete(gens'[g]) =>
            Len(gens'[g].log) = g + 1 /\ gens'[g].log \in Seq(1..MaxOperations)
    BY <1>1, <1>3 DEF Numbered, Directory
  <2> HIDE DEF f
  <2>4. AtomicStep
    BY <1>4, <1>8, <1>9, <2>1, <2>2, Applied
  <2>5. ASSUME ~Valid(current)' PROVE Settled'
    <3>1. \A g \in Generation : Complete(gens'[g]) => g <= f
      BY <1>6, <2>5 DEF Settles, CompleteGenerations, Complete, f
    <3>2. ASSUME NEW g \in Generation, Complete(gens'[g])
          PROVE  IsPrefix(gens'[g].log, CommittedLog')
      <4>1. CASE f <= Effective
        <5>1. IsPrefix(CommittedLog', CommittedLog) /\ IsPrefix(gens'[g].log, CommittedLog)
          BY <2>1, <2>2, <3>1, <3>2, <4>1 DEF Generation
        <5>2. Len(gens'[g].log) <= Len(CommittedLog')
          BY <2>1, <2>3, <3>1, <3>2 DEF Generation
        <5> QED
          BY <1>8, <2>3, <3>2, <5>1, <5>2, PrefixOrder
      <4>2. CASE f = Effective + 1 /\ g = f
        BY <1>8, <2>1, <4>2, PrefixFacts
      <4>3. CASE f = Effective + 1 /\ g # f
        <5>1. Effective \in Generation
          BY <2>1, <2>2
        <5>2. IsPrefix(gens'[g].log, CommittedLog) /\ Extends(CommittedLog')
          BY <2>1, <2>2, <3>1, <3>2, <4>3, <5>1 DEF Generation
        <5>3. PICK x \in 1..operations : CommittedLog' = Append(CommittedLog, x)
          BY <5>2 DEF Extends
        <5>4. x \in 1..MaxOperations
          BY <5>3, BoundsAssumption DEF IInv, TypeOK
        <5> QED
          BY <1>8, <2>3, <3>2, <5>2, <5>3, <5>4, PrefixFacts
      <4> QED
        BY <2>1, <2>2, <4>1, <4>2, <4>3
    <3> QED
      BY <1>5, <1>13, <3>1, <3>2 DEF Settled, Complete, f
  <2> QED
    BY <1>7, <1>10, <2>4, <2>5 DEF RInv, Linear
<1> QED
  BY <1>1, <1>11, <1>12, <1>13 DEF Linear

LEMMA InitLinear == Init => RInv /\ Atomic!Init
<1> SUFFICES ASSUME Init
             PROVE  RInv /\ Atomic!Init
  OBVIOUS
<1>1. /\ \A g \in Generation : gens[g] = Absent /\ gensOnDisk[g] = {Absent}
      /\ current = NoGeneration /\ acked = <<>> /\ \A p \in Process : pc[p] = "idle"
  BY DEF Init
<1>2. \A g \in Generation : \A dir \in Versions(g) : ~Exists(dir) /\ ~Complete(dir)
  <2>1. ~Exists(Absent) /\ ~Complete(Absent)
    BY DEF Exists, Complete, Absent, Files
  <2>2. \A g \in Generation : Versions(g) = {Absent}
    BY <1>1 DEF Versions
  <2> QED
    BY <2>1, <2>2
<1>3. CommittedLog = <<>>
  BY <1>1, <1>2 DEF CommittedLog, Effective, Valid, CompleteGenerations, Versions
<1> QED
  BY <1>1, <1>2, <1>3 DEF RInv, Numbered, Linear, Settled, Producing, Atomic!Init

LEMMA NextLinear ==
    IInv /\ DInv /\ RInv /\ [Next]_vars /\ IInv' /\ DInv' => RInv' /\ AtomicStep
<1> SUFFICES ASSUME IInv, DInv, RInv, [Next]_vars, IInv', DInv'
             PROVE  RInv' /\ AtomicStep
  OBVIOUS
<1>1. CASE UNCHANGED vars
  BY <1>1, UndisturbedLinear DEF vars, AtomicStep
<1>2. ASSUME NEW p \in Process, ReadPointer(p) \/ Start(p)
      PROVE  RInv' /\ AtomicStep
  BY <1>2, EntryLinear
<1>3. ASSUME NEW p \in Process, Progress(p)
      PROVE  RInv' /\ AtomicStep
  BY <1>3, EntryLinear, RecoveryLinear, DecisionLinear, ProductionLinear DEF Progress
<1>4. ASSUME NEW p \in Process, Abort(p) \/ AbortRemoval(p)
      PROVE  RInv' /\ AtomicStep
  BY <1>4, AbortLinear
<1> QED
  BY <1>1, <1>2, <1>3, <1>4, PowerLossLinear DEF Next

-------------------------------------------------------------------------------
(* While the power does not fail                                             *)

\* Nothing whole is further above CURRENT than the next generation.
NothingBeyond == \A g \in Generation : g > current + 1 => ~Complete(gens[g])

\* What a process has loaded is still there, and what it stages follows that.
Remembered(p) ==
    /\ base[p] # NoGeneration /\ pc[p] # "loading" =>
           base[p] <= current /\ seen[p] = gens[base[p]].log
    /\ pc[p] = "write" /\ call[p] = "commit" => base[p] = current

HistoryInv ==
    powerLosses = 0 =>
        HistoryReadable /\ NothingBeyond /\ \A p \in Process : Remembered(p)

\* A step of a process leaves the history as it is, or adds the next generation.
HistoryGrows ==
    /\ \A g \in 0..current : gens'[g] = gens[g]
    /\ \A g \in Generation : g > current + 1 /\ Complete(gens'[g]) => Complete(gens[g])
    /\ \/ current' = current
       \/ current' = current + 1 /\ current' \in Generation /\ Complete(gens'[current'])

LEMMA StaysReadable ==
    ASSUME IInv, HistoryReadable, NothingBeyond, HistoryGrows
    PROVE  HistoryReadable' /\ NothingBeyond'
<1>1. current \in Pointer /\ MaxGeneration \in Nat
  BY BoundsAssumption DEF IInv, TypeOK
<1>2. CASE current' = current
  <2>1. HistoryReadable'
    BY <1>1, <1>2 DEF HistoryReadable, HistoryGrows, Complete
  <2>2. NothingBeyond'
    BY <1>1, <1>2 DEF NothingBeyond, HistoryGrows, Complete
  <2> QED
    BY <2>1, <2>2
<1>3. CASE current' = current + 1 /\ current' \in Generation /\ Complete(gens'[current'])
  <2>1. ASSUME NEW g \in 0..current' PROVE Complete(gens'[g])
    <3>1. g = current' \/ g \in 0..current
      BY <1>1, <1>3 DEF Pointer, Generation, NoGeneration
    <3>2. ASSUME g \in 0..current PROVE Complete(gens'[g])
      <4>1. current # NoGeneration
        BY <1>1, <3>2 DEF NoGeneration
      <4> QED
        BY <3>2, <4>1 DEF HistoryReadable, HistoryGrows
    <3> QED
      BY <1>3, <3>1, <3>2
  <2>2. HistoryReadable'
    BY <2>1 DEF HistoryReadable, Complete
  <2>3. ASSUME NEW g \in Generation, g > current' + 1 PROVE ~Complete(gens'[g])
    <3>1. g > current + 1
      BY <1>1, <1>3, <2>3 DEF Pointer, Generation, NoGeneration
    <3> QED
      BY <3>1 DEF NothingBeyond, HistoryGrows
  <2>4. NothingBeyond'
    BY <2>3 DEF NothingBeyond, Complete
  <2> QED
    BY <2>2, <2>4
<1> QED
  BY <1>2, <1>3 DEF HistoryGrows

\* An entry that is above CURRENT changes: the history does not.
LEMMA OutsideHistory ==
    ASSUME IInv, NEW g \in Generation, NEW dir, g > current,
           gens' = [gens EXCEPT ![g] = dir], UNCHANGED current,
           g = current + 1 \/ ~Complete(dir)
    PROVE  HistoryGrows
<1>1. /\ current \in Pointer /\ DOMAIN gens = Generation /\ MaxGeneration \in Nat
  BY BoundsAssumption DEF IInv, TypeOK
<1>2. \A h \in 0..current : h \in Generation /\ h # g
  BY <1>1 DEF Pointer, Generation, NoGeneration
<1> QED
  BY <1>1, <1>2 DEF HistoryGrows, Generation

\* What is removed, or half of it, is not whole.
LEMMA PartsAreNotWhole ==
    /\ ~Complete(Absent)
    /\ \A dir \in Directory : \A left \in Torn(dir) : ~Complete(dir) => ~Complete(left)
<1>1. ~Complete(Absent)
  BY DEF Complete, Absent, Files
<1>2. ASSUME NEW dir \in Directory, NEW left \in Torn(dir), Complete(left)
      PROVE  Complete(dir)
  <2>1. PICK rest \in SUBSET dir.files : left = [dir EXCEPT !.files = rest]
    BY DEF Torn
  <2>2. left.files = rest /\ dir.files \in SUBSET Files
    BY <2>1 DEF Directory
  <2> QED
    BY <1>2, <2>2 DEF Complete
<1> QED
  BY <1>1, <1>2

\* What recovery removes is no part of the history.
LEMMA UnmarkedIsAbove ==
    ASSUME IInv, HistoryReadable, NEW g \in Generation, Unmarked(g) \/ Abandoned(g)
    PROVE  g > current
<1>1. current \in Pointer
  BY DEF IInv, TypeOK
<1>2. CASE Abandoned(g)
  BY <1>2 DEF Abandoned
<1>3. CASE Unmarked(g)
  <2>1. ~Complete(gens[g])
    BY <1>3 DEF Unmarked, Marked, Complete, Files
  <2>2. current # NoGeneration => g \notin 0..current
    BY <2>1 DEF HistoryReadable
  <2> QED
    BY <1>1, <2>2, BoundsAssumption DEF Pointer, Generation, NoGeneration
<1> QED
  BY <1>2, <1>3

LEMMA GrowsUnlessRemoved ==
    ASSUME IInv, DInv, HistoryReadable, NothingBeyond, NEW p \in Process,
           Recovery(p) \/ Abort(p) \/ AbortRemoval(p)
    PROVE  HistoryGrows /\ (current' # current => pc[p] = "pointer" /\ pc'[p] = "repaired")
<1>1. /\ current \in Pointer /\ gens \in [Generation -> Directory] /\ MaxGeneration \in Nat
      /\ DOMAIN pc = Process
  BY BoundsAssumption DEF IInv, TypeOK
<1>2. ASSUME UNCHANGED <<gens, current>>
      PROVE  HistoryGrows
  BY <1>2 DEF HistoryGrows
<1>3. ASSUME NEW g \in Generation, Unmarked(g) \/ Abandoned(g),
             NEW dir, dir = Absent \/ dir \in Torn(gens[g]),
             gens' = [gens EXCEPT ![g] = dir], UNCHANGED current
      PROVE  HistoryGrows
  <2>1. g > current
    BY <1>3, UnmarkedIsAbove
  <2>2. g = current + 1 \/ ~Complete(gens[g])
    <3>1. g > current + 1 => ~Complete(gens[g])
      BY DEF NothingBeyond
    <3> QED
      BY <1>1, <2>1, <3>1 DEF Pointer, Generation, NoGeneration
  <2>3. ~Complete(gens[g]) => ~Complete(dir)
    BY <1>1, <1>3, PartsAreNotWhole
  <2> QED
    BY <1>3, <2>1, <2>2, <2>3, OutsideHistory
<1>4. CASE SweepStaging(p) \/ ScanRefuse(p) \/ ScanDone(p) \/ PointerRepairSync(p)
           \/ PointerNone(p) \/ PointerKeep(p) \/ AbandonDone(p) \/ Abort(p)
  <2>1. UNCHANGED <<gens, current>>
    BY <1>4 DEF SweepStaging, ScanRefuse, ScanDone, PointerRepairSync, PointerNone,
       PointerKeep, AbandonDone, Abort
  <2> QED
    BY <1>2, <2>1
<1>5. CASE ScanRemove(p) \/ AbandonRemove(p) \/ AbortRemoval(p)
  <2>0. PICK g \in Generation : \E dir :
            /\ Unmarked(g) \/ Abandoned(g)
            /\ dir = Absent \/ dir \in Torn(gens[g])
            /\ gens' = [gens EXCEPT ![g] = dir]
    BY <1>5 DEF ScanRemove, AbandonRemove, AbortRemoval, RemoveTree
  <2>1. PICK dir :
            /\ Unmarked(g) \/ Abandoned(g)
            /\ dir = Absent \/ dir \in Torn(gens[g])
            /\ gens' = [gens EXCEPT ![g] = dir]
    BY <2>0
  <2>2. UNCHANGED current
    BY <1>5 DEF ScanRemove, AbandonRemove, AbortRemoval
  <2> QED
    BY <1>3, <2>1, <2>2
<1>6. CASE PointerRepair(p)
  <2>1. PICK newest \in CompleteGenerations : ReplaceCurrent(newest)
    BY <1>6 DEF PointerRepair
  <2>2. ~Valid(current) /\ UNCHANGED gens /\ pc[p] = "pointer" /\ pc'[p] = "repaired"
    BY <1>1, <1>6 DEF PointerRepair
  <2>3. current = NoGeneration
    <3>1. current # NoGeneration => current \in 0..current
      BY <1>1 DEF Pointer, Generation, NoGeneration
    <3> QED
      BY <2>2, <3>1 DEF Valid, HistoryReadable
  <2>4. newest \in Generation /\ Complete(gens[newest]) /\ current' = newest
    BY <2>1 DEF CompleteGenerations, ReplaceCurrent
  <2>5. newest = current + 1
    BY <1>1, <2>3, <2>4 DEF NothingBeyond, Generation, NoGeneration
  <2> QED
    BY <2>2, <2>4, <2>5 DEF HistoryGrows
<1> QED
  BY <1>4, <1>5, <1>6 DEF Recovery

LEMMA GrowsWhenPublished ==
    ASSUME IInv, DInv, NEW p \in Process, Decision(p) \/ Production(p)
    PROVE  HistoryGrows /\ (current' # current => pc[p] = "point" /\ pc'[p] = "syncPointer")
<1>1. /\ current \in Pointer /\ gens \in [Generation -> Directory] /\ MaxGeneration \in Nat
      /\ DOMAIN pc = Process
  BY BoundsAssumption DEF IInv, TypeOK
<1>2. /\ call[p] = "initialize" /\ pc[p] \in {"write", "syncGenerations", "point"} =>
             current = NoGeneration
      /\ call[p] = "commit" /\ pc[p] \in {"write", "syncGenerations", "point"} =>
             current \in 0..(MaxGeneration - 1)
      /\ pc[p] \in {"write", "syncGenerations", "point"} => call[p] \in {"initialize", "commit"}
  BY DEF IInv, WriterInv
<1>3. pc[p] \in {"write", "syncGenerations", "point"} =>
          Target(p) = current + 1 /\ Target(p) \in Generation /\ Target(p) > current
  BY <1>1, <1>2 DEF Target, Generation, NoGeneration
<1>4. CASE RecoverReturn(p) \/ InitializeReturn(p) \/ PointerRefuse(p) \/ CommitStale(p)
           \/ CommitReject(p) \/ CommitStage(p) \/ InitializeSealed(p) \/ CommitWrite(p)
           \/ SyncGenerations(p) \/ SyncPointer(p) \/ Return(p)
  <2>1. UNCHANGED <<gens, current>>
    BY <1>4 DEF RecoverReturn, InitializeReturn, PointerRefuse, CommitStale, CommitReject,
       CommitStage, InitializeSealed, CommitWrite, SyncGenerations, SyncPointer, Return
  <2> QED
    BY <2>1 DEF HistoryGrows
<1>5. CASE InitializeStage(p)
  <2>1. PICK dir : gens' = [gens EXCEPT ![0] = dir]
    BY <1>5 DEF InitializeStage, PutDirectory
  <2>2. current = NoGeneration /\ UNCHANGED current
    BY <1>5 DEF InitializeStage
  <2>3. 0 \in Generation /\ 0 > current /\ 0 = current + 1
    BY <1>1, <2>2 DEF Generation, NoGeneration
  <2> QED
    BY <2>1, <2>2, <2>3, OutsideHistory
<1>6. CASE InitializeWrite(p)
  <2>1. PICK dir : gens' = [gens EXCEPT ![0] = dir]
    BY <1>6 DEF InitializeWrite, PutDirectory
  <2>2. current = NoGeneration /\ UNCHANGED current
    BY <1>2, <1>6 DEF InitializeWrite
  <2>3. 0 \in Generation /\ 0 > current /\ 0 = current + 1
    BY <1>1, <2>2 DEF Generation, NoGeneration
  <2> QED
    BY <2>1, <2>2, <2>3, OutsideHistory
<1>7. CASE CommitPublish(p)
  <2>1. PICK dir : gens' = [gens EXCEPT ![Target(p)] = dir]
    BY <1>7 DEF CommitPublish, PutDirectory
  <2>2. UNCHANGED current /\ pc[p] = "write"
    BY <1>7 DEF CommitPublish
  <2> QED
    BY <1>3, <2>1, <2>2, OutsideHistory
<1>8. CASE PointCurrent(p)
  <2>1. UNCHANGED gens /\ current' = Target(p) /\ pc[p] = "point" /\ pc'[p] = "syncPointer"
    BY <1>1, <1>8 DEF PointCurrent, ReplaceCurrent
  <2>2. Complete(gens[Target(p)])
    BY <2>1 DEF DInv, WriterDurable, Holds
  <2> QED
    BY <1>3, <2>1, <2>2 DEF HistoryGrows
<1> QED
  BY <1>4, <1>5, <1>6, <1>7, <1>8 DEF Decision, Production

\* What a step of a process other than a read may do to what was loaded, and when
\* it begins to stage.
Keeps(p) ==
    /\ UNCHANGED <<base, seen>> /\ pc[p] # "loading" /\ pc'[p] # "loading"
    /\ \A q \in Process : q # p => pc'[q] = pc[q] /\ call'[q] = call[q]
    /\ pc'[p] = "write" /\ call'[p] = "commit" =>
           base[p] = current \/ (pc[p] = "write" /\ call[p] = "commit")

LEMMA StepsKeep ==
    ASSUME IInv, NEW p \in Process,
           \/ Start(p) \/ Enter(p) \/ LockTimeout(p) \/ Recovery(p) \/ Decision(p)
           \/ Production(p) \/ Abort(p) \/ AbortRemoval(p)
    PROVE  Keeps(p)
<1> USE DEF Keeps
<1>1. pc \in [Process -> Places] /\ call \in [Process -> Calls]
  BY DEF IInv, TypeOK
<1>2. CASE Start(p) \/ Enter(p) \/ LockTimeout(p)
  BY <1>1, <1>2 DEF Start, Enter, LockTimeout
<1>3. CASE SweepStaging(p) \/ ScanRemove(p) \/ ScanRefuse(p) \/ ScanDone(p)
  BY <1>1, <1>3 DEF SweepStaging, ScanRemove, ScanRefuse, ScanDone
<1>4. CASE PointerRepair(p) \/ PointerRepairSync(p) \/ PointerNone(p) \/ PointerKeep(p)
  BY <1>1, <1>4 DEF PointerRepair, PointerRepairSync, PointerNone, PointerKeep
<1>5. CASE AbandonRemove(p) \/ AbandonDone(p)
  BY <1>1, <1>5 DEF AbandonRemove, AbandonDone
<1>6. CASE RecoverReturn(p) \/ InitializeReturn(p) \/ PointerRefuse(p)
  BY <1>1, <1>6 DEF RecoverReturn, InitializeReturn, PointerRefuse
<1>7. CASE InitializeStage(p) \/ CommitStale(p) \/ CommitReject(p) \/ CommitStage(p)
  BY <1>1, <1>7 DEF InitializeStage, CommitStale, CommitReject, CommitStage, Fresh
<1>8. CASE InitializeWrite(p) \/ InitializeSealed(p) \/ CommitWrite(p) \/ CommitPublish(p)
  BY <1>1, <1>8 DEF InitializeWrite, InitializeSealed, CommitWrite, CommitPublish
<1>9. CASE SyncGenerations(p) \/ PointCurrent(p) \/ SyncPointer(p) \/ Return(p)
  BY <1>1, <1>9 DEF SyncGenerations, PointCurrent, SyncPointer, Return
<1>10. CASE Abort(p) \/ AbortRemoval(p)
  BY <1>1, <1>10 DEF Abort, AbortRemoval, Unmarked, Abandoned
<1> QED
  BY <1>2, <1>3, <1>4, <1>5, <1>6, <1>7, <1>8, <1>9, <1>10 DEF Recovery, Decision, Production

\* What was loaded stays what the history holds under that number.
LEMMA StaysRemembered ==
    ASSUME IInv, HistoryReadable, \A q \in Process : Remembered(q), HistoryGrows,
           NEW p \in Process, Keeps(p),
           current' # current => pc[p] \in Inside /\ pc'[p] # "write"
    PROVE  \A q \in Process : Remembered(q)'
<1>1. current \in Pointer /\ base \in [Process -> Pointer]
  BY DEF IInv, TypeOK
<1>2. current' \in Int /\ current' >= current
  BY <1>1, BoundsAssumption DEF HistoryGrows, Pointer, Generation, NoGeneration
<1>3. SUFFICES ASSUME NEW q \in Process
               PROVE  /\ base[q] # NoGeneration /\ pc'[q] # "loading" =>
                             base[q] <= current' /\ seen[q] = gens'[base[q]].log
                      /\ pc'[q] = "write" /\ call'[q] = "commit" => base[q] = current'
  BY DEF Remembered, Keeps
<1>4. pc[q] # "loading" <=> pc'[q] # "loading"
  BY DEF Keeps
<1>5. ASSUME base[q] # NoGeneration, pc'[q] # "loading"
      PROVE  base[q] <= current' /\ seen[q] = gens'[base[q]].log
  <2>1. base[q] <= current /\ seen[q] = gens[base[q]].log
    BY <1>4, <1>5 DEF Remembered
  <2>2. base[q] \in 0..current
    BY <1>1, <1>5, <2>1, BoundsAssumption DEF Pointer, Generation, NoGeneration
  <2>3. base[q] <= current'
    BY <1>1, <1>2, <2>2, BoundsAssumption DEF Pointer, Generation, NoGeneration
  <2> QED
    BY <2>1, <2>2, <2>3 DEF HistoryGrows
<1>6. ASSUME pc'[q] = "write", call'[q] = "commit"
      PROVE  base[q] = current'
  <2>1. CASE current' = current
    <3>1. CASE q = p
      BY <1>6, <2>1, <3>1 DEF Keeps, Remembered
    <3>2. CASE q # p
      BY <1>6, <2>1, <3>2 DEF Keeps, Remembered
    <3> QED
      BY <3>1, <3>2
  <2>2. CASE current' # current
    <3>1. q # p /\ pc[q] = "write"
      BY <1>6, <2>2 DEF Keeps
    <3>2. lock = p /\ lock = q
      BY <2>2, <3>1 DEF IInv, OneWriter
    <3> QED
      BY <3>1, <3>2
  <2> QED
    BY <2>1, <2>2
<1> QED
  BY <1>5, <1>6

LEMMA ReadsRemember ==
    ASSUME IInv, HistoryReadable, NothingBeyond, \A q \in Process : Remembered(q),
           NEW p \in Process, ReadPointer(p) \/ ReadGeneration(p)
    PROVE  HistoryReadable' /\ NothingBeyond' /\ \A q \in Process : Remembered(q)'
<1>1. UNCHANGED <<gens, current, call>> /\ \A q \in Process : q # p => pc'[q] = pc[q]
  BY DEF ReadPointer, ReadGeneration, IInv, TypeOK
<1>2. HistoryReadable' /\ NothingBeyond'
  BY <1>1 DEF HistoryReadable, NothingBeyond, Complete
<1>3. CASE ReadPointer(p)
  <2>1. /\ pc'[p] = "loading" /\ UNCHANGED seen
        /\ \A q \in Process : q # p => base'[q] = base[q]
    BY <1>3 DEF ReadPointer, IInv, TypeOK
  <2> QED
    BY <1>1, <1>2, <2>1 DEF Remembered
<1>4. CASE ReadGeneration(p)
  <2>1. /\ pc[p] = "loading" /\ pc'[p] = "idle" /\ UNCHANGED base
        /\ seen'[p] = gens[base[p]].log
        /\ \A q \in Process : q # p => seen'[q] = seen[q]
    BY <1>4 DEF ReadGeneration, IInv, TypeOK
  <2>2. base[p] <= current
    BY <2>1 DEF IInv, ReaderInv
  <2> QED
    BY <1>1, <1>2, <2>1, <2>2 DEF Remembered
<1> QED
  BY <1>3, <1>4

LEMMA HistoryStep == IInv /\ DInv /\ HistoryInv /\ [Next]_vars => HistoryInv'
<1> SUFFICES ASSUME IInv, DInv, HistoryInv, [Next]_vars, powerLosses' = 0
             PROVE  HistoryReadable' /\ NothingBeyond' /\ \A p \in Process : Remembered(p)'
  BY DEF HistoryInv, Remembered
<1>1. CASE UNCHANGED vars
  BY <1>1 DEF vars, HistoryInv, HistoryReadable, NothingBeyond, Remembered, Complete
<1>2. CASE PowerLoss
  <2>1. powerLosses \in Nat /\ powerLosses' = powerLosses + 1
    BY <1>2, BoundsAssumption DEF PowerLoss, IInv, TypeOK
  <2> QED
    BY <2>1
<1>3. ASSUME NEW p \in Process,
             ReadPointer(p) \/ Start(p) \/ Progress(p) \/ Abort(p) \/ AbortRemoval(p)
      PROVE  HistoryReadable' /\ NothingBeyond' /\ \A q \in Process : Remembered(q)'
  <2>1. powerLosses = 0
    BY <1>3 DEF ReadPointer, Start, Progress, Abort, AbortRemoval, ReadGeneration, Enter,
       LockTimeout, Recovery, SweepStaging, ScanRemove, ScanRefuse, ScanDone, PointerRepair,
       PointerRepairSync, PointerNone, PointerKeep, AbandonRemove, AbandonDone, Decision,
       RecoverReturn, InitializeReturn, PointerRefuse, InitializeStage, CommitStale,
       CommitReject, CommitStage, Production, InitializeWrite, InitializeSealed,
       CommitWrite, CommitPublish, SyncGenerations, PointCurrent, SyncPointer, Return
  <2>2. HistoryReadable /\ NothingBeyond /\ \A q \in Process : Remembered(q)
    BY <2>1 DEF HistoryInv
  <2>3. CASE ReadPointer(p) \/ ReadGeneration(p)
    BY <2>2, <2>3, ReadsRemember
  <2>4. CASE \/ Start(p) \/ Enter(p) \/ LockTimeout(p) \/ Recovery(p) \/ Decision(p)
             \/ Production(p) \/ Abort(p) \/ AbortRemoval(p)
    <3>1. Keeps(p)
      BY <2>4, StepsKeep
    <3>2. HistoryGrows /\ (current' # current => pc[p] \in Inside /\ pc'[p] # "write")
      <4>1. CASE Start(p) \/ Enter(p) \/ LockTimeout(p)
        <5>1. UNCHANGED <<gens, current>>
          BY <4>1 DEF Start, Enter, LockTimeout
        <5> QED
          BY <5>1 DEF HistoryGrows
      <4>2. CASE Recovery(p) \/ Abort(p) \/ AbortRemoval(p)
        BY <2>2, <4>2, GrowsUnlessRemoved
      <4>3. CASE Decision(p) \/ Production(p)
        BY <4>3, GrowsWhenPublished
      <4> QED
        BY <2>4, <4>1, <4>2, <4>3
    <3>3. HistoryReadable' /\ NothingBeyond'
      BY <2>2, <3>2, StaysReadable
    <3>4. \A q \in Process : Remembered(q)'
      BY <2>2, <3>1, <3>2, StaysRemembered
    <3> QED
      BY <3>3, <3>4
  <2> QED
    BY <1>3, <2>3, <2>4 DEF Progress
<1> QED
  BY <1>1, <1>2, <1>3 DEF Next

LEMMA HistoryInit == Init => HistoryInv
<1> SUFFICES ASSUME Init PROVE HistoryInv
  OBVIOUS
<1>1. \A g \in Generation : ~Complete(gens[g])
  BY PartsAreNotWhole DEF Init
<1> QED
  BY <1>1 DEF Init, HistoryInv, HistoryReadable, NothingBeyond, Remembered

LEMMA HistoryInvariance == Spec => [](IInv /\ HistoryInv)
  BY DurableInvariance, HistoryInit, HistoryStep, PTL DEF Spec

-------------------------------------------------------------------------------
(* Theorems                                                                  *)

\* A promotion for which commit() or initialize() returned is in the history that
\* load_current() or recover() finds, after any number of deaths and power losses:
\* _publish syncs the renamed generation before it replaces CURRENT, and CURRENT
\* before it returns.
THEOREM AcknowledgedDurable == Spec => []AcknowledgedSurvives
  BY AcknowledgedFirst, DurableInvariance, PTL

\* When _recover_locked is over, whatever was interrupted before it is gone: the
\* staging directory, unfinished generations, and everything above CURRENT.
THEOREM RecoveryClean == Spec => []RecoveryLeavesNoDebris
<1>1. DInv => RecoveryLeavesNoDebris
  BY DEF DInv, Cleaned, RecoveryLeavesNoDebris, Exists, Absent
<1> QED
  BY <1>1, DurableInvariance, PTL

\* The store is one linear history, whatever dies and whenever the power fails:
\* initialize() and commit() append one promotion to it when the marker or CURRENT
\* is written, and a power loss takes back only what nobody was told of.
THEOREM StoreLinear == Spec => ImplementsAtomicStore
<1>1. Spec => [](IInv /\ DInv)
  BY DurableInvariance
<1>2. Init => RInv /\ Atomic!Init
  BY InitLinear
<1>3. IInv /\ DInv /\ RInv /\ [Next]_vars /\ IInv' /\ DInv' => RInv' /\ [Atomic!Next]_<<CommittedLog, acked>>
  BY NextLinear DEF AtomicStep
<1> QED
  BY <1>1, <1>2, <1>3, PTL DEF Spec, ImplementsAtomicStore, Atomic!Spec

\* Until the power fails every generation up to CURRENT can be read, however many
\* calls die half-way: _recover_locked removes what has no marker, and of what has
\* one only what is above CURRENT.  (Its repair of CURRENT does not sync
\* state/generations first, so a power loss may leave a hole.)
THEOREM HistoryStaysReadable == Spec => [](powerLosses = 0 => HistoryReadable)
<1>1. HistoryInv => (powerLosses = 0 => HistoryReadable)
  BY DEF HistoryInv
<1> QED
  BY <1>1, HistoryInvariance, PTL

\* Until the power fails a number names one content: a promotion whose expected
\* generation is CURRENT's is staged on the very log that its caller loaded.
THEOREM PromotionsFresh == Spec => [](powerLosses = 0 => PromotionsAreFresh)
<1>1. IInv /\ HistoryInv => (powerLosses = 0 => PromotionsAreFresh)
  BY DEF HistoryInv, Remembered, PromotionsAreFresh, IInv, WriterInv, NoGeneration
<1> QED
  BY <1>1, HistoryInvariance, PTL
================================================================================
