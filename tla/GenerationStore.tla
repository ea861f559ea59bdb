---------------------------- MODULE GenerationStore ----------------------------
(***************************************************************************)
(* runtime/repository.py: the immutable, numbered generations of a review  *)
(* project and the CURRENT pointer, as several processes (or threads) of   *)
(* the runtime call initialize(), commit() and recover() on one project    *)
(* directory and read it without the lock.  One action is one file-system  *)
(* step; between any two of them the calling process may die (Abort) and   *)
(* the machine may lose power (PowerLoss).                                 *)
(*                                                                         *)
(* The contents of a generation are abstracted to its log: the promotions  *)
(* that led to it, oldest first (repository.json, registry.json and        *)
(* applied_tasks.json are each a function of it).                          *)
(***************************************************************************)
EXTENDS Integers, FiniteSets, SequencesExt

CONSTANTS
    Process,           \* processes and threads that use the store
    Nobody,            \* the lock's holder when it is free
    MaxGeneration,     \* bound: highest generation number
    MaxOperations,     \* bound: promotions attempted
    MaxAborts,         \* bound: calls that end half-way
    MaxPowerLosses     \* bound: machine failures

ASSUME BoundsAssumption ==
    /\ Nobody \notin Process
    /\ MaxGeneration \in Nat
    /\ MaxOperations \in Nat
    /\ MaxAborts \in Nat
    /\ MaxPowerLosses \in Nat

VARIABLES
    lock,              \* state/.writer.lock: its holder
    pc,                \* where each process is
    call,              \* the operation each process executes
    base,              \* the generation each process loaded, for its commit
    seen,              \* the log it found there
    outcome,           \* how its last call ended
    staging,           \* the dot-named staging directory
    gens,              \* state/generations: the directory of each number
    gensOnDisk,        \* what a power loss may leave of each of them
    current,           \* state/CURRENT
    currentOnDisk,     \* what a power loss may leave of it
    acked,             \* history: the longest log a commit() returned for
    operations,        \* promotions attempted so far
    aborts, powerLosses

processVars == <<lock, pc, call, base, seen, outcome>>
diskVars == <<staging, gens, gensOnDisk, current, currentOnDisk>>
countVars == <<acked, operations, aborts, powerLosses>>
vars == <<processVars, diskVars, countVars>>

Generation == 0..MaxGeneration
NoGeneration == -1
Pointer == Generation \cup {NoGeneration}

(***************************************************************************)
(* Directories.  "repository" stands for repository.json and registry.json,*)
(* always written one after the other.                                     *)
(***************************************************************************)
CoreFiles == {"repository", "receipts", "manifest"}
Files == CoreFiles \cup {"COMPLETE"}
Directory == [files : SUBSET Files, log : Seq(1..MaxOperations)]
Absent == [files |-> {}, log |-> <<>>]

Exists(dir) == dir.log # <<>>
Marked(dir) == "COMPLETE" \in dir.files
Complete(dir) == dir.files = Files

\* _require_complete_generation: the pointer names a whole generation.
Valid(generation) == generation # NoGeneration /\ Complete(gens[generation])

CompleteGenerations == {g \in Generation : Complete(gens[g])}

\* The generation that recovery would settle on in this state.
Effective ==
    IF Valid(current) THEN current
    ELSE IF CompleteGenerations = {} THEN NoGeneration
    ELSE Max(CompleteGenerations)

CommittedLog == IF Effective = NoGeneration THEN <<>> ELSE gens[Effective].log

Calls == {"none", "initialize", "commit", "recover"}
Outcomes == {"none", "done", "stale", "timeout", "rejected", "refused", "aborted"}
\* Where a process holds the writer lock.
Inside == {"sweep", "scan", "pointer", "repaired", "abandon", "decide", "write",
           "syncGenerations", "point", "syncPointer", "return"}
Places == {"idle", "loading", "entering"} \cup Inside

Init ==
    /\ lock = Nobody
    /\ pc = [p \in Process |-> "idle"]
    /\ call = [p \in Process |-> "none"]
    /\ base = [p \in Process |-> NoGeneration]
    /\ seen = [p \in Process |-> <<>>]
    /\ outcome = [p \in Process |-> "none"]
    /\ staging = Absent
    /\ gens = [g \in Generation |-> Absent]
    /\ gensOnDisk = [g \in Generation |-> {Absent}]
    /\ current = NoGeneration
    /\ currentOnDisk = {NoGeneration}
    /\ acked = <<>>
    /\ operations = 0
    /\ aborts = 0
    /\ powerLosses = 0

(***************************************************************************)
(* Helpers                                                                 *)
(***************************************************************************)
Goto(p, from, to) ==
    /\ pc[p] = from
    /\ pc' = [pc EXCEPT ![p] = to]

\* __exit__ of the writer lock: the call is over, whatever its result.
Leave(p, result) ==
    /\ lock' = Nobody
    /\ pc' = [pc EXCEPT ![p] = "idle"]
    /\ call' = [call EXCEPT ![p] = "none"]
    /\ outcome' = [outcome EXCEPT ![p] = result]
    /\ UNCHANGED <<base, seen>>

StayInside == UNCHANGED <<lock, call, base, seen, outcome>>

\* What unlinking the files of a directory one by one can leave behind.
Torn(dir) == {[dir EXCEPT !.files = left] : left \in SUBSET dir.files}

\* Faulty: the errors of the removal are ignored and nothing goes away.
RemoveTreeFails(g) == g \in Generation /\ UNCHANGED <<gens, gensOnDisk>>

\* _remove_repository_tree: nothing is fsynced, so any part may come back.
RemoveTree(g) ==
    /\ gens' = [gens EXCEPT ![g] = Absent]
    /\ gensOnDisk' = [gensOnDisk EXCEPT ![g] = @ \cup {Absent} \cup Torn(gens[g])]

\* A directory entry changes; until the parent is fsynced both may survive.
PutDirectory(g, dir) ==
    /\ gens' = [gens EXCEPT ![g] = dir]
    /\ gensOnDisk' = [gensOnDisk EXCEPT ![g] = @ \cup {dir}]

\* os.replace of CURRENT, before the fsync of state/.
ReplaceCurrent(generation) ==
    /\ current' = generation
    /\ currentOnDisk' = currentOnDisk \cup {generation}

\* The generation that the lock holder p is producing.
Target(p) == IF call[p] = "initialize" THEN 0 ELSE current + 1

(***************************************************************************)
(* Readers: load_current(), without the lock.                              *)
(***************************************************************************)
ReadPointer(p) ==
    /\ Goto(p, "idle", "loading")
    /\ Valid(current)
    /\ base' = [base EXCEPT ![p] = current]
    /\ UNCHANGED <<lock, call, seen, outcome, diskVars, countVars>>

ReadGeneration(p) ==
    /\ Goto(p, "loading", "idle")
    /\ seen' = [seen EXCEPT ![p] = gens[base[p]].log]
    /\ UNCHANGED <<lock, call, base, outcome, diskVars, countVars>>

(***************************************************************************)
(* The writer lock: writer_lock().__enter__ and its timeout.               *)
(***************************************************************************)
Start(p) ==
    /\ Goto(p, "idle", "entering")
    /\ \E c \in Calls \ {"none"} :
          /\ c = "commit" => base[p] # NoGeneration
          /\ call' = [call EXCEPT ![p] = c]
    /\ outcome' = [outcome EXCEPT ![p] = "none"]
    /\ UNCHANGED <<lock, base, seen, diskVars, countVars>>

Enter(p) ==
    /\ Goto(p, "entering", "sweep")
    /\ lock = Nobody
    /\ lock' = p
    /\ UNCHANGED <<call, base, seen, outcome, diskVars, countVars>>

LockTimeout(p) ==
    /\ Goto(p, "entering", "idle")
    /\ lock # Nobody
    /\ call' = [call EXCEPT ![p] = "none"]
    /\ outcome' = [outcome EXCEPT ![p] = "timeout"]
    /\ UNCHANGED <<lock, base, seen, diskVars, countVars>>

(***************************************************************************)
(* _recover_locked: the first thing every call does under the lock.        *)
(***************************************************************************)
SweepStaging(p) ==
    /\ Goto(p, "sweep", "scan")
    /\ staging' = Absent
    /\ StayInside
    /\ UNCHANGED <<gens, gensOnDisk, current, currentOnDisk, countVars>>

Unmarked(g) == Exists(gens[g]) /\ ~Marked(gens[g])
MarkedButIncomplete(g) == Marked(gens[g]) /\ ~Complete(gens[g])

\* A generation without its marker never finished: remove it.
ScanRemove(p) ==
    /\ pc[p] = "scan"
    /\ \E g \in Generation : Unmarked(g) /\ RemoveTree(g)
    /\ StayInside
    /\ UNCHANGED <<pc, staging, current, currentOnDisk, countVars>>

\* _require_complete_generation_at raises out of the scan.
ScanRefuse(p) ==
    /\ pc[p] = "scan"
    /\ \E g \in Generation : MarkedButIncomplete(g)
    /\ Leave(p, "refused")
    /\ UNCHANGED <<diskVars, countVars>>

ScanDone(p) ==
    /\ Goto(p, "scan", "pointer")
    /\ \A g \in Generation : ~Unmarked(g) /\ ~MarkedButIncomplete(g)
    /\ StayInside
    /\ UNCHANGED <<diskVars, countVars>>

\* CURRENT names no complete generation: point it at the newest one.
PointerRepair(p) ==
    /\ Goto(p, "pointer", "repaired")
    /\ ~Valid(current)
    /\ \E newest \in CompleteGenerations :
          /\ \A g \in CompleteGenerations : g <= newest
          /\ ReplaceCurrent(newest)
    /\ StayInside
    /\ UNCHANGED <<staging, gens, gensOnDisk, countVars>>

PointerRepairSync(p) ==
    /\ Goto(p, "repaired", "decide")
    /\ currentOnDisk' = {current}
    /\ StayInside
    /\ UNCHANGED <<staging, gens, gensOnDisk, current, countVars>>

PointerNone(p) ==
    /\ Goto(p, "pointer", "decide")
    /\ ~Valid(current)
    /\ CompleteGenerations = {}
    /\ StayInside
    /\ UNCHANGED <<diskVars, countVars>>

PointerKeep(p) ==
    /\ Goto(p, "pointer", "abandon")
    /\ Valid(current)
    /\ StayInside
    /\ UNCHANGED <<diskVars, countVars>>

\* Faulty: only CURRENT is kept, or not even that.
AbandonedHistory(g) == g # current /\ Complete(gens[g])
AbandonedCurrent(g) == g >= current /\ Complete(gens[g])

\* Complete generations above CURRENT never crossed the commit point.
Abandoned(g) == g > current /\ Complete(gens[g])

AbandonRemove(p) ==
    /\ pc[p] = "abandon"
    /\ \E g \in Generation : Abandoned(g) /\ RemoveTree(g)
    /\ StayInside
    /\ UNCHANGED <<pc, staging, current, currentOnDisk, countVars>>

\* Faulty: recovery ends whatever is left.
AbandonSkip(p) ==
    /\ Goto(p, "abandon", "decide")
    /\ StayInside
    /\ UNCHANGED <<diskVars, countVars>>

AbandonDone(p) ==
    /\ Goto(p, "abandon", "decide")
    /\ \A g \in Generation : ~Abandoned(g)
    /\ StayInside
    /\ UNCHANGED <<diskVars, countVars>>

(***************************************************************************)
(* What each call does once recovery is over.                              *)
(***************************************************************************)
RecoverReturn(p) ==
    /\ pc[p] = "decide" /\ call[p] = "recover"
    /\ Leave(p, "done")
    /\ UNCHANGED <<diskVars, countVars>>

\* initialize() returns an existing project as it is ...
InitializeReturn(p) ==
    /\ pc[p] = "decide" /\ call[p] = "initialize"
    /\ Valid(current)
    /\ Leave(p, "done")
    /\ UNCHANGED <<diskVars, countVars>>

\* ... and both initialize() and commit() reject a CURRENT that names no
\* complete generation (commit() also a CURRENT that does not exist).
PointerRefuse(p) ==
    /\ pc[p] = "decide"
    /\ \/ call[p] = "initialize" /\ current # NoGeneration
       \/ call[p] = "commit"
    /\ ~Valid(current)
    /\ Leave(p, "refused")
    /\ UNCHANGED <<diskVars, countVars>>

\* Generation 0 is built in place, not in a staging directory.
InitializeStage(p) ==
    /\ Goto(p, "decide", "write")
    /\ call[p] = "initialize"
    /\ current = NoGeneration
    /\ operations < MaxOperations
    /\ operations' = operations + 1
    /\ PutDirectory(0, [files |-> {}, log |-> <<operations'>>])
    /\ StayInside
    /\ UNCHANGED <<staging, current, currentOnDisk, acked, aborts, powerLosses>>

\* Faulty: a later generation than the expected one will do.
FreshEnough(p) == current >= base[p]

\* expected_generation is still the committed one.
Fresh(p) == current = base[p]

CommitStale(p) ==
    /\ pc[p] = "decide" /\ call[p] = "commit"
    /\ Valid(current)
    /\ ~Fresh(p)
    /\ Leave(p, "stale")
    /\ UNCHANGED <<diskVars, countVars>>

\* A dependency changed, or the promoted repository does not validate.
CommitReject(p) ==
    /\ pc[p] = "decide" /\ call[p] = "commit"
    /\ Valid(current)
    /\ Fresh(p)
    /\ Leave(p, "rejected")
    /\ UNCHANGED <<diskVars, countVars>>

\* The promotion runs on the current snapshot; its generation is staged
\* beside the others.  The number above CURRENT is free after recovery.
CommitStage(p) ==
    /\ Goto(p, "decide", "write")
    /\ call[p] = "commit"
    /\ Valid(current)
    /\ Fresh(p)
    /\ current < MaxGeneration
    /\ ~Exists(gens[current + 1])
    /\ operations < MaxOperations
    /\ operations' = operations + 1
    /\ staging' = [files |-> {}, log |-> Append(gens[current].log, operations')]
    /\ StayInside
    /\ UNCHANGED <<gens, gensOnDisk, current, currentOnDisk, acked, aborts, powerLosses>>

\* Faulty: the receipts go to a file that nothing reads.
MisnamedOrder == <<"repository", "applied", "manifest", "COMPLETE">>

\* The order in which the files of a generation are written, each of them
\* with its own fsync and an fsync of the directory.
InitializeOrder == <<"repository", "manifest", "receipts", "COMPLETE">>
CommitOrder == <<"repository", "receipts", "manifest", "COMPLETE">>

\* The directory after the write of its next file (none once it is complete).
NextWrites(dir, order) ==
    {[dir EXCEPT !.files = @ \cup {order[i]}] :
        i \in {n \in 1..4 : /\ order[n] \notin dir.files
                            /\ \A m \in 1..(n - 1) : order[m] \in dir.files}}

InitializeWrite(p) ==
    /\ pc[p] = "write" /\ call[p] = "initialize"
    /\ \E dir \in NextWrites(gens[0], InitializeOrder) : PutDirectory(0, dir)
    /\ StayInside
    /\ UNCHANGED <<pc, staging, current, currentOnDisk, countVars>>

InitializeSealed(p) ==
    /\ Goto(p, "write", "syncGenerations")
    /\ call[p] = "initialize"
    /\ Complete(gens[0])
    /\ StayInside
    /\ UNCHANGED <<diskVars, countVars>>

CommitWrite(p) ==
    /\ pc[p] = "write" /\ call[p] = "commit"
    /\ staging' \in NextWrites(staging, CommitOrder)
    /\ StayInside
    /\ UNCHANGED <<pc, gens, gensOnDisk, current, currentOnDisk, countVars>>

\* os.replace of the staging directory by the numbered one.
CommitPublish(p) ==
    /\ Goto(p, "write", "syncGenerations")
    /\ call[p] = "commit"
    /\ Complete(staging)
    /\ PutDirectory(Target(p), staging)
    /\ staging' = Absent
    /\ StayInside
    /\ UNCHANGED <<current, currentOnDisk, countVars>>

\* Faulty: state/generations is not fsynced before CURRENT is written.
SyncNoGenerations(p) ==
    /\ Goto(p, "syncGenerations", "point")
    /\ StayInside
    /\ UNCHANGED <<diskVars, countVars>>

\* fsync of state/generations: every directory entry is as it is seen.
SyncGenerations(p) ==
    /\ Goto(p, "syncGenerations", "point")
    /\ gensOnDisk' = [g \in Generation |-> {gens[g]}]
    /\ StayInside
    /\ UNCHANGED <<staging, gens, current, currentOnDisk, countVars>>

PointCurrent(p) ==
    /\ Goto(p, "point", "syncPointer")
    /\ ReplaceCurrent(Target(p))
    /\ StayInside
    /\ UNCHANGED <<staging, gens, gensOnDisk, countVars>>

SyncPointer(p) ==
    /\ Goto(p, "syncPointer", "return")
    /\ currentOnDisk' = {current}
    /\ StayInside
    /\ UNCHANGED <<staging, gens, gensOnDisk, current, countVars>>

Return(p) ==
    /\ pc[p] = "return"
    /\ acked' = gens[current].log
    /\ Leave(p, "done")
    /\ UNCHANGED <<diskVars, operations, aborts, powerLosses>>

(***************************************************************************)
(* Failures.  The bound on operations leaves one for whoever comes next,   *)
(* so that no call is stuck on the bound.                                  *)
(***************************************************************************)
\* The process dies, a CrashPoint fires or a file-system call raises: the
\* lock is released and everything on disk stays as it is.
Abort(p) ==
    /\ pc[p] \in Inside
    /\ aborts < MaxAborts /\ operations < MaxOperations
    /\ aborts' = aborts + 1
    /\ Leave(p, "aborted")
    /\ UNCHANGED <<diskVars, acked, operations, powerLosses>>

\* The same in the middle of _remove_repository_tree, which unlinks the
\* files of a directory in no particular order.
AbortRemoval(p) ==
    /\ aborts < MaxAborts /\ operations < MaxOperations
    /\ aborts' = aborts + 1
    /\ \E g \in Generation :
          /\ \/ pc[p] = "scan" /\ Unmarked(g)
             \/ pc[p] = "abandon" /\ Abandoned(g)
          /\ \E left \in Torn(gens[g]) :
                /\ gens' = [gens EXCEPT ![g] = left]
                /\ gensOnDisk' = [gensOnDisk EXCEPT ![g] = @ \cup Torn(gens[g])]
    /\ Leave(p, "aborted")
    /\ UNCHANGED <<staging, current, currentOnDisk, acked, operations, powerLosses>>

\* The machine stops: every process is gone, and of every directory entry
\* written since the last fsync of its directory any version is found again.
\* What a caller loaded may live on in a request file (a retrieval promotion
\* names its source generation in one).
PowerLoss ==
    /\ powerLosses < MaxPowerLosses /\ operations < MaxOperations
    /\ powerLosses' = powerLosses + 1
    /\ lock' = Nobody
    /\ pc' = [p \in Process |-> "idle"]
    /\ call' = [p \in Process |-> "none"]
    /\ base' = [p \in Process |->
                   IF pc[p] = "loading" THEN NoGeneration ELSE base[p]]
    /\ outcome' = [p \in Process |-> "none"]
    /\ staging' \in {staging, Absent}
    /\ LET unsynced == {g \in Generation : gensOnDisk[g] # {gens[g]}}
       IN \E found \in [unsynced -> UNION {gensOnDisk[g] : g \in unsynced}] :
             /\ \A g \in unsynced : found[g] \in gensOnDisk[g]
             /\ gens' = [g \in Generation |->
                            IF g \in unsynced THEN found[g] ELSE gens[g]]
    /\ gensOnDisk' = [g \in Generation |-> {gens'[g]}]
    /\ current' \in currentOnDisk
    /\ currentOnDisk' = {current'}
    /\ UNCHANGED <<seen, acked, operations, aborts>>

(***************************************************************************)
(* The specification                                                       *)
(***************************************************************************)
Recovery(p) ==
    \/ SweepStaging(p) \/ ScanRemove(p) \/ ScanRefuse(p) \/ ScanDone(p)
    \/ PointerRepair(p) \/ PointerRepairSync(p) \/ PointerNone(p)
    \/ PointerKeep(p) \/ AbandonRemove(p) \/ AbandonDone(p)

Decision(p) ==
    \/ RecoverReturn(p) \/ InitializeReturn(p) \/ PointerRefuse(p)
    \/ InitializeStage(p)
    \/ CommitStale(p) \/ CommitReject(p) \/ CommitStage(p)

Production(p) ==
    \/ InitializeWrite(p) \/ InitializeSealed(p)
    \/ CommitWrite(p) \/ CommitPublish(p)
    \/ SyncGenerations(p) \/ PointCurrent(p) \/ SyncPointer(p) \/ Return(p)

\* The steps a live process takes by itself once its call has started.
Progress(p) ==
    \/ ReadGeneration(p)
    \/ Enter(p) \/ LockTimeout(p)
    \/ Recovery(p) \/ Decision(p) \/ Production(p)

Next ==
    \/ \E p \in Process :
          \/ ReadPointer(p) \/ Start(p) \/ Progress(p)
          \/ Abort(p) \/ AbortRemoval(p)
    \/ PowerLoss

\* A started call keeps running unless it is aborted: nothing in it waits for
\* anyone but the lock's holder, and that wait has a deadline.
Fairness == \A p \in Process : WF_vars(Progress(p))

Spec == Init /\ [][Next]_vars
FairSpec == Spec /\ Fairness

(***************************************************************************)
(* Properties                                                              *)
(***************************************************************************)
\* Every variable has its type: CURRENT and the directories on disk, and where
\* each call of initialize(), commit() and recover() stands.
TypeOK ==
    /\ lock \in Process \cup {Nobody}
    /\ pc \in [Process -> Places]
    /\ call \in [Process -> Calls]
    /\ base \in [Process -> Pointer]
    /\ seen \in [Process -> Seq(1..MaxOperations)]
    /\ outcome \in [Process -> Outcomes]
    /\ staging \in Directory
    /\ gens \in [Generation -> Directory]
    /\ gensOnDisk \in [Generation -> SUBSET Directory]
    /\ current \in Pointer
    /\ currentOnDisk \in SUBSET Pointer
    /\ acked \in Seq(1..MaxOperations)
    /\ operations \in 0..MaxOperations
    /\ aborts \in 0..MaxAborts
    /\ powerLosses \in 0..MaxPowerLosses

\* A promotion that commit() or initialize() returned for survives every later
\* abort and power loss: CURRENT never dangles again, which is what the fsync of
\* state/generations before CURRENT is for, and names a history that contains it.
AcknowledgedSurvives ==
    /\ IsPrefix(acked, CommittedLog)
    /\ acked # <<>> => Valid(current)

\* load_current() reads CURRENT and then the directory, without the lock: the
\* directory stays complete in between, whatever recovery removes meanwhile.
ReadersFindTheirGeneration ==
    \A p \in Process : pc[p] = "loading" => Complete(gens[base[p]])

\* A promotion is only staged on the very contents its caller loaded, although
\* commit() compares nothing but the generation's number.
PromotionsAreFresh ==
    \A p \in Process :
        (pc[p] = "write" /\ call[p] = "commit") =>
            seen[p] = gens[current].log

\* Once _recover_locked is over, no debris is left: no staging directory, no
\* unfinished generation, and nothing above CURRENT.
RecoveryLeavesNoDebris ==
    \A p \in Process :
        pc[p] = "decide" =>
            /\ ~Exists(staging)
            /\ \A g \in Generation : Exists(gens[g]) => Complete(gens[g]) /\ g <= current

\* Every generation up to CURRENT can still be read (history scans such as the
\* pilot journal's go through all of them).
HistoryReadable ==
    current # NoGeneration => \A g \in 0..current : Complete(gens[g])

\* Recovery reconciles or removes whatever a crashed call left behind; it does
\* not give up on it.
RecoveryNeverRefuses == \A p \in Process : outcome[p] # "refused"

\* A started call ends, whatever the other processes do.
EveryCallEnds == \A p \in Process : pc[p] # "idle" ~> pc[p] = "idle"

\* The store implements one linear, durable history.
Atomic == INSTANCE AtomicStore
            WITH Operations <- 1..MaxOperations,
                 history <- CommittedLog,
                 acknowledged <- acked
ImplementsAtomicStore == Atomic!Spec
================================================================================
