----------------------------- MODULE ProjectRuntime -----------------------------
(***************************************************************************)
(* runtime/kernel.py: ProjectRuntime.run() as several runtimes execute     *)
(* tasks against one review project.  A run snapshots its inputs, looks    *)
(* for an accepted receipt, asks its engines for a proposal (or finds one  *)
(* in the cache) and commits the promotion of it, with its receipt, as a   *)
(* generation; on a stale snapshot it starts over with a new task.         *)
(*                                                                         *)
(* The store is taken at the level of AtomicStore: a commit appends one    *)
(* generation.  GenerationStore shows that it implements this.  Receipts   *)
(* are enabled (the default of RuntimeConfig, required by coupled tasks).  *)
(***************************************************************************)
EXTENDS Integers, Sequences, FiniteSets

CONSTANTS
    Runner,            \* ProjectRuntime objects, each in a process or thread
    Version,           \* the code fingerprint that each was constructed with
    Nobody,            \* the writer lock's holder when it is free
    Task,              \* invocations: a task type and its arguments
    Coupled,           \* tasks that run with a CoupledPromotionAdapter
    RebuildOnStale,    \* adapters with rebuild_on_stale (none in the repository)
    Object,            \* canonical objects of the repository snapshot
    Content,           \* what an object says, and so what a proposal proposes
    NoContent,
    Deps,              \* dependency_builder: the objects a task depends on
    Writes,            \* the objects its promotion upserts
    Sourced,           \* tasks with an external file among their resources
    Source,            \* contents of that file
    NoTask, NoKey,
    Engines,           \* engines of the plan, fallbacks included
    TechnicalAttempts, \* technical_attempts_per_engine
    MaxStaleRebuilds,  \* max_stale_rebuilds
    MaxGeneration,     \* bound: generations committed
    MaxEdits,          \* bound: edits of the external file
    MaxVanished        \* bound: runs that end without a result

ASSUME TasksAssumption ==
    /\ Nobody \notin Runner /\ NoTask \notin Task /\ NoContent \notin Content
    /\ Content # {}
    /\ RebuildOnStale \subseteq Coupled /\ Coupled \subseteq Task
    /\ Sourced \subseteq Task
    /\ Deps \in [Task -> SUBSET Object] /\ Writes \in [Task -> SUBSET Object]
ASSUME PlanAssumption ==
    /\ Engines \in Nat \ {0} /\ TechnicalAttempts \in Nat \ {0}
    /\ MaxStaleRebuilds \in Nat
ASSUME BoundsAssumption ==
    /\ MaxGeneration \in Nat /\ MaxEdits \in Nat
    /\ MaxVanished \in Nat

VARIABLES
    pc,                \* where each run is
    job,               \* its task: manifest, provenance and progress
    result,            \* the RuntimeResult of the runner's last run
    writer,            \* holder of the writer lock
    history,           \* the committed generations 1, 2, ...
    cache,             \* work/cache
    accepted,          \* the accepted/ directories of the tasks
    source,            \* the external file
    edits, vanished

runVars == <<pc, job, result>>
storeVars == <<writer, history>>
workVars == <<cache, accepted>>
outsideVars == <<source, edits, vanished>>
vars == <<runVars, storeVars, workVars, outsideVars>>

(***************************************************************************)
(* Generations, keys and receipts.  A generation keeps the snapshot and    *)
(* the receipt it was committed with (key NoKey: a writer without one);    *)
(* the receipts of generation g are those of 1..g.                         *)
(***************************************************************************)
InitialContent == CHOOSE c \in Content : TRUE
Current == Len(history)
Generations == 1..Len(history)
ObjectsAt(g) == IF g = 0 THEN [o \in Object |-> InitialContent] ELSE history[g].objects

\* snapshot.dependency_hash of every dependency of t.
DependenciesAt(t, g) == [o \in Deps[t] |-> ObjectsAt(g)[o]]
\* The hash of every external file among t's resources.
ResourcesOf(t) == IF t \in Sourced THEN {source} ELSE {}

\* input_identity_key and semantic_task_key: the key adds the code's version.
Key(r) == [task |-> job[r].task, deps |-> job[r].deps,
           resources |-> job[r].resources, version |-> Version[r]]
Identity(key) == [task |-> key.task, deps |-> key.deps, resources |-> key.resources]

WithKey(key) == {g \in Generations : history[g].key = key}
WithIdentity(key) ==
    {g \in Generations : history[g].key # NoKey /\ Identity(history[g].key) = Identity(key)}
Newest(S) == CHOOSE g \in S : \A h \in S : h <= g

\* verify_receipt_canonical_objects: the objects that the receipt's commit
\* changed still have the content it gave them.
Intact(g, objects) == \A o \in history[g].changed : objects[o] = history[g].content

\* The snapshot and the receipt of t's promotion with content c.
Promoted(t, c) ==
    [o \in Object |-> IF o \in Writes[t] THEN c ELSE ObjectsAt(Current)[o]]
Commit(key, base, t, c) ==
    history' = Append(history,
        [objects |-> Promoted(t, c), key |-> key, base |-> base, content |-> c,
         changed |-> {o \in Writes[t] : ObjectsAt(Current)[o] # c}])

Attempts == Engines * TechnicalAttempts
EngineOf(attempt) == ((attempt - 1) \div TechnicalAttempts) + 1

NoJob == [task |-> NoTask, rebuilds |-> 0, base |-> 0, deps |-> <<>>,
          resources |-> {}, candidate |-> 0, attempt |-> 0,
          proposal |-> NoContent, committed |-> 0]
NoResult == [outcome |-> "none", key |-> NoKey, generation |-> 0,
             origin |-> 0, committed |-> 0]

Init ==
    /\ pc = [r \in Runner |-> "idle"]
    /\ job = [r \in Runner |-> NoJob]
    /\ result = [r \in Runner |-> NoResult]
    /\ writer = Nobody
    /\ history = <<>>
    /\ cache = {}
    /\ accepted = {}
    /\ source \in Source
    /\ edits = 0
    /\ vanished = 0

(***************************************************************************)
(* Helpers                                                                 *)
(***************************************************************************)
Goto(r, from, to) ==
    /\ pc[r] = from
    /\ pc' = [pc EXCEPT ![r] = to]

\* run() returns.
Finish(r, outcome, key, generation, origin) ==
    /\ pc' = [pc EXCEPT ![r] = "idle"]
    /\ job' = [job EXCEPT ![r] = NoJob]
    /\ result' = [result EXCEPT ![r] =
           [outcome |-> outcome, key |-> key, generation |-> generation,
            origin |-> origin, committed |-> job[r].committed]]

\* A failure names no generation.
Fail(r, outcome) == Finish(r, outcome, NoKey, 0, 0)

OnlyRun == UNCHANGED <<storeVars, workVars, outsideVars>>

(***************************************************************************)
(* run(): a new task, with everything it depends on snapshotted.           *)
(***************************************************************************)
Run(r, t) ==
    /\ Goto(r, "idle", "create")
    /\ job' = [job EXCEPT ![r].task = t]
    /\ result' = [result EXCEPT ![r] = NoResult]
    /\ OnlyRun

\* _create_task: load_current() and the dependency hashes ...
LoadCurrent(r) ==
    /\ Goto(r, "create", "snapshot")
    /\ job' = [job EXCEPT ![r].base = Current,
                          ![r].deps = DependenciesAt(job[r].task, Current)]
    /\ UNCHANGED result
    /\ OnlyRun

\* ... then tasks.create copies the resources.
SnapshotResources(r) ==
    /\ Goto(r, "snapshot", "lookup")
    /\ job' = [job EXCEPT ![r].resources = ResourcesOf(job[r].task)]
    /\ UNCHANGED result
    /\ OnlyRun

(***************************************************************************)
(* Receipt lookup, without the lock: the newest receipt with the semantic  *)
(* key, else the newest with the same input identity.                      *)
(***************************************************************************)
Candidates(r) ==
    IF WithKey(Key(r)) # {} THEN WithKey(Key(r)) ELSE WithIdentity(Key(r))

LookupMiss(r) ==
    /\ Goto(r, "lookup", "preflight")
    /\ Candidates(r) = {}
    /\ UNCHANGED <<job, result>>
    /\ OnlyRun

LookupHit(r) ==
    /\ Goto(r, "lookup", "verify")
    /\ Candidates(r) # {}
    /\ job' = [job EXCEPT ![r].candidate = Newest(Candidates(r))]
    /\ UNCHANGED result
    /\ OnlyRun

(***************************************************************************)
(* Its verification, under the writer lock.  The candidate's key is looked *)
(* up again in the current generation.                                     *)
(***************************************************************************)
CandidateKey(r) == history[job[r].candidate].key
LockedReceipt(r) == Newest(WithKey(CandidateKey(r)))
Exact(r) == CandidateKey(r) = Key(r)

\* Faulty: the key alone decides.
ReusableByKey(r) == Exact(r)

\* A proposal that validated once validates again on unchanged dependencies.
Reusable(r) ==
    /\ Exact(r)
    /\ DependenciesAt(job[r].task, Current) = job[r].deps
    /\ ResourcesOf(job[r].task) = job[r].resources
    /\ Intact(LockedReceipt(r), ObjectsAt(Current))

Verifying(r) == pc[r] = "verify" /\ writer = Nobody

Reuse(r) ==
    /\ Verifying(r)
    /\ Reusable(r)
    /\ Finish(r, "valid", Key(r), Current, LockedReceipt(r))
    /\ OnlyRun

\* Newer code reads another scientific transition in the accepted proposal.
Reevaluate(r) ==
    /\ Verifying(r)
    /\ ~Exact(r)
    /\ Fail(r, "contract")
    /\ OnlyRun

\* Faulty: coupled tasks run again like ordinary ones.
RejectAndRepeat(r) ==
    /\ Verifying(r)
    /\ ~Reusable(r)
    /\ pc' = [pc EXCEPT ![r] = "preflight"]
    /\ UNCHANGED <<job, result>>
    /\ OnlyRun

\* An ordinary task, or one whose receipt is of another version, runs again ...
RejectAndExecute(r) ==
    /\ Verifying(r)
    /\ ~Reusable(r)
    /\ ~(job[r].task \in Coupled /\ Exact(r))
    /\ pc' = [pc EXCEPT ![r] = "preflight"]
    /\ UNCHANGED <<job, result>>
    /\ OnlyRun

\* ... a coupled task must not: its artifact is already committed.  Its
\* adapter may reject the receipt for a reason of its own, too.
RejectAndRefuse(r) ==
    /\ Verifying(r)
    /\ job[r].task \in Coupled /\ Exact(r)
    /\ Fail(r, "internal")
    /\ OnlyRun

\* LockTimeoutError is not caught here: it leaves run().
VerifyTimeout(r) ==
    /\ pc[r] = "verify" /\ writer # Nobody
    /\ Fail(r, "raised")
    /\ OnlyRun

(***************************************************************************)
(* Execution                                                               *)
(***************************************************************************)
\* validate_pre_execution of the adapter: no engine runs for a stale task.
PreflightPass(r) ==
    /\ Goto(r, "preflight", "attempt")
    /\ job[r].task \in Coupled => job[r].base = Current
    /\ job' = [job EXCEPT ![r].attempt = 1]
    /\ UNCHANGED result
    /\ OnlyRun

PreflightStale(r) ==
    /\ Goto(r, "preflight", "stale")
    /\ job[r].task \in Coupled /\ job[r].base # Current
    /\ UNCHANGED <<job, result>>
    /\ OnlyRun

\* The adapter refuses for a reason of its own (budget, position, binding).
PreflightRefuse(r) ==
    /\ pc[r] = "preflight" /\ job[r].task \in Coupled
    /\ Fail(r, "internal")
    /\ OnlyRun

Propose(r, c) ==
    /\ Goto(r, "attempt", "commit")
    /\ job' = [job EXCEPT ![r].proposal = c]
    /\ UNCHANGED result

Signature(r) == [key |-> Key(r), engine |-> EngineOf(job[r].attempt)]

CacheHit(r) ==
    /\ \E entry \in cache : entry.signature = Signature(r) /\ Propose(r, entry.content)
    /\ OnlyRun

\* Faulty: a proposal is cached before it is accepted.
EngineAnswersCached(r) ==
    /\ \E c \in Content :
          /\ Propose(r, c)
          /\ cache' = cache \cup {[signature |-> Signature(r), content |-> c]}
    /\ UNCHANGED <<storeVars, accepted, outsideVars>>

\* The engine's proposal parses, has its schema and validates against the
\* base snapshot.  It is asked on a cache miss, and when the cached proposal
\* does not validate (any more).
EngineAnswers(r) ==
    /\ \E c \in Content : Propose(r, c)
    /\ OnlyRun

\* Faulty: the first engine comes after the last one.
EngineFailsAround(r) ==
    /\ pc[r] = "attempt"
    /\ job' = [job EXCEPT ![r].attempt = IF @ < Attempts THEN @ + 1 ELSE 1]
    /\ UNCHANGED <<pc, result>>
    /\ OnlyRun

\* Any outcome of FALLBACK_OUTCOMES: the next attempt, if the plan has one.
EngineFailsOver(r) ==
    /\ pc[r] = "attempt" /\ job[r].attempt < Attempts
    /\ job' = [job EXCEPT ![r].attempt = @ + 1]
    /\ UNCHANGED <<pc, result>>
    /\ OnlyRun

PlanExhausted(r) ==
    /\ pc[r] = "attempt" /\ job[r].attempt = Attempts
    /\ Fail(r, "engine")
    /\ OnlyRun

\* An execution report that is no reason to fall back: a lease, a launcher, a
\* session or the inspection of the process group failed on our side.
EngineFailsClosed(r) ==
    /\ pc[r] = "attempt"
    /\ Fail(r, "internal")
    /\ OnlyRun

\* The bundle of the task, or the workspace copied from it, was damaged.
BundleBroken(r) ==
    /\ pc[r] \in {"lookup", "attempt"}
    /\ Fail(r, "internal")
    /\ OnlyRun

\* The disposition or the commit plan of a proposal cannot be prepared.
PrepareFails(r) ==
    /\ pc[r] = "commit"
    /\ \E outcome \in {"contract", "internal"} : Fail(r, outcome)
    /\ OnlyRun

(***************************************************************************)
(* The commit, under the writer lock                                       *)
(***************************************************************************)
\* Faulty: unchanged dependencies are enough.
FreshDependencies(r) ==
    /\ DependenciesAt(job[r].task, Current) = job[r].deps
    /\ ResourcesOf(job[r].task) = job[r].resources

\* The freshness checks of commit() and of locked_promotion.
Fresh(r) ==
    /\ job[r].base = Current
    /\ DependenciesAt(job[r].task, Current) = job[r].deps
    /\ ResourcesOf(job[r].task) = job[r].resources

BeginCommit(r) ==
    /\ Goto(r, "commit", "publish")
    /\ writer = Nobody
    /\ Fresh(r)
    /\ writer' = r
    /\ UNCHANGED <<job, result, history, workVars, outsideVars>>

CommitStale(r) ==
    /\ Goto(r, "commit", "stale")
    /\ writer = Nobody
    /\ ~Fresh(r)
    /\ UNCHANGED <<job, result>>
    /\ OnlyRun

\* A lock timeout is an OSError, and so a transaction failure.
CommitTimeout(r) ==
    /\ pc[r] = "commit" /\ writer # Nobody
    /\ Fail(r, "transaction")
    /\ OnlyRun

\* The promotion or the staged repository does not validate, or a file
\* operation fails before CURRENT is replaced.
PublishFails(r) ==
    /\ pc[r] = "publish"
    /\ \E outcome \in {"contract", "internal", "transaction"} : Fail(r, outcome)
    /\ writer' = Nobody
    /\ UNCHANGED <<history, workVars, outsideVars>>

Publish(r) ==
    /\ Goto(r, "publish", "record")
    /\ Current < MaxGeneration
    /\ Commit(Key(r), job[r].base, job[r].task, job[r].proposal)
    /\ job' = [job EXCEPT ![r].committed = Current + 1]
    /\ writer' = Nobody
    /\ UNCHANGED <<result, workVars, outsideVars>>

\* Faulty: a commit that fails late is retried as if nothing had been committed.
PublishUnknownRetried(r) ==
    /\ Goto(r, "publish", "attempt")
    /\ Current < MaxGeneration
    /\ Commit(Key(r), job[r].base, job[r].task, job[r].proposal)
    /\ job' = [job EXCEPT ![r].committed = Current + 1]
    /\ writer' = Nobody
    /\ UNCHANGED <<result, workVars, outsideVars>>

\* CURRENT is replaced, then a file operation fails, or the exit of the writer
\* lock finds that the state directories have moved: the run reports a transaction
\* failure or an internal one although its generation is there.
PublishUnknown(r) ==
    /\ pc[r] = "publish"
    /\ Current < MaxGeneration
    /\ Commit(Key(r), job[r].base, job[r].task, job[r].proposal)
    /\ pc' = [pc EXCEPT ![r] = "idle"]
    /\ job' = [job EXCEPT ![r] = NoJob]
    /\ \E outcome \in {"transaction", "internal"} :
           result' = [result EXCEPT ![r] =
               [NoResult EXCEPT !.outcome = outcome, !.committed = Current + 1]]
    /\ writer' = Nobody
    /\ UNCHANGED <<workVars, outsideVars>>

Accept(r) ==
    /\ Goto(r, "record", "cache")
    /\ accepted' = accepted \cup
           {[generation |-> job[r].committed, content |-> job[r].proposal]}
    /\ UNCHANGED <<job, result, storeVars, cache, outsideVars>>

\* cache.put overwrites the entry of the signature; then run() returns.
CachePut(r) ==
    /\ pc[r] = "cache"
    /\ cache' = {entry \in cache : entry.signature # Signature(r)} \cup
           {[signature |-> Signature(r), content |-> job[r].proposal]}
    /\ Finish(r, "valid", Key(r), job[r].committed, job[r].committed)
    /\ UNCHANGED <<storeVars, accepted, outsideVars>>

(***************************************************************************)
(* STALE_SNAPSHOT: run() builds a new task, up to max_stale_rebuilds times.*)
(***************************************************************************)
\* Faulty: one rebuild too many.
MayRebuildMore(r) ==
    /\ job[r].task \in Coupled => job[r].task \in RebuildOnStale
    /\ job[r].rebuilds <= MaxStaleRebuilds

MayRebuild(r) ==
    /\ job[r].task \in Coupled => job[r].task \in RebuildOnStale
    /\ job[r].rebuilds < MaxStaleRebuilds

Rebuild(r) ==
    /\ Goto(r, "stale", "create")
    /\ MayRebuild(r)
    /\ job' = [job EXCEPT ![r] = [NoJob EXCEPT !.task = job[r].task,
                                               !.rebuilds = job[r].rebuilds + 1]]
    /\ UNCHANGED result
    /\ OnlyRun

ReturnStale(r) ==
    /\ pc[r] = "stale"
    /\ ~MayRebuild(r)
    /\ Fail(r, "stale")
    /\ OnlyRun

(***************************************************************************)
(* The world around the runs                                               *)
(***************************************************************************)
\* The process dies, or an exception that nothing maps leaves run(): the
\* caller has no result.  The lock is released, the rest stays.
Vanish(r) ==
    /\ pc[r] # "idle"
    /\ vanished < MaxVanished
    /\ vanished' = vanished + 1
    /\ Fail(r, "raised")
    /\ writer' = IF writer = r THEN Nobody ELSE writer
    /\ UNCHANGED <<history, workVars, source, edits>>

EditSource ==
    /\ edits < MaxEdits
    /\ edits' = edits + 1
    /\ source' \in Source \ {source}
    /\ UNCHANGED <<runVars, storeVars, workVars, vanished>>

\* The writers that commit without a receipt: selection, pilot setup, the
\* pilot journal and the retrieval promotion.
OtherCommit ==
    /\ writer = Nobody
    /\ Current < MaxGeneration
    /\ \E o \in Object : \E c \in Content :
          history' = Append(history,
              [objects |-> [ObjectsAt(Current) EXCEPT ![o] = c], key |-> NoKey,
               base |-> Current, content |-> c, changed |-> {}])
    /\ UNCHANGED <<runVars, writer, workVars, outsideVars>>

(***************************************************************************)
(* The specification                                                       *)
(***************************************************************************)
Preparation(r) ==
    \/ LoadCurrent(r) \/ SnapshotResources(r) \/ LookupMiss(r) \/ LookupHit(r)

Verification(r) ==
    \/ Reuse(r) \/ Reevaluate(r) \/ RejectAndExecute(r) \/ RejectAndRefuse(r)
    \/ VerifyTimeout(r)

Execution(r) ==
    \/ PreflightPass(r) \/ PreflightStale(r) \/ PreflightRefuse(r)
    \/ CacheHit(r) \/ EngineAnswers(r) \/ EngineFailsOver(r) \/ PlanExhausted(r)
    \/ EngineFailsClosed(r) \/ BundleBroken(r) \/ PrepareFails(r)

Acceptance(r) ==
    \/ BeginCommit(r) \/ CommitStale(r) \/ CommitTimeout(r)
    \/ PublishFails(r) \/ Publish(r) \/ PublishUnknown(r)
    \/ Accept(r) \/ CachePut(r)
    \/ Rebuild(r) \/ ReturnStale(r)

Progress(r) == Preparation(r) \/ Verification(r) \/ Execution(r) \/ Acceptance(r)

Next ==
    \/ \E r \in Runner :
          \/ \E t \in Task : Run(r, t)
          \/ Progress(r) \/ Vanish(r)
    \/ EditSource
    \/ OtherCommit

\* A run is a loop of one thread: it takes its next step, an engine's answer
\* has a deadline, and so has the wait for the lock.
Fairness == \A r \in Runner : WF_vars(Progress(r))

Spec == Init /\ [][Next]_vars
FairSpec == Spec /\ Fairness

(***************************************************************************)
(* Properties                                                              *)
(***************************************************************************)
Places == {"idle", "create", "snapshot", "lookup", "verify", "preflight",
           "attempt", "commit", "publish", "record", "cache", "stale"}
Outcomes == {"none", "valid", "stale", "contract", "internal", "transaction",
             "engine", "raised"}
Dependencies == UNION {[Deps[t] -> Content] : t \in Task}
Keys == [task : Task, deps : Dependencies, resources : SUBSET Source,
         version : {Version[r] : r \in Runner}]
\* What marks a generation without a receipt is not a semantic task key.
ASSUME KeysAssumption == NoKey \notin Keys
Jobs == [task : Task \cup {NoTask}, rebuilds : 0..MaxStaleRebuilds,
         base : 0..MaxGeneration, deps : Dependencies \cup {<<>>},
         resources : SUBSET Source, candidate : 0..MaxGeneration,
         attempt : 0..Attempts, proposal : Content \cup {NoContent},
         committed : 0..MaxGeneration]
Results == [outcome : Outcomes, key : Keys \cup {NoKey},
            generation : 0..MaxGeneration, origin : 0..MaxGeneration,
            committed : 0..MaxGeneration]
Committed == [objects : [Object -> Content], key : Keys \cup {NoKey},
              base : 0..MaxGeneration, content : Content, changed : SUBSET Object]

\* Every variable has its type, attempts and rebuilds within the limits of
\* RuntimeConfig.
TypeOK ==
    /\ pc \in [Runner -> Places]
    /\ job \in [Runner -> Jobs]
    /\ result \in [Runner -> Results]
    /\ writer \in Runner \cup {Nobody}
    /\ history \in Seq(Committed) /\ Current <= MaxGeneration
    /\ cache \subseteq [signature : [key : Keys, engine : 1..Engines],
                         content : Content]
    /\ accepted \subseteq [generation : 1..MaxGeneration, content : Content]
    /\ source \in Source
    /\ edits \in 0..MaxEdits
    /\ vanished \in 0..MaxVanished

\* A coupled task is accepted at most once for one semantic key: the kernel
\* refuses to execute it again, whichever runs race, vanish, or report a
\* failure for a generation that is there.
CoupledAtMostOnce ==
    \A g, h \in Generations :
        /\ history[g].key = history[h].key
        /\ history[g].key # NoKey
        /\ history[g].key.task \in Coupled
        => g = h

\* An ordinary task with the same inputs is accepted again only to restore
\* objects that somebody changed since its last acceptance.  (A task that
\* reads an external file may also run again because that file was edited
\* and edited back between its lookup and its commit.)
RepeatsOnlyRestore ==
    \A h \in Generations :
        /\ history[h].key # NoKey
        /\ history[h].key.task \notin Coupled \cup Sourced
        => LET earlier == {g \in WithKey(history[h].key) : g < h}
           IN earlier # {} => ~Intact(Newest(earlier), ObjectsAt(h - 1))

\* What a proposal was made from is what it is applied to: an accepted task was
\* built on the generation right before its own, with those dependencies.
CommittedOnItsInputs ==
    \A g \in Generations :
        history[g].key # NoKey =>
            /\ history[g].base = g - 1
            /\ history[g].key.deps = DependenciesAt(history[g].key.task, g - 1)

\* A VALID_SCIENTIFIC_RESULT names a committed receipt with the task's own key,
\* and at the generation it reports what that receipt changed is still in
\* place; for a reused receipt the dependencies are unchanged there, too.
ReportedValid ==
    \A r \in Runner :
        LET res == result[r]
        IN res.outcome = "valid" =>
              /\ res.origin \in 1..res.generation
              /\ res.generation \in Generations
              /\ history[res.origin].key = res.key
              /\ Intact(res.origin, ObjectsAt(res.generation))
              /\ res.committed = 0 =>
                     DependenciesAt(res.key.task, res.generation) = res.key.deps

\* Fallbacks and rebuilds never follow a commit: a run that reports that it was
\* stale, refused or without an answer has committed nothing, though a transaction
\* failure and an internal one may hide a commit.
FailureCommitsNothing ==
    \A r \in Runner :
        result[r].outcome \in {"stale", "contract", "engine"} =>
            result[r].committed = 0

\* work/cache and the accepted/ directories hold committed proposals only.
RecordsAreCommitted ==
    /\ \A entry \in cache : \E g \in WithKey(entry.signature.key) :
          history[g].content = entry.content
    /\ \A record \in accepted :
          /\ record.generation \in Generations
          /\ history[record.generation].content = record.content

\* Every run ends, through fallbacks, lock timeouts and stale rebuilds.
EveryRunEnds == \A r \in Runner : pc[r] # "idle" ~> pc[r] = "idle"
================================================================================
