# VibeReview in TLA+

This directory models the parts of VibeReview whose correctness depends on the
order in which things happen: the generation store, the task kernel that commits
to it, the execution of one engine attempt, what accepted tasks may do to the
scientific record, the chain of artifacts and receipts they leave, the pilot run
with its journal and controllers, and the publication of review packets. Paths are
relative to the repository; `runtime/` stands for `src/vibereview/runtime/` and
`library/` for `src/vibereview/library/`.

## 1. The system

VibeReview keeps the state of a scientific review as immutable, numbered
*generations* in a project directory. Engines (language models behind a
subprocess) propose changes; the Python runtime checks a proposal and commits it as
the next generation together with a receipt of the task. There is no server. The
actors are processes and threads that call the library on a shared directory, the
engine processes they start, the user who edits source files and the machine, which
may stop.

| Part | State | Operations | Talks to |
|---|---|---|---|
| Generation store (`runtime/repository.py`) | `state/generations/NNNNNN/`, `state/CURRENT`, `COMPLETE` markers, the dot-named staging directory | `initialize`, `commit`, `recover`, `load_current`, `load_receipts` | advisory lock; everything that commits |
| Advisory lock (`runtime/locking.py`) | a lock per path in the process and `flock` between processes | enter with timeout, exit | store, credential vault |
| Project runtime (`runtime/kernel.py`, `coupled.py`) | the call stack of `run()` | create a task, look up a receipt, execute, commit, accept, rebuild | store, workspace, cache, engines, coupled adapters |
| Task workspace (`runtime/tasks.py`, `state.py`) | `work/tasks/NNNN/` with bundle, attempts and `accepted/` | `create`, `verify`, `accept` | kernel |
| Semantic cache, receipts (`runtime/cache.py`, `receipts.py`) | `work/cache`, receipts in the generations | `get`, `put`, lookups by key | kernel |
| Registry, promotion, specifications (`runtime/registry.py`, `promotion.py`, `specs.py`) | identifier counters in a generation | allocate, validate, promote | kernel |
| Scientific models and validators (`models.py`, `validators.py`) | claims, spans, evidence, assessments, packets, propositions of a snapshot | `validate_repository` on the staged snapshot | promotion, store |
| Subprocess execution (`runtime/execution.py`, `subprocess.py`, `resource_limits.py`, `output_policy.py`) | an execution root, a process group, an output descriptor | `execute`: prepare, launch, monitor, quiesce, import, clean up | kernel, credentials, qualification |
| Credentials (`runtime/credentials.py`) | a staged secret, the vault's lock | lease enter and exit | execution |
| Confinement, qualification (`runtime/confinement.py`, `live_execution.py`, `qualification_store.py`, `sandbox.py`) | stored qualifications | gate check at two checkpoints | execution |
| Discovery, drafts (`runtime/discovery.py`, `drafts.py`, `draft_transitions.py`) | artifacts and their indexes, owned by generations | coupled adapters: bundle, preflight, commit, verify a receipt | kernel, store |
| Pilot (`runtime/pilot_journal.py`, `pilot_sequence.py`, `pilot_usage.py`, `library/pilot_controller.py`) | a chain of events in the generations, marked task directories, cursors of scripted engines | call an engine, append an event, resume, account | kernel, store |
| Packets (`runtime/artifacts.py`, `pilot_packet.py`) | a destination directory outside the project | assemble, stage, rename, verify, withdraw | store (read only) |
| Library (`library/selection.py`, `git_source.py`, `retrieval*.py`, `evidence_task.py`) | imported documents, retrieval ledgers | import, retrieve, promote evidence | store |
| Prompt projects (`prompting/`) | registry, compiled prompts, runs | compile, verify, record | none |

The interactions that matter: every writer takes the one writer lock, recovers the
store and publishes one generation; readers take no lock at all. A run of the kernel
reads its inputs, then works for minutes *without* the lock, and so must look at
everything again when it commits. An attempt runs a program that VibeReview does not
control, and reports back only when nothing of it is left. Tasks build on each other's
results over many generations, so what a task has judged must still be there, and
still be all there is, when a later task builds on the judgement.

What makes each part correct:

* **Store**: one linear history; what `commit()` returned for survives crashes and
  power losses; `CURRENT` never dangles once something was acknowledged; a reader finds what it was pointed at;
  recovery settles what a crash left and leaves nothing behind.
* **Runtime**: what is committed was computed from the generation below it; a
  coupled task is accepted once; a result that is reported is there; a run that was
  stale, refused or without an answer committed nothing; a run ends.
* **Execution**: only the output of an engine that exited by itself becomes a
  proposal, and without a sandbox it is final; credential, lock, root and processes are gone afterwards, or the outcome
  says that they may not be; only qualified sandboxes are launched; an attempt ends.
* **Record**: an assessment rests on the aggregates that are recorded, an aggregate on
  all evidence of its paper; a source counts once; an audit is final; what a proposition
  was drafted from stays; an accepted sentence leads down to evidence.
* **Artifacts**: an item is audited once, whatever drafts repeat it; what was accepted
  can be had again; claims account for all that discovery found.
* **Pilot**: every engine call is accounted for by one event; work that no event accounts
  for stops the run; scripts are consumed in order, also by a controller that takes over; journal
  and record never drift apart; a closed run is complete.
* **Packets**: a packet that was answered for stays; a failed call leaves nothing; other
  people's directories are spared, unless they were taken for its own; a packet is of a generation that was `CURRENT`.
* **Lock**: exclusive between threads and processes at once, within one timeout.
* **Workspace**: a task number is used once; a resource copy is one version of it.
* **Registry**: no identifier is handed out twice, none beyond its width.
* **Retrieval promotion**: a repeated promotion recognises its own earlier commit.

`PROJECT.json` lists the hazards one by one, at the line where each bites, with the
property that covers it or the reason why none does.

## 2. Modules

| Module | Models | Relation to the others |
|---|---|---|
| `AtomicStore` | what callers may rely on: one history, extended one promotion at a time; a failure forgets only what was never acknowledged | abstract specification |
| `GenerationStore` | `repository.py`, one action per file-system step | refines `AtomicStore` |
| `ProjectRuntime` | `ProjectRuntime.run()` of several runners on one store | takes a commit as one step, which `GenerationStore` justifies |
| `SubprocessExecution` | `SubprocessEngine.execute()`, quiescence, leases | its outcomes are the engine steps of `ProjectRuntime` |
| `ReviewRecord` | the canonical tasks (`specs.py`, `promotion.py`, `validators.py`, `retrieval_promotion.py`), one step each | a task is a step because of `CommittedOnItsInputs`; abstract specification of the pilot |
| `PilotSequence` | the journal of a pilot run and the sequence it must follow | extends `ReviewRecord` with the events |
| `PilotController` | the controllers of a run: calls, attempts, commits, deaths, control events | extends `PilotSequence`; each of its steps is a step of `ReviewRecord` or leaves the record alone |
| `ArtifactChain` | receipts and artifacts of discovery, drafts and audits | the coupled adapters that `ProjectRuntime` calls |
| `PacketWriter` | both packet writers, one action per directory operation | reads `CURRENT` only |
| `GenerationStoreProofs`, `StoreDurabilityProofs`, `ProjectRuntimeProofs`, `SubprocessExecutionProofs`, `ReviewRecordProofs`, `PilotControllerProofs`, `ArtifactChainProofs`, `PacketWriterProofs` | | theorems for all values of the constants |
| `MC…` | instances for TLC: model values, functions on them, symmetries | |

### GenerationStore

A process is at one place (`pc`) of one call (`call`). It takes the lock (`Enter`, or
`LockTimeout`), then always runs `_recover_locked`: `SweepStaging` removes the staging
directories, `ScanRemove`/`ScanRefuse`/`ScanDone` go through directories that are not
complete, `PointerRepair`/`PointerKeep`/`PointerNone` settle `CURRENT`, and
`AbandonRemove`/`AbandonDone` remove complete generations above it. Only then
initialize, commit or recover decides (`Decision`) and writes its staging directory
file by file, renames it, syncs the parent, replaces `CURRENT` and syncs again
(`Production`). A commit compares only the number of its base generation.

The directory of a generation is a set of files and a *log*, the list of promotions
that led to it: `repository.json`, the registry and the applied tasks are functions of
it. `gens`/`current` are what processes see; `gensOnDisk`/`currentOnDisk` hold what a
power loss may leave of it, and the fsync steps shrink those sets. `Abort` ends a call
between any two steps (an exception or the death of the process), `AbortRemoval` in the
middle of `_remove_repository_tree`, whose order of unlinking the code does not fix;
`PowerLoss` stops everybody. A reader is `ReadPointer` then `ReadGeneration`, without
the lock.

The refinement mapping is `CommittedLog`: the log of the generation that recovery would
settle on. So a promotion takes effect when `CURRENT` names it; generation 0, which is
built in place, already when its marker is written. A power loss may also *apply* a
promotion, when it keeps the new generation and loses the only one below it, before
anything was acknowledged.

### ProjectRuntime

`job[r]` is the task of runner `r`: what it depends on (`base`, `deps`, `resources`),
the receipt candidate it found, its attempt, its proposal. The places follow `run()`:
`create`/`snapshot` (`_create_task`, `tasks.create`), `lookup` (receipts, without the
lock), `verify` (`locked_receipt_verification`), `preflight` (the coupled adapter),
`attempt` (cache, engine, fallback), `commit` (freshness under the lock), `publish`,
`record` and `cache` (`accept()`, `cache.put()`), `stale` (rebuild or return).

A semantic task key is a record of what it hashes: task, dependencies, resources and
code version; so two keys are equal exactly if those are. Generation `g` keeps the
snapshot and the receipt it was committed with, hence `load_receipts` at the current
generation is the history up to it. Failures are actions of their own: a timeout of
the lock while verifying leaves `run()` as an exception (`VerifyTimeout`), while
committing it is a transaction failure (`CommitTimeout`). Two things may go wrong after
`CURRENT` was replaced, and then the generation is there although the run reports a
failure (`PublishUnknown`): an `OSError` is a transaction failure, and the exit of the
writer lock, which verifies the layout once more (`repository.py:460-475`), raises a
`ValueError`, which is an internal failure. Finally a process may die anywhere (`Vanish`). `OtherCommit` stands for
the writers without receipts (selection, pilot journal, retrieval promotion).

### SubprocessExecution

One `Attempt` is one call of `execute()`. `session` is what it must clean up, `watch`
what the supervisor observed, `report` what it will return, and `engine` what is really
there: the first process (`leader`), the processes it forked (`members`), whether
SIGKILL was sent (`doomed`), the proposal file and what else was damaged. The engine's
actions (`Fork`, `LeaderExits`, `WriteProposal`, `DoDamage`, ...) are enabled whenever
any of it is alive; they are marked external in the map. A live attempt
is sandboxed: its processes are outside the process group that quiescence counts
(`--new-session`) and die with their bwrap parent (`--die-with-parent`,
`--unshare-pid`). Nothing makes bwrap wait for them: it returns the exit code of its
command, the rest of its namespace is killed (`doomed`), and until they are dead its
members may write beside the import (`LeaderExits`). It leases the token under the vault lock, and the executable it pins
must be the one the second gate saw.

SIGTERM has no effect in the model beyond allowing the engine to exit: an engine may
ignore it. Time is not counted: a timeout is a step that is possible as long as what it
waits for has not happened.

### ReviewRecord

The state is the snapshot, without texts: which claims and queries there are, the list of
retrieved spans with their dispositions (`spans`), the evidence each aggregate was made
of (`cpe`), per claim its assessment with the aggregates it saw, its final validation and
its packet, the drafts and the audits. One action is one accepted task:
`GenerateCandidateClaims`, `GenerateRetrievalQueries`, `AssessEvidence`,
`AggregatePaperEvidence`, `AssessClaim`, `ValidateFinalClaim`, `GeneratePropositions`,
`AuditProposition`, `RenderProse`, `AuditRenderedSentence`. Guards are the checks of the
specification and of the promotion; `PromoteCandidates` numbers the occurrences of a source
and decides (`assessed`, `duplicate`, `redundant`) within the bounds of `Decidable`; and
every action ends with `ValidRecord'`, the rules of `validate_repository` on the staged snapshot. A task may run
again under a new prompt: nothing in the model forbids repeating one that the code does
not forbid.

### PilotSequence and PilotController

`journal` is the list of events of `CURRENT`; an event and the promotion of its task are
one generation, so an action that appends an event is also the action of `ReviewRecord`
of its task. `PilotSequence` translates `pilot_sequence.py`: the phases, drafts that are
audited item by item, what a report needs (`ValidSequence`, evaluated on the journal with
the new event and on the new snapshot).

A controller has work outside the store: `work` is the marked task directories with the
outcome of each attempt, `job[k]` the call it is in. `Begin` checks head, cursors,
budget and that every directory is reconciled with an event; `Attempt` runs the engine
once (the answer is unusable, refused or good); `Accept` commits task and event,
`Refuse` and `Fail` commit the event of a failed task, each only if `CURRENT` has not
moved; control events (`prerequisites`, `retrieval`, `assembly`, `report`) have no task
and are reused if the last event equals the new one (`ReuseControl`); `Leave` is an
exception or the death of the process at any point. What survives it are the task
directories.

### ArtifactChain

`history[g]` is what generation `g` was made by: the task, its arguments, the
dependencies it hashed, its base and its output. A generation's number stands for the
reference to its artifact, because the artifact names its owner and no other can have
its hash. The calls (`CallParse` ... `CallAudit`) build the bundle from `CURRENT` without
the lock; `Answer` returns the accepted artifact of an equal call, if its receipt
passes the verification of its adapter (`Verified`) and otherwise fails; `Preflight` is
the validation before an engine runs, `Accept` the checks and the commit under the lock. `OtherCommit` is
any other task; it may change a packet that no proposition cites.

### PacketWriter

A writer is a sequence of directory operations: assemble (`Prepare`), look whether the
destination exists (`Lookup`), make a staging directory (`MakeStaging`), ask for its
identity by its name (`TakeIdentity`: what bears the name at that moment is
`call[w].dir`, the writer's own from there on) and open it (`OpenStaging`), fill it
(`CreateFile`, `FillFile`, `Seal`), rename without replacing (`Publish`), read the result back through
the descriptor (`ReadFile`, `Judge`, `RebindFile`, `Confirm`), and accept or withdraw
(`Inspect`, `Unlink`, `Rmdir`; the last comparison of the name and `rmdir` itself are one
step). `entry` maps names to directories and `call[w].opened`
holds a directory itself, so that renaming something under a held descriptor can be told
from replacing it. Other programs occupy names, move what has one away, replace or add files and move a
root (`Occupy`, `MoveAway`, `Replace`, `AddEntry`, `MoveRoot`); `Advance` moves `CURRENT`; `Die` kills a
writer. Most properties are about directories that no other program touched;
`OthersAreSpared` is about the directory that the others have put in the way.

## 3. What TLC checks

| Run | Instance | Properties |
|---|---|---|
| `store_crash` | process deaths only, no power loss; fair | `TypeOK`, `HistoryReadable`, `ReadersFindTheirGeneration`, `PromotionsAreFresh`, `EveryCallEnds` |
| `store_power` | process deaths and one power loss | `RecoveryLeavesNoDebris`, `AcknowledgedSurvives`, and that the store implements `AtomicStore` |
| `store_torn_removal` | a removal that is cut short twice | violates `RecoveryNeverRefuses` (section 6) |
| `runtime_races` | two runners, an ordinary and a coupled task, three generations | `TypeOK`, `CoupledAtMostOnce`, `RepeatsOnlyRestore`, `FailureCommitsNothing` |
| `runtime_inputs` | two code versions and an edited external file | `CommittedOnItsInputs`, `ReportedValid`, `RecordsAreCommitted` |
| `runtime_liveness` | two engines, one rebuild, one vanished run; fair | `EveryRunEnds` |
| `execution_attempt` | one attempt against any engine; fair | `ValidProposalsAreFinal`, `NothingLeftBehind`, `EveryAttemptReturns` |
| `execution_leases` | two live attempts, a vault, a changing executable | `LockOutlivesEngine`, `LiveLaunchIsQualified`, `NothingLeftBehind` |
| `review_record` | two claims whose queries share a source, two proposition drafts, one of sentences | `AssessmentsRestOnTheRecord`, `AuditsAreFinal`, `PropositionsStandOnTheirSources`, `SentencesTraceToEvidence`, `SourcesSpeakOnce` |
| `pilot` | two controllers of one run, from prerequisites to report, with retries and deaths | `PilotTypeOK`, `CallsAreAccounted`, `StrayCallsStopTheRun`, `ScriptIsConsumedOnce`, `ClosedRunsAreComplete`, `JournalTellsTheRecord` |
| `packet` | two writers of either kind, one destination, two acts of other programs, a death | `PublishedPacketsStay`, `NothingIsLeftBehind`, `OthersAreSpared`, `PacketsAreOfCurrent` |
| `artifacts` | two runtimes, four generations, two claims with two wordings | `ItemsAuditedOnce`, `AcceptedIsReusable`, `ClaimsAccountForTheirChain` |

Each property has a *faulty variant* of one operation next to that operation (marked
`Faulty:`), a plausible bug such as a missing fsync, a dropped comparison or a kill
that is forgotten, under which TLC finds the property violated.

### Bounds, and why they are enough

* Store: two processes, because the lock is exclusive and a reader or a second writer is
  one other process. Generations 0..2 give a base, a committed generation and one that is
  abandoned above it. Four promotions allow a number to be used twice (abandoned and
  promoted again), and two aborts allow a recovery to be interrupted as well as the
  commit before it. One power loss: what a power loss leaves is a state without unsynced
  data, so another one starts from the same kind of state. (The theorems have no bounds.)
* Runtime: two runners, each of which may run either task again and again. A third
  generation is needed for a repeated task after a change (`runtime_races`), versions
  and file edits are independent of it and have a run of their own with two generations.
  One content less is enough for liveness. Runs are unbounded in number; only
  generations, edits and vanished runs are bounded. When `MaxGeneration` is reached,
  a run may still fail to publish, so no run is stuck on the bound.
* Execution: two members against a limit of two processes (leader included) reach both
  sides of the quota; two texts let a proposal change after it was read; one failed
  count at a time reaches every place where a count is taken. The leases' run has no
  output damage and two exit codes, because the lease does not depend on them; it is the
  one in which live attempts stage a credential, so that `NothingLeftBehind` covers it.
* Record: one source is found by both queries, two more only by the second, two of the three in one
  paper; so a source is found again for the same claim and for another one, and a paper
  gets evidence after it was aggregated. Four spans are what both queries
  select together, with the shared source twice. Two proposition drafts let a draft repeat
  an item of the other; with one sentence draft no sentence can come again in another
  draft, which the theorems `AuditsFinal` and `AuditedOnce` cover.
* Pilot: one claim with two queries and one source is the shortest run in which an
  engine is called for two tasks of one kind. `Attempts = 2` and `MaxRetries = 1`: any
  one task may be attempted twice. `MaxLag = 2`: while a call is under way, others add at most
  two events (the controllers compare for equality only). With 15 invocations the longest
  runs meet the budget, and complete ones fit.
* Packets: the two kinds of packet differ in a file; `CURRENT` moves once; two acts of
  other programs allow a name to be vacated and taken, or taken and something in it replaced.
* Artifacts: four generations hold a chain parse, challenge, claims with one commit in
  between, or propositions, their audit, rendering and an audit of a sentence; two
  proposition drafts and two audits also fit. A second audit of a *sentence* does not fit; the
  theorem `AuditedOnce` covers it.
* Symmetry is declared on interchangeable processes, runners, attempts, writers,
  controllers, claims or wordings, in runs with safety properties only (for
  `ImplementsAtomicStore` the abstract specification has no fairness
  and its state mentions no process).
* `CHECK_DEADLOCK FALSE` is set where the system really stops: a call of `execute()` or
  of a packet writer that returned is over, a closed pilot run takes no further event, a
  full record or history takes no further task. The store and runtime runs check deadlock.

### Fairness

Weak fairness of one disjunction per actor, nothing else: `Progress(p)` of a store call,
`Progress(r)` of a run and `Supervise(a)` of an attempt. Each is a single thread of code
whose only waits have deadlines: the writer lock (`LockTimeoutError`), the engine
(`timeout_seconds`), the vault lock. `process.wait()` after SIGKILL has none, and so
`SubprocessExecution` also assumes `Dies(a)`: what was sent SIGKILL dies. Nothing is
assumed of readers, of engines, of the user, or that any call is ever made. The other
modules state no liveness: a pilot or a review goes on only if its user calls.

## 4. What is proved

Every theorem holds for all values of the constants, under the named assumptions of the
module (naturals where there are counts, markers such as `Nobody` that are not members
of the sets they mark, functions with the domains they need). TLC evaluates each
assumption on its instance.

**`GenerationStoreProofs`** (`BoundsAssumption`)

* `TypeCorrect`: `Spec => []TypeOK`.
* `WriterExclusion`: no two processes are inside the critical section.
* `ReadersSafe`: `Spec => []ReadersFindTheirGeneration`, the reader without the lock
  finds the whole directory of the generation that `CURRENT` named, in spite of aborts
  anywhere and power losses.

All three follow from one inductive invariant,
`IInv == TypeOK /\ OneWriter /\ WriterInv /\ ReaderInv`. `ReadersFindTheirGeneration`
alone is not inductive: a recovery's removal must spare what a reader was pointed at,
and a commit must not rename onto it. `ReaderInv` says that a reader's base generation
is complete and not above `CURRENT`; so removals of incomplete generations and of those
above `CURRENT` do not touch it. `WriterInv` says that what a call produces keeps the
number it was staged for: `initialize` produces while `CURRENT` is missing, `commit`
while it is below the last number, and so the number after `CURRENT` is the one that is
renamed and pointed at. It survives the steps of others because they are not inside:
`OneWriter` ties the places `Inside` to the lock.

**`StoreDurabilityProofs`** (the same assumption)

* `AcknowledgedDurable`: `Spec => []AcknowledgedSurvives`.
* `RecoveryClean`: `Spec => []RecoveryLeavesNoDebris`.
* `StoreLinear`: `Spec => ImplementsAtomicStore`.
* `HistoryStaysReadable`: `Spec => [](powerLosses = 0 => HistoryReadable)`.
* `PromotionsFresh`: `Spec => [](powerLosses = 0 => PromotionsAreFresh)`.

`DInv` says of every *version* that a power loss may leave what the state itself must
say: once something was acknowledged, every version of `CURRENT` names a generation
each version of which is whole and contains it (`Durable`); a writer has the new
generation on disk before `CURRENT` names it, and `CURRENT` before it returns
(`WriterDurable`); each pass of recovery has dealt with its kind of debris
(`Cleaned`). The refinement needs more, because a power loss may go *forward*. Until
something is anchored, every whole version of a generation is a part of the history
that recovery would settle on, or one promotion more with the next number (`Settled`);
and once `CURRENT` is on disk or a recovery has repaired it, all that it may be found
to name is a part of the history (`Anchored`). `Numbered` (generation `g` has `g + 1`
promotions) orders what is found. A power loss from a settled state is then a `Forget`
or an `Apply`, from an anchored one a `Forget`, and `AcknowledgedSurvives` says that
nothing acknowledged is forgotten. `Producing` carries the promotion from staging to
`CURRENT`, where it becomes an `Apply`.

The last two are about any number of deaths, but say nothing once the power has failed:
then they are false (section 6). `HistoryInv` has three parts. Every generation up to
`CURRENT` is whole; nothing whole is further above `CURRENT` than the next number
(`NothingBeyond`), so that when `CURRENT` moves, it moves onto a whole generation and
leaves no hole; and what a process has loaded is still there, with the log that it read
(`Remembered`). Every step of a process either leaves the generations up to `CURRENT`
alone or adds the next one (`HistoryGrows`). So a number has one contents, and the
comparison of numbers under the lock compares contents.

**`ProjectRuntimeProofs`** (`TasksAssumption`, `PlanAssumption`, `BoundsAssumption`,
`KeysAssumption`: what marks a generation without a receipt is not a key)

* `TypeCorrect`: `Spec => []TypeOK`.
* `CoupledOnce`: `Spec => []CoupledAtMostOnce`.
* `CommittedOnInputs`: `Spec => []CommittedOnItsInputs`.
* `FailuresCommitNothing`: `Spec => []FailureCommitsNothing`.
* `ReportsValid`: `Spec => []ReportedValid`.
* `RecordsCommitted`: `Spec => []RecordsAreCommitted`.
* `RepeatsRestore`: `Spec => []RepeatsOnlyRestore`.

The inductive invariant `IInv` of the first four is `TypeOK`, these properties, and what holds of each run at its
place (`RunOK`). Two receipts of one coupled key cannot be ruled out by looking at the
history alone: the reason is spread over a run. When the lookup finds no receipt, none
up to the base generation has the key (`NotYet`; everything that was looked at is at or
below the current generation, and the base is at or below that, too); when it finds one
of the same key, the verification either reuses it or refuses (`FirstOK`); time passes
and others commit, but `NotYet` is about generations that exist and stays true; when the
lock is taken, the base is compared with `CURRENT`, and nothing moves until the commit
(`WriterOK`), so `NotYet` then covers the whole history. `CommittedOnItsInputs` needs
`WriterOK` only. `FailureCommitsNothing` speaks of the outcomes after which a caller
may take for granted that nothing happened (stale, refused, no valid answer); it leaves
out transaction and internal failures, which may hide a commit. It needs that a run has committed exactly at `record`
and `cache`, where no failure action is possible (`JobOK`). `NewestExists`, that every
set of generations has a newest one, is carried along in the invariant: one more
generation preserves it.

The other three follow from a second invariant, `TraceInv`, beside `IInv`. The history
only grows (`Growth`), and what is said of generations that exist stays true; so a run
must be right only at the step that reports, records or commits. `ChangesApplied` (the
objects of a receipt are in place in its own generation) is why the result of a fresh
commit can be reported; for a restored one the verification has looked at the objects
at the generation it reports, and `InputsOK` says that the key is that generation's.
`CommittedOK` covers the two places between the commit and the records. That a task is
repeated only to restore (`Restores`) is the delicate one: the run has seen a receipt
whose objects are gone *at its base*, and others may since have put them back. Hence
`RestoreOK` speaks only of runs whose base is `CURRENT`, which a commit compares under
the lock; a run that has fallen behind is told that it is stale, and a rebuild starts
again with a new base, key and verification.

**`SubprocessExecutionProofs`** (`AttemptsAssumption`, `LimitsAssumption`)

* `ProposalsFinal`, `NothingLeft`, `LockHeld`, `LaunchQualified`: the four safety
  properties of the execution.

The invariant says of each attempt, by its place, what is true of its engine
(`EngineOK`), of lock and staged credential (`LeaseOK`), of the pinned executable
(`GateOK`), of what the supervisor saw against what is there (`WatchOK`), and of the
report (`ReportOK`). The heart of `ProposalsFinal` is in `WatchOK`: without a sandbox an exit code of 0,
and a count that found nothing of the process group after it, mean that nobody is left
to write. For a sandboxed attempt the count means nothing, and the theorem promises no
more than the code has: the command exited with 0 and whoever is left was sent SIGKILL.

**`ReviewRecordProofs`** (`RecordAssumption`, `HitsAssumption`)

* `RecordTypes`, `AssessmentsRest`, `AuditsFinal`, `PropositionsStand`, `SentencesTrace`,
  `SourcesOnce`: the properties of the record.

The invariant is their conjunction with `ValidRecord`, which every task leaves true by
being checked, `ItemsCiteTheirDraft` and `PublishedHavePapers`. `WhoWrites` says which
task writes which part; so each property has one lemma per task that can disturb it.
`SentencesTraceToEvidence` follows from the others: it is the chain of all of them.

**`PilotControllerProofs`** (those of the record, `SequenceAssumption`,
`ControllerAssumption`)

* `StrayCallsStop`: `PilotSpec => []StrayCallsStopTheRun`.
* `EventsAccount`: an event accounts for all attempts that its task will ever have, and
  no task is accounted for twice.
* `JournalTells`: `PilotSpec => []JournalTellsTheRecord`.
* `PilotSentencesTrace`: the theorem about sentences carries over to every pilot
  (`RecordSteps`: by the way `Promote` is composed, each step of a pilot is one of the
  record or leaves it alone).
* `PilotTypes`: `PilotSpec => []PilotTypeOK`.
* `CallsAccounted`: `PilotSpec => []CallsAreAccounted`.
* `ScriptConsumedOnce`: `PilotSpec => []ScriptIsConsumedOnce`.
* `ClosedRunsComplete`: `PilotSpec => []ClosedRunsAreComplete`.

That a stray task stops the run is not inductive, since calls that began before it may
still commit. `StraysAreNewer` bounds them: a call under way began when all was
reconciled, so what is stray was made after its base, and its commit, which needs
`CURRENT` at its base, is possible for one of them only. `Owned` says that a task directory is one
call's until an event names it, which is why an event's count cannot become wrong.

`CountInv` is about numbers of calls. The budget is compared once, when a task begins,
for all the attempts that it may make (`Budgeted`), and several controllers may begin on
the same remainder; but only one of them can commit on it, for `CURRENT` must not have
moved, and what `Spent` was then is what it is at the commit. A cursor is the number of
calls of its kind in the journal of its call's base, plus the call's own
(`CursorsFollow`), and again the journal is still that one when the answer is recorded.
`Spent` and the cursors are sums over the journal (`MapThenSumSet`), and induction over
sets is not available as a rule. Two facts about the sum are enough, that it has a value
by its recursive equation (`SumExists`) and that any one element can be taken out of it
(`SumTakes`); each is shown by its least counterexample: if some subset fails, one of
the smallest size does (`LeastNumber`, from the well-foundedness of `<` on the
naturals), and taking an element away from that gives a smaller one. From there
`CallsGrow` says that an event adds its own usage to the sum.

`ClosureInv` is what makes a report mean something. At the report, `ValidSequence`
requires of the *journal* that each query was decided, each claim validated, each
item audited; the theorem says so of the *record*. What ties them: the spans of a query
are those of the one event that decided its candidates (`SpansPerDecision`, with
`LedgersAreHits`, because only then their number is right), the items of a draft are in the
event that drafted them (`DraftsRecorded`), and an item that an event audits has its
verdict (`AuditsRecorded`). No claim is judged again once propositions are drafted from it
(`DraftsAreCurrent`), as phases only advance; otherwise an old draft could be complete
about evidence that has changed. Nothing follows a report, so what the report was
committed with stays true.

`JournalTellsTheRecord` says that the accepted events and the record determine each
other: the candidates of a query are in the record, each once, exactly if a task was
accepted for it; aggregates, assessments, revisions, validations, drafted and audited
items likewise. It does not follow from an event and a promotion being in one generation: an
event for a query that was decided before would append its spans again, were it not for the
check that no query is assessed twice (`RetrievalProgress`), and a wording is the revised
one only because a revision lies between assessment and validation (`Paired`,
`ClaimsInOrder`). A failed task must leave a record that nothing of its proposal has
entered. `TellInv` carries the claims and items through every step, and the
candidates come from `SpansPerDecision` (`SpansTell`).

**`ArtifactChainProofs`** (`ChainAssumption`)

* `AuditedOnce`, `ClaimsAccounted`, `AcceptedReusable`: the properties of the chain.

Histories only grow, and all that was checked at a commit is about generations below it;
`History` says that of every generation, `Calls` the same of what a call has checked so
far, and `IdentitiesDiffer` that no two audits have the identity that the code looks up.
`AuditedOnce` adds that equal items have equal identities, which is where the
projection of the draft's dependencies to the item's own sources is needed.

**`PacketWriterProofs`** (`PacketAssumption`)

* `PublishedStay`, `NothingLeft`, `ForeignSpared`, `ReturnedCurrent`: the properties of
  the packets.

`WriterOK` follows a directory through a call: who would have to remove it
(`Ownership`), under which name it is (`Located`), what is in it after how many writes
(`Filled`), and what was read while which generation was `CURRENT` (`Judged`);
`ForeignKept` is the same for a directory that no writer has made. A writer's own
directory is the one whose identity it has taken; the theorem says that nothing else is
removed, and cannot say that it is the one that the writer has made (section 6).

## 5. What is only model-checked

* Liveness (`EveryCallEnds`, `EveryRunEnds`, `EveryAttemptReturns`): the prover has no
  rules for fairness and ENABLED.
* `HistoryReadable` and `PromotionsAreFresh` of the store when the power fails: there they
  are false (section 6), and the theorems are about behaviours up to the first power loss.
* `RecoveryNeverRefuses` is violated by the code (section 6), and only in that run.

Every other invariant and action property that a passing run checks is stated by a theorem. The
type invariant of the record is only proved (`RecordTypes`), not checked by a run.

## 6. Disagreements and observations

1. *A recovery that is cut short makes the store unusable* (`store_torn_removal`).
   `_remove_repository_tree` removes an abandoned generation in the order of the
   directory listing. If it stops after a core file and before `COMPLETE`,
   `_recover_locked` finds a marked directory without its files and raises, now and at
   every later call. `docs/operations/synthetic_package_c_harness.md:426` promises that
   recovery reconciles or removes what a crash left.

Further differences between documents and code, without a run of their own:

* `docs/handoffs/r5-pre-real-engine.md:23` says that an attempt whose quiescence fails
  ends before proposal import. If the last count of the process group fails,
  `descendants_remaining` is `None` (`execution.py:970-994`), which the classification
  does not read as a failure: the import runs. The text is dropped later because the
  engine was killed, so `ValidProposalsAreFinal` holds.
* A packet writer may take another's directory for its own. `os.mkdir` of the staging
  directory is followed by `os.stat` of its *name* (`artifacts.py:1185-1190`,
  `pilot_packet.py:2020-2024`), and every later check compares with the identity found
  there. A directory that was moved to the name in between passes for the writer's own; the
  first file that cannot be created makes the call fail, and the cleanup unlinks the files
  of that directory, where the docstring of `_remove_closed_packet_at`
  (`artifacts.py:579`) speaks of "the exact directory inode owned by this writer". It takes
  a program with write access to the parent that hits a random name in a short window.
  `OthersAreSpared` excepts this case and shows that it is the only one.
* `synthetic_package_c_harness.md:424` says that after a lost response "accepted-receipt
  reuse returns the committed result". `assess_evidence` has `CURRENT` among its inputs
  (through its retrieval ledger), so a repeated call is a new task. Line 425, on control
  events, holds only for `record_pilot_control_event` itself: the elapsed time that is
  part of the event must be equal, too.

Observations on the store and the runtime:

* Recovery repairs `CURRENT` without syncing `state/generations` first; a power loss
  right after it may leave a history with a hole. `HistoryReadable` is checked without
  power losses for that reason. Likewise a number may be used again after a power loss
  for other contents, while a request file still names it: `PromotionsAreFresh` is
  checked without power losses, too. Neither concerns what was acknowledged.
* A run may report a transaction failure or an internal one for a generation that is there. The
  kernel never retries on it; `CoupledAtMostOnce` shows that the caller's retry finds the receipt.
* A lock timeout while verifying a receipt leaves `run()` as an exception without a record.
* The branch of `initialize` that removes generation 0 cannot be reached after recovery.
* No adapter of the repository sets `rebuild_on_stale`.
* In a sandbox the import may run while the last processes of the namespace are being
  killed: bwrap returns its command's exit code without waiting for them, and the group
  count does not see them. The code waits for nothing more, and `ValidProposalsAreFinal`
  promises finality only without a sandbox.
* `check_process_count` in the monitor loop may raise; then nobody signals the engine,
  and the lease and the root are given up while it runs. `LockOutlivesEngine` and
  `NothingLeftBehind` except this case, whose outcome is INTERNAL_RUNTIME_FAILURE.

Observations on the record and the artifacts:

* A parse with an unchanged topic and unchanged documents returns the receipt of its old generation, and a challenge
  must be accepted right above its parse. So any other commit between the two leaves
  discovery no way on with the same inputs.
* Likewise a new draft of the same selection returns the accepted one under the same
  prompt and contract, and a repair batch (`synthetic_package_c_harness.md:373`) needs a
  new fingerprint; the test of repairs
  (`test_package_c_draft_transitions.py:867-970`) patches it.
* A rendered section lists the propositions it was rendered from, and the audit of a sentence
  wants exactly those; so a sentence that cites one of two can never be audited, and line
  249 of the same document asks that every item is.
* `Decidable` looks at a source alone, not at the claim: a source is evidence for one
  claim at most, and a duplicate for every other (`SourcesSpeakOnce`).
* An assessment closes a claim's aggregates. A claim that was assessed too early can be
  assessed again, but never on more evidence.
* If all candidates of a pilot are decided as redundant, no claim gets an aggregate, and
  the run cannot be closed. Two equal items of one draft cannot both be audited, and
  leave the draft open.

Observations on the pilot and the packets:

* Of two controllers that both call an engine, the one that commits second leaves attempts
  that no event names, and these stop the run for good (`StrayCallsStopTheRun`
  shows that at most one more event follows).
* A refusal before the engine runs leaves a task without attempts, and the failure event
  then asks for the last attempt of an empty list.
* `record_pilot_control_event` raises after it has committed if `CURRENT` moves before its
  final check.
* A packet that another writer found equal and answered for can still be withdrawn by its
  own publisher, when `CURRENT` moves before that one's last check
  (`PublishedPacketsStay` is about the publisher's answer). The rename publishes whatever the
  staging name stands for at that moment, and the check after it is what refuses others' directories.

## 7. What is not modelled

`PROJECT.json` lists every component with its status. In short: `enable_receipts = False`
(a debugging switch; coupled tasks refuse it), the records written along the way,
path-safety checks, rules about a single object, themes and citations, what texts say,
identifier allocation, page locators, contents of prompts and messages, stream capture and
redaction, launcher limits, probing of the sandbox, byte and time budgets of the pilot and
its registration, validation and reproduction reports, the reading of git repositories and
bibliographies, prompt projects, and command-line front ends. Processes that leave their
process group outside a sandbox are not modelled: the code does not see them. A
qualification check is one step. A retrieval promotion that recognises its own earlier
commit (`retrieval_promotion.py:657`) is a stutter of `ReviewRecord`; the reuse itself is
not modelled.

## 8. Plan

Each module is written without RECURSIVE operators, with its parameters as CONSTANTS and
one action per operation, so that it can be proved about. Done: the store with its
refinement, the runtime on the abstract store, the execution with leases and gates, the
record, the pilot on top of it, the artifact chain and the packets, with the theorems of
section 4. Next, in this order:

1. `RetrievalPromotion`: reuse of an exact winner after a stale commit, on the store with
   power losses, where the number of a generation may be used again.
2. `AdvisoryLock`: thread lock, `flock`, identity check of the lock file; an abstract
   mutex with timeout as its specification (exclusion, and that waits end).
3. `TaskWorkspace`: allocation of task numbers with failing `create()`, and the copy of a
   file that is written meanwhile.
4. An abstract ledger of accepted tasks, refined by `ProjectRuntime`, that the artifact
   chain and the pilot can build on; with it the proof of that refinement, and theorems
   about the modules above.
