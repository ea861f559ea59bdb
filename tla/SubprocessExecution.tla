--------------------------- MODULE SubprocessExecution ---------------------------
(***************************************************************************)
(* runtime/execution.py: SubprocessEngine.execute(), one call per attempt. *)
(* It prepares an execution root, leases a credential, launches an engine  *)
(* in a process group of its own, watches it until it exits or has to be   *)
(* killed, empties the group, imports the proposal and removes everything. *)
(*                                                                         *)
(* A live attempt runs under bubblewrap with a leased credential and two   *)
(* qualification checks; any other runs in the temporary workspace alone.  *)
(* The engine (and what it forks) acts at any time while it is alive.      *)
(***************************************************************************)
EXTENDS Integers, FiniteSets

CONSTANTS
    Attempt,           \* calls of execute()
    Live,              \* those of a live engine; they share a token vault
    Nobody,            \* the vault lock's holder when it is free
    Text, NoText,      \* proposals that the engine may write
    ExitCode,          \* ways of the engine's first process to end
    Damage,            \* what else an engine does: see Damages
    Executable,        \* versions of the sandbox executable
    NoExecutable,
    Qualified,         \* those with a stored qualification
    MaxProcesses,      \* policy.max_processes
    MaxMembers,        \* bound: processes an engine forks, alive at a time
    MaxLostCounts,     \* bound: reads of /proc that fail
    MaxReplacements    \* bound: replacements of the executable

ExitCodes == {"zero", "nonzero", "signal", "limit", "launcher", "adapter"}
Damages == {"quota", "bundle", "output"}

ASSUME AttemptsAssumption ==
    /\ Live \subseteq Attempt /\ Nobody \notin Attempt
    /\ NoText \notin Text /\ NoExecutable \notin Executable
    /\ Qualified \subseteq Executable /\ Executable # {}
    /\ {"zero", "signal"} \subseteq ExitCode /\ ExitCode \subseteq ExitCodes
    /\ Damage \subseteq Damages
ASSUME LimitsAssumption ==
    /\ MaxProcesses \in Nat \ {0} /\ MaxMembers \in Nat
    /\ MaxLostCounts \in Nat /\ MaxReplacements \in Nat

VARIABLES
    pc,                \* where each execute() is
    engine,            \* the process group and what it did to the root
    session,           \* execution root, staged credential, sandbox evidence
    watch,             \* what the supervisor knows of the process
    report,            \* primary outcome and imported proposal
    lock,              \* holder of the vault lock
    installed,         \* the executable at bwrap_path
    lost, replaced

vars == <<pc, engine, session, watch, report, lock, installed, lost, replaced>>
bounds == <<lost, replaced>>

Lost == -1             \* a count that could not be taken
NoExit == "none"

NoEngine == [leader |-> "none", members |-> 0, doomed |-> FALSE,
             file |-> "missing", damage |-> {}]
NoSession == [root |-> FALSE, staged |-> FALSE,
              pinned |-> NoExecutable, evidence |-> NoExecutable]
Unwatched == [launchError |-> FALSE, timedOut |-> FALSE, killed |-> FALSE,
              breached |-> FALSE, exit |-> NoExit, quiescent |-> TRUE,
              detected |-> 0, remaining |-> 0,
              bundleModified |-> FALSE, outputMoved |-> FALSE]
NoReport == [outcome |-> "none", proposal |-> NoText]

Init ==
    /\ pc = [a \in Attempt |-> "idle"]
    /\ engine = [a \in Attempt |-> NoEngine]
    /\ session = [a \in Attempt |-> NoSession]
    /\ watch = [a \in Attempt |-> Unwatched]
    /\ report = [a \in Attempt |-> NoReport]
    /\ lock = Nobody
    /\ installed \in Executable
    /\ lost = 0
    /\ replaced = 0

(***************************************************************************)
(* Helpers                                                                 *)
(***************************************************************************)
Goto(a, from, to) ==
    /\ pc[a] = from
    /\ pc' = [pc EXCEPT ![a] = to]

\* _internal_failure_report: whatever was imported is withheld.
Internal(a) ==
    report' = [report EXCEPT ![a] = [outcome |-> "internal", proposal |-> NoText]]

Unlock(a) == lock' = IF lock = a THEN Nobody ELSE lock

LeaderRuns(a) == engine[a].leader = "running"
Alive(a) == LeaderRuns(a) \/ engine[a].members > 0

\* count_process_group_members without the leader.  bwrap --new-session takes
\* a live engine out of the group.
Counted(a) == IF a \in Live THEN 0 ELSE engine[a].members

\* os.killpg(SIGKILL); a sandboxed engine dies with its bwrap parent.
Killed(a) == engine' = [engine EXCEPT ![a].doomed = TRUE]

\* scan_writable_roots: too many entries or bytes, a file too large, too deep.
QuotaExceeded(a) == "quota" \in engine[a].damage

\* _verify_execution_bundle: a file of bundle/ is gone, new, changed or special.
BundleChanged(a) == "bundle" \in engine[a].damage

\* verify_output_directory_identity: output/ is gone or is another directory.
OutputMoved(a) == "output" \in engine[a].damage

CountMayFail == lost < MaxLostCounts
CountFails == CountMayFail /\ lost' = lost + 1

(***************************************************************************)
(* Before the launch                                                       *)
(***************************************************************************)
\* The bubblewrap backend opens and hashes its executable.
PinnedExecutable(a) == IF a \in Live THEN installed ELSE NoExecutable

\* backend.prepare: a root with a copy of the task's bundle, the launcher's
\* files and an output/ directory whose descriptor is kept.
Prepare(a) ==
    /\ Goto(a, "idle", "qualify")
    /\ session' = [session EXCEPT ![a].root = TRUE,
                                  ![a].pinned = PinnedExecutable(a)]
    /\ UNCHANGED <<engine, watch, report, lock, installed, bounds>>

\* A failed preparation removes its root, or else reports (live) or raises.
PrepareFails(a) ==
    /\ Goto(a, "idle", "returned")
    /\ \E outcome \in {"internal", "execution", "raised"}, left \in BOOLEAN :
          /\ a \in Live => outcome = "internal"
          /\ left /\ a \notin Live => outcome = "raised"
          /\ session' = [session EXCEPT ![a].root = left]
          /\ report' = [report EXCEPT ![a].outcome = outcome]
    /\ UNCHANGED <<engine, watch, lock, installed, bounds>>

\* The gate of PRE_CREDENTIALS and PRE_LAUNCH: the executable at bwrap_path has
\* a matching qualification on this machine.
GatePasses(a) == a \in Live => installed \in Qualified

\* compile_request and the first gate.
Qualify(a) ==
    /\ Goto(a, "qualify", "lease")
    /\ GatePasses(a)
    /\ UNCHANGED <<engine, session, watch, report, lock, installed, bounds>>

QualifyFails(a) ==
    /\ Goto(a, "qualify", "cleanup")
    /\ Internal(a)
    /\ UNCHANGED <<engine, session, watch, lock, installed, bounds>>

\* Faulty: the lock is not waited for.
TakeLeaseAnyway(a) ==
    /\ Goto(a, "lease", "stage")
    /\ lock' = IF a \in Live THEN a ELSE lock
    /\ UNCHANGED <<engine, session, watch, report, installed, bounds>>

\* lease.__enter__: the vault lock first ...
TakeLease(a) ==
    /\ Goto(a, "lease", "stage")
    /\ a \in Live => lock = Nobody
    /\ lock' = IF a \in Live THEN a ELSE lock
    /\ UNCHANGED <<engine, session, watch, report, installed, bounds>>

\* prepare_for_session fails, or the wait for the lock times out.
LeaseFails(a) ==
    /\ Goto(a, "lease", "cleanup")
    /\ Internal(a)
    /\ UNCHANGED <<engine, session, watch, lock, installed, bounds>>

\* ... then the token is read and written to credentials/.
Stage(a) ==
    /\ Goto(a, "stage", "check")
    /\ session' = [session EXCEPT ![a].staged = a \in Live]
    /\ UNCHANGED <<engine, watch, report, lock, installed, bounds>>

\* __enter__ fails: it removes the file (if it can) and releases the lock.
StageFails(a) ==
    /\ Goto(a, "stage", "cleanup")
    /\ a \in Live
    /\ \E left \in BOOLEAN : session' = [session EXCEPT ![a].staged = left]
    /\ Unlock(a)
    /\ Internal(a)
    /\ UNCHANGED <<engine, watch, installed, bounds>>

\* _run: the second gate is the last step before Popen.
CheckLaunch(a) ==
    /\ Goto(a, "check", "spawn")
    /\ GatePasses(a)
    /\ session' = [session EXCEPT ![a].evidence =
                       IF a \in Live THEN installed ELSE NoExecutable]
    /\ UNCHANGED <<engine, watch, report, lock, installed, bounds>>

\* wrap_command: the qualified executable is the pinned one.
EvidenceMatches(a) == session[a].evidence = session[a].pinned

\* The gate or wrap_command refuses, or something else raises before Popen.
LaunchRefused(a) ==
    /\ pc[a] \in {"check", "spawn"}
    /\ pc' = [pc EXCEPT ![a] = "release"]
    /\ Internal(a)
    /\ UNCHANGED <<engine, session, watch, lock, installed, bounds>>

\* Faulty: what the gate saw is not compared with what is launched.
SpawnUnpinned(a) ==
    /\ Goto(a, "spawn", "wait")
    /\ engine' = [engine EXCEPT ![a].leader = "running"]
    /\ UNCHANGED <<session, watch, report, lock, installed, bounds>>

Spawn(a) ==
    /\ Goto(a, "spawn", "wait")
    /\ EvidenceMatches(a)
    /\ engine' = [engine EXCEPT ![a].leader = "running"]
    /\ UNCHANGED <<session, watch, report, lock, installed, bounds>>

SpawnFails(a) ==
    /\ Goto(a, "spawn", "inspect")
    /\ EvidenceMatches(a)
    /\ watch' = [watch EXCEPT ![a].launchError = TRUE]
    /\ UNCHANGED <<engine, session, report, lock, installed, bounds>>

(***************************************************************************)
(* The monitor loop                                                        *)
(***************************************************************************)
\* process.wait() returns; at the deadline, process.poll().
Exited(a) ==
    /\ pc[a] \in {"wait", "grace", "reap"}
    /\ ~LeaderRuns(a)
    /\ pc' = [pc EXCEPT ![a] = "quiesce"]
    /\ watch' = [watch EXCEPT ![a].exit = engine[a].leader]
    /\ UNCHANGED <<engine, session, report, lock, installed, bounds>>

\* The deadline: _terminate_with_grace sends SIGTERM, which may be ignored ...
Timeout(a) ==
    /\ Goto(a, "wait", "grace")
    /\ LeaderRuns(a)
    /\ watch' = [watch EXCEPT ![a].timedOut = TRUE]
    /\ UNCHANGED <<engine, session, report, lock, installed, bounds>>

\* Faulty: it waits for the process without killing it.
GraceOverWaits(a) ==
    /\ Goto(a, "grace", "reap")
    /\ LeaderRuns(a)
    /\ UNCHANGED <<engine, session, watch, report, lock, installed, bounds>>

\* ... and SIGKILL after the grace window.
GraceOver(a) ==
    /\ Goto(a, "grace", "reap")
    /\ LeaderRuns(a)
    /\ Killed(a)
    /\ UNCHANGED <<session, watch, report, lock, installed, bounds>>

\* Between two waits: too many processes (the leader counts, as a zombie, too)
\* or a quota of the writable tree.
OverLimit(a) ==
    \/ Counted(a) + 1 > MaxProcesses
    \/ QuotaExceeded(a)

Breach(a) ==
    /\ Goto(a, "wait", "reap")
    /\ OverLimit(a)
    /\ watch' = [watch EXCEPT ![a].breached = TRUE, ![a].killed = TRUE]
    /\ Killed(a)
    /\ UNCHANGED <<session, report, lock, installed, bounds>>

\* check_process_count raises, and nobody kills the engine.
MonitorFails(a) ==
    /\ Goto(a, "wait", "release")
    /\ CountFails
    /\ Internal(a)
    /\ UNCHANGED <<engine, session, watch, lock, installed, replaced>>

(***************************************************************************)
(* quiesce(): the rest of the process group, after the leader was reaped   *)
(***************************************************************************)
\* Faulty: what is left of the group is taken for nothing.
GroupFoundIgnored(a) ==
    /\ Goto(a, "quiesce", "inspect")
    /\ Counted(a) > 0
    /\ UNCHANGED <<engine, session, watch, report, lock, installed, bounds>>

\* SIGTERM to the group.
GroupFound(a) ==
    /\ Goto(a, "quiesce", "term")
    /\ Counted(a) > 0
    /\ watch' = [watch EXCEPT ![a].detected = Counted(a)]
    /\ UNCHANGED <<engine, session, report, lock, installed, bounds>>

GroupUnknown(a) ==
    /\ Goto(a, "quiesce", "inspect")
    /\ CountFails
    /\ watch' = [watch EXCEPT ![a].quiescent = FALSE, ![a].detected = Lost,
                              ![a].remaining = Lost]
    /\ UNCHANGED <<engine, session, report, lock, installed, replaced>>

\* The grace window is over, or a count failed: SIGKILL.
KillGroup(a) ==
    /\ Goto(a, "term", "kill")
    /\ Counted(a) > 0
    /\ Killed(a)
    /\ UNCHANGED <<session, watch, report, lock, installed, bounds>>

GroupEmpty(a) ==
    /\ pc[a] \in {"quiesce", "term", "kill"}
    /\ Counted(a) = 0
    /\ pc' = [pc EXCEPT ![a] = "inspect"]
    /\ UNCHANGED <<engine, session, watch, report, lock, installed, bounds>>

\* A second after SIGKILL somebody is still there, or a count failed.
GroupRemains(a) ==
    /\ Goto(a, "kill", "inspect")
    /\ \/ /\ Counted(a) > 0
          /\ watch' = [watch EXCEPT ![a].quiescent = FALSE,
                                    ![a].remaining = Counted(a)]
          /\ UNCHANGED lost
       \/ /\ CountFails
          /\ watch' = [watch EXCEPT ![a].quiescent = FALSE,
                                    ![a].remaining = Lost]
    /\ UNCHANGED <<engine, session, report, lock, installed, replaced>>

(***************************************************************************)
(* Classification and import                                               *)
(***************************************************************************)
QuiescenceFailed(w) == ~w.quiescent /\ (w.detected = Lost \/ w.remaining > 0)
Normal(w) == ~w.timedOut /\ ~w.killed /\ ~w.launchError
Survived(w) == w.exit = "zero" /\ Normal(w) /\ w.detected > 0

MayImport(w) ==
    /\ ~w.outputMoved
    /\ ~QuiescenceFailed(w) /\ ~Survived(w) /\ w.exit # "launcher"

\* The final quota scan, the identity of output/ and the bundle's hashes.
Inspect(a) ==
    LET w == [watch[a] EXCEPT
            !.bundleModified = BundleChanged(a),
            !.outputMoved = OutputMoved(a),
            !.breached = @ \/ (watch[a].exit = "limit" /\ Normal(watch[a]))
                           \/ (~watch[a].launchError /\ QuotaExceeded(a))]
    IN /\ Goto(a, "inspect", IF MayImport(w) THEN "import" ELSE "withhold")
       /\ watch' = [watch EXCEPT ![a] = w]
       /\ UNCHANGED <<engine, session, report, lock, installed, bounds>>

\* primary_attempt_outcome, and before it the failures on our side; file is
\* what import_proposal found.
PrimaryOutcome(w, file) ==
    CASE QuiescenceFailed(w) \/ w.exit \in {"launcher", "adapter"} -> "internal"
      [] OTHER ->
    CASE w.breached -> "resource"
      [] OTHER ->
    CASE w.launchError \/ w.timedOut \/ w.exit # "zero" \/ Survived(w) -> "execution"
      [] OTHER ->
    CASE w.bundleModified -> "integrity"
      [] OTHER ->
    CASE w.outputMoved \/ file = "unsafe" -> "output"
      [] OTHER ->
    CASE file \in {"missing", "malformed"} -> "format"
      [] OTHER -> "valid"

Conclude(a, file) ==
    LET outcome == PrimaryOutcome(watch[a], file)
    IN report' = [report EXCEPT ![a] =
           [outcome |-> outcome,
            proposal |-> IF outcome = "valid" THEN file ELSE NoText]]

\* scan_output_tree and import_proposal.
Import(a) ==
    /\ Goto(a, "import", "release")
    /\ Conclude(a, engine[a].file)
    /\ UNCHANGED <<engine, session, watch, lock, installed, bounds>>

Withhold(a) ==
    /\ Goto(a, "withhold", "release")
    /\ Conclude(a, "missing")
    /\ UNCHANGED <<engine, session, watch, lock, installed, bounds>>

\* Any of these steps, or the inventory after them, raises.
InspectFails(a) ==
    /\ pc[a] \in {"inspect", "import", "withhold"}
    /\ pc' = [pc EXCEPT ![a] = "release"]
    /\ Internal(a)
    /\ UNCHANGED <<engine, session, watch, lock, installed, bounds>>

(***************************************************************************)
(* Afterwards                                                              *)
(***************************************************************************)
\* lease.__exit__: the credential is removed and the lock released.
Release(a) ==
    /\ Goto(a, "release", "cleanup")
    /\ session' = [session EXCEPT ![a].staged = FALSE]
    /\ Unlock(a)
    /\ UNCHANGED <<engine, watch, report, installed, bounds>>

\* A file cannot be removed, or the lock not released cleanly.
ReleaseFails(a) ==
    /\ Goto(a, "release", "cleanup")
    /\ a \in Live
    /\ Unlock(a)
    /\ Internal(a)
    /\ UNCHANGED <<engine, session, watch, installed, bounds>>

\* session.cleanup: the execution root, with all that is in it.
Cleanup(a) ==
    /\ Goto(a, "cleanup", "returned")
    /\ session' = [session EXCEPT ![a].root = FALSE, ![a].staged = FALSE]
    /\ UNCHANGED <<engine, watch, report, lock, installed, bounds>>

\* Faulty: the report stays as it was.
CleanupFailsQuietly(a) ==
    /\ Goto(a, "cleanup", "returned")
    /\ UNCHANGED <<engine, session, watch, report, lock, installed, bounds>>

CleanupFails(a) ==
    /\ Goto(a, "cleanup", "returned")
    /\ Internal(a)
    /\ UNCHANGED <<engine, session, watch, lock, installed, bounds>>

\* The supervisor's process dies: the lock goes with it, and so does a
\* sandbox; all else stays.
SupervisorDies(a) ==
    /\ pc[a] \notin {"idle", "returned", "dead"}
    /\ pc' = [pc EXCEPT ![a] = "dead"]
    /\ Unlock(a)
    /\ engine' = [engine EXCEPT ![a].doomed = @ \/ a \in Live]
    /\ UNCHANGED <<session, watch, report, installed, bounds>>

\* KeyboardInterrupt and the like leave execute() through the lease's exit.
Interrupted(a) ==
    /\ pc[a] \in {"wait", "grace", "reap", "quiesce", "term", "kill", "inspect",
                  "import", "withhold"}
    /\ pc' = [pc EXCEPT ![a] = "dead"]
    /\ session' = [session EXCEPT ![a].staged = FALSE]
    /\ Unlock(a)
    /\ UNCHANGED <<engine, watch, report, installed, bounds>>

(***************************************************************************)
(* The engine and the machine                                              *)
(***************************************************************************)
Files == {"missing", "malformed", "unsafe"} \cup Text

EngineStep(a, e) ==
    /\ Alive(a)
    /\ engine' = [engine EXCEPT ![a] = e]
    /\ UNCHANGED <<pc, session, watch, report, lock, installed, bounds>>

Fork(a) ==
    /\ ~engine[a].doomed /\ engine[a].members < MaxMembers
    /\ EngineStep(a, [engine[a] EXCEPT !.members = @ + 1])

MemberExits(a) ==
    /\ engine[a].members > 0
    /\ EngineStep(a, [engine[a] EXCEPT !.members = @ - 1])

\* A bwrap returns its command's exit code as soon as that command is gone, and
\* the rest of its namespace is killed with it (--die-with-parent); until they
\* are gone these processes, which no count sees, may still act.
LeaderExits(a) ==
    /\ LeaderRuns(a)
    /\ \E code \in ExitCode :
          /\ engine[a].doomed => code = "signal"
          /\ EngineStep(a, [engine[a] EXCEPT !.leader = code,
                                             !.doomed = @ \/ a \in Live])

WriteProposal(a) ==
    \E file \in Files : EngineStep(a, [engine[a] EXCEPT !.file = file])

DoDamage(a) ==
    \E d \in Damage : EngineStep(a, [engine[a] EXCEPT !.damage = @ \cup {d}])

ReplaceExecutable ==
    /\ replaced < MaxReplacements
    /\ replaced' = replaced + 1
    /\ installed' \in Executable \ {installed}
    /\ UNCHANGED <<pc, engine, session, watch, report, lock, lost>>

(***************************************************************************)
(* The specification                                                       *)
(***************************************************************************)
BeforeLaunch(a) ==
    \/ Prepare(a) \/ PrepareFails(a) \/ Qualify(a) \/ QualifyFails(a)
    \/ TakeLease(a) \/ LeaseFails(a) \/ Stage(a) \/ StageFails(a)
    \/ CheckLaunch(a) \/ LaunchRefused(a) \/ Spawn(a) \/ SpawnFails(a)

Monitor(a) ==
    \/ Exited(a) \/ Timeout(a) \/ GraceOver(a) \/ Breach(a) \/ MonitorFails(a)

Quiesce(a) ==
    \/ GroupFound(a) \/ GroupUnknown(a) \/ KillGroup(a) \/ GroupEmpty(a)
    \/ GroupRemains(a)

Afterwards(a) ==
    \/ Inspect(a) \/ Import(a) \/ Withhold(a) \/ InspectFails(a)
    \/ Release(a) \/ ReleaseFails(a) \/ Cleanup(a) \/ CleanupFails(a)

Supervise(a) == BeforeLaunch(a) \/ Monitor(a) \/ Quiesce(a) \/ Afterwards(a)

Engine(a) ==
    Fork(a) \/ MemberExits(a) \/ LeaderExits(a) \/ WriteProposal(a) \/ DoDamage(a)

Next ==
    \/ \E a \in Attempt :
          Supervise(a) \/ SupervisorDies(a) \/ Interrupted(a) \/ Engine(a)
    \/ ReplaceExecutable

\* What SIGKILL was sent to dies.
Dies(a) == engine[a].doomed /\ (MemberExits(a) \/ LeaderExits(a))

\* execute() is one thread, and every wait in it has a timeout but the last
\* one, for a killed process.  Nothing is assumed of an engine.
Fairness == \A a \in Attempt : WF_vars(Supervise(a)) /\ WF_vars(Dies(a))

Spec == Init /\ [][Next]_vars
FairSpec == Spec /\ Fairness

(***************************************************************************)
(* Properties                                                              *)
(***************************************************************************)
\* A proposal that execute() hands to the kernel comes from an engine that
\* exited with 0, and nobody of it is left but what was sent SIGKILL.  Outside a
\* sandbox it is final: the exit was unforced, nobody at all is alive to change
\* a file, nothing was exceeded or tampered with, and the proposal is what the
\* file says.  (In a sandbox the killed may outlive the import for a moment.)
ValidProposalsAreFinal ==
    \A a \in Attempt :
        report[a].outcome = "valid" =>
            /\ engine[a].leader = "zero"
            /\ Alive(a) => engine[a].doomed
            /\ a \notin Live =>
                   /\ ~engine[a].doomed /\ ~Alive(a)
                   /\ engine[a].damage = {}
                   /\ report[a].proposal = engine[a].file

\* What execute() returns leaves nothing: no credential, no execution root and
\* no process of the engine's group, unless it says INTERNAL_RUNTIME_FAILURE
\* (or raises).  The one exception is a process table that could not be read
\* after SIGKILL.  The vault lock is released in any case.
NothingLeftBehind ==
    \A a \in Attempt :
        pc[a] = "returned" =>
            /\ lock # a
            /\ report[a].outcome \notin {"internal", "raised"} =>
                   /\ ~session[a].root /\ ~session[a].staged
                   /\ watch[a].remaining # Lost => ~LeaderRuns(a) /\ Counted(a) = 0

\* "holds a sibling advisory lock while the attempt is active": an engine that
\* has the token, and was not killed, runs only while its attempt has the lock.
\* (Not if the monitor failed or was interrupted: then nobody kills it.)
LockOutlivesEngine ==
    \A a \in Live :
        /\ Alive(a) /\ ~engine[a].doomed
        /\ pc[a] # "dead" /\ report[a].outcome # "internal"
        => lock = a

\* No live engine is ever launched with a sandbox executable that was not
\* qualified, however the file at bwrap_path is replaced between pinning, the
\* two checks and the launch.
LiveLaunchIsQualified ==
    \A a \in Live : engine[a].leader # "none" => session[a].pinned \in Qualified

\* Every attempt ends, whatever its engine does.
EveryAttemptReturns ==
    \A a \in Attempt : pc[a] \notin {"idle", "dead"} ~> pc[a] \in {"returned", "dead"}
================================================================================
