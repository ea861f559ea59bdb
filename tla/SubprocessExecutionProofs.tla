----------------------- MODULE SubprocessExecutionProofs -----------------------
(* Theorems about SubprocessExecution, for every number of attempts, of       *)
(* processes that an engine forks, of failed reads of /proc and of            *)
(* replacements of the sandbox executable.                                    *)
EXTENDS SubprocessExecution, TLAPS

EngineRecord == [leader : {"none", "running"} \cup ExitCode, members : Nat,
                 doomed : BOOLEAN, file : Files, damage : SUBSET Damage]
SessionRecord == [root : BOOLEAN, staged : BOOLEAN,
                  pinned : Executable \cup {NoExecutable},
                  evidence : Executable \cup {NoExecutable}]
WatchRecord == [launchError : BOOLEAN, timedOut : BOOLEAN, killed : BOOLEAN,
                breached : BOOLEAN, exit : {NoExit, "running"} \cup ExitCode,
                quiescent : BOOLEAN, detected : Int, remaining : Int,
                bundleModified : BOOLEAN, outputMoved : BOOLEAN]
Outcome == {"none", "internal", "raised", "execution", "resource", "integrity", "output",
            "format", "valid"}
ReportRecord == [outcome : Outcome, proposal : Files \cup {NoText}]

\* The places of execute().
Early == {"idle", "qualify", "lease", "stage", "check", "spawn"}
Monitoring == {"wait", "grace", "reap"}
Quiescing == {"quiesce", "term", "kill"}
Inspecting == {"inspect", "import", "withhold"}
Late == {"release", "cleanup", "returned"}
Leasing == {"stage", "check", "spawn", "release"} \cup Monitoring \cup Quiescing \cup Inspecting
Place == Early \cup Monitoring \cup Quiescing \cup Inspecting \cup Late \cup {"dead"}

Typed(a) ==
    /\ pc[a] \in Place
    /\ engine[a] \in EngineRecord
    /\ session[a] \in SessionRecord
    /\ watch[a] \in WatchRecord
    /\ report[a] \in ReportRecord

Domains ==
    /\ DOMAIN pc = Attempt /\ DOMAIN engine = Attempt /\ DOMAIN session = Attempt
    /\ DOMAIN watch = Attempt /\ DOMAIN report = Attempt

Shaped == Domains /\ \A a \in Attempt : Typed(a)

\* An engine that was not started has no processes; a sandbox ends as a whole.
EngineOK(a) ==
    /\ engine[a].leader = "none" => engine[a].members = 0
    /\ a \in Live /\ engine[a].leader \notin {"none", "running"} => engine[a].doomed
    /\ a \notin Live /\ engine[a].doomed =>
           watch[a].timedOut \/ watch[a].breached \/ watch[a].detected > 0
    /\ watch[a].killed => watch[a].breached

\* Only an attempt that is between the two ends of its lease has the lock.
LeaseOK(a) ==
    /\ lock = a => a \in Live /\ pc[a] \in Leasing
    /\ a \in Live /\ pc[a] \in Leasing => lock = a

\* What is launched is what the second gate saw.
GateOK(a) ==
    a \in Live =>
        /\ pc[a] = "spawn" => session[a].evidence \in Qualified
        /\ engine[a].leader # "none" => session[a].pinned \in Qualified

\* An engine without a sandbox exited by itself and nothing was found of its
\* group.
Unforced(a) == a \notin Live /\ watch[a].exit = "zero" /\ watch[a].detected = 0

\* What the supervisor knows of the engine, place by place.
WatchOK(a) ==
    /\ pc[a] \in Early =>
           engine[a].leader = "none" /\ watch[a] = Unwatched /\ report[a].outcome = "none"
    /\ pc[a] \in Monitoring \cup Quiescing \cup Inspecting => report[a].outcome = "none"
    /\ pc[a] \in Monitoring =>
           /\ engine[a].leader # "none" /\ ~watch[a].launchError
           /\ watch[a].detected = 0 /\ watch[a].remaining = 0
           /\ pc[a] = "grace" => watch[a].timedOut
    /\ pc[a] \in Quiescing =>
           /\ engine[a].leader \notin {"none", "running"} /\ ~watch[a].launchError
           /\ watch[a].exit = engine[a].leader /\ watch[a].remaining = 0
           /\ pc[a] = "quiesce" => watch[a].detected = 0
           /\ pc[a] \in {"term", "kill"} => watch[a].detected > 0
    /\ pc[a] \in Inspecting =>
           /\ ~LeaderRuns(a)
           /\ watch[a].launchError \/ watch[a].exit = engine[a].leader
           /\ watch[a].detected = Lost => watch[a].remaining = Lost /\ ~watch[a].quiescent
           /\ watch[a].remaining > 0 => ~watch[a].quiescent
           /\ watch[a].remaining <= 0 /\ watch[a].remaining # Lost => Counted(a) = 0
           /\ watch[a].detected >= 0 \/ watch[a].detected = Lost
           /\ Unforced(a) => ~Alive(a)
           /\ pc[a] # "inspect" /\ Unforced(a) /\ ~watch[a].launchError =>
                  /\ watch[a].bundleModified <=> "bundle" \in engine[a].damage
                  /\ watch[a].outputMoved <=> "output" \in engine[a].damage
                  /\ "quota" \in engine[a].damage => watch[a].breached

\* What a report says stays true while everything is given back.
ReportOK(a) ==
    /\ report[a].outcome = "valid" =>
           /\ engine[a].leader = "zero"
           /\ a \notin Live =>
                  /\ ~engine[a].doomed /\ ~Alive(a) /\ engine[a].damage = {}
                  /\ report[a].proposal = engine[a].file
    /\ pc[a] \in Late /\ report[a].outcome \notin {"internal", "raised"} =>
           /\ ~LeaderRuns(a)
           /\ watch[a].remaining # Lost => Counted(a) = 0
    /\ pc[a] = "idle" => ~session[a].staged
    /\ pc[a] \in {"release", "cleanup"} => report[a].outcome # "raised"
    /\ pc[a] = "returned" /\ report[a].outcome \notin {"internal", "raised"} =>
           ~session[a].root /\ ~session[a].staged
    /\ report[a].outcome = "raised" => engine[a].leader = "none"

AttemptOK(a) == EngineOK(a) /\ LeaseOK(a) /\ GateOK(a) /\ WatchOK(a) /\ ReportOK(a)

IInv ==
    /\ Shaped
    /\ lock \in Attempt \cup {Nobody} /\ installed \in Executable
    /\ \A a \in Attempt : AttemptOK(a)

-------------------------------------------------------------------------------
(* Attempts share nothing but the lock                                       *)

\* A step of an attempt leaves the others alone, and takes or gives back the
\* lock for itself.
Own(a) ==
    /\ Domains'
    /\ \A b \in Attempt \ {a} :
           /\ pc'[b] = pc[b] /\ engine'[b] = engine[b] /\ session'[b] = session[b]
           /\ watch'[b] = watch[b] /\ report'[b] = report[b]
    /\ lock' = lock \/ (lock = Nobody /\ lock' = a) \/ (lock = a /\ lock' = Nobody)
    /\ installed' = installed

LEMMA OthersRest ==
    ASSUME IInv, NEW a \in Attempt, Own(a), Typed(a)', AttemptOK(a)'
    PROVE  IInv'
<1>1. ASSUME NEW b \in Attempt \ {a}
      PROVE  Typed(b)' /\ AttemptOK(b)'
  <2>1. /\ pc'[b] = pc[b] /\ engine'[b] = engine[b] /\ session'[b] = session[b]
        /\ watch'[b] = watch[b] /\ report'[b] = report[b]
        /\ Typed(b) /\ AttemptOK(b)
    BY <1>1 DEF Own, IInv, Shaped
  <2>2. lock' = b <=> lock = b
    BY <1>1, AttemptsAssumption DEF Own
  <2>3. Typed(b)'
    BY <2>1 DEF Typed
  <2>4. EngineOK(b)' /\ GateOK(b)'
    BY <2>1 DEF AttemptOK, EngineOK, GateOK
  <2>5. LeaseOK(b)'
    BY <2>1, <2>2 DEF AttemptOK, LeaseOK
  <2>6. WatchOK(b)'
    BY <2>1 DEF AttemptOK, WatchOK, LeaderRuns, Counted, Unforced, Alive
  <2>7. ReportOK(b)'
    BY <2>1 DEF AttemptOK, ReportOK, LeaderRuns, Counted, Alive
  <2> QED
    BY <2>3, <2>4, <2>5, <2>6, <2>7 DEF AttemptOK
<1>2. Shaped'
  BY <1>1 DEF Own, Shaped
<1>3. lock' \in Attempt \cup {Nobody} /\ installed' \in Executable
  BY DEF IInv, Own
<1> QED
  BY <1>1, <1>2, <1>3 DEF IInv

LEMMA InitOK == Init => IInv
<1> SUFFICES ASSUME Init PROVE IInv
  OBVIOUS
<1>1. /\ DOMAIN pc = Attempt /\ DOMAIN engine = Attempt /\ DOMAIN session = Attempt
      /\ DOMAIN watch = Attempt /\ DOMAIN report = Attempt
      /\ lock = Nobody /\ installed \in Executable
  BY DEF Init
<1>2. ASSUME NEW a \in Attempt
      PROVE  Typed(a) /\ AttemptOK(a)
  <2>1. /\ pc[a] = "idle" /\ engine[a] = NoEngine /\ session[a] = NoSession
        /\ watch[a] = Unwatched /\ report[a] = NoReport /\ lock # a
    BY <1>2, AttemptsAssumption DEF Init
  <2>2. Typed(a)
    BY <2>1 DEF Typed, Place, Early, NoEngine, EngineRecord, Files, NoSession,
       SessionRecord, Unwatched, WatchRecord, NoExit, NoReport, ReportRecord, Outcome
  <2>3. EngineOK(a) /\ LeaseOK(a) /\ GateOK(a)
    BY <2>1 DEF EngineOK, LeaseOK, GateOK, NoEngine, Unwatched, Leasing, Monitoring,
       Quiescing,
       Inspecting
  <2>4. WatchOK(a) /\ ReportOK(a)
    BY <2>1 DEF WatchOK, ReportOK, NoEngine, NoSession, NoReport, Early, Monitoring,
       Quiescing, Inspecting, Late
  <2> QED
    BY <2>2, <2>3, <2>4 DEF AttemptOK
<1> QED
  BY <1>1, <1>2 DEF IInv, Shaped, Domains

-------------------------------------------------------------------------------
(* The supervisor                                                            *)

\* No step before the launch starts an engine that the gates did not pass.
LEMMA BeforeLaunchSteps ==
    ASSUME IInv, NEW a \in Attempt, BeforeLaunch(a)
    PROVE  IInv'
<1>0. Domains /\ Typed(a) /\ installed \in Executable
  BY DEF IInv, Shaped
<1>1. AttemptOK(a)
  BY DEF IInv
<1> USE AttemptsAssumption
    DEF AttemptOK, EngineOK, LeaseOK, GateOK, WatchOK, ReportOK, LeaderRuns, Alive, Counted,
        Unforced, Lost, Early, Monitoring, Quiescing, Inspecting, Late, Leasing
<1>2. CASE Prepare(a)
  <2>1. Own(a)
    BY <1>0, <1>2 DEF Prepare, Goto, Own, Domains, bounds
  <2>2. /\ pc[a] = "idle" /\ pc'[a] = "qualify"
        /\ session'[a] = [session[a] EXCEPT !.root = TRUE, !.pinned = PinnedExecutable(a)]
        /\ UNCHANGED <<engine[a], watch[a], report[a]>>
    BY <1>0, <1>2 DEF Prepare, Goto, Domains
  <2>3. Typed(a)'
    BY <1>0, <2>2 DEF Typed, Place, SessionRecord, PinnedExecutable
  <2>4. AttemptOK(a)'
    BY <1>0, <1>1, <1>2, <2>1, <2>2, <2>3
       DEF Prepare, Own, Typed, EngineRecord, SessionRecord, WatchRecord, ReportRecord
  <2> QED
    BY <2>1, <2>3, <2>4, OthersRest
<1>3. CASE PrepareFails(a)
  <2>1. Own(a)
    BY <1>0, <1>3 DEF PrepareFails, Goto, Own, Domains, bounds
  <2>2. /\ pc[a] = "idle" /\ pc'[a] = "returned"
        /\ \E x \in {"internal", "execution", "raised"}, left \in BOOLEAN :
               /\ left => x # "execution"
               /\ session'[a] = [session[a] EXCEPT !.root = left]
               /\ report'[a] = [report[a] EXCEPT !.outcome = x]
        /\ UNCHANGED <<engine[a], watch[a]>>
    BY <1>0, <1>3 DEF PrepareFails, Goto, Domains
  <2>3. Typed(a)'
    BY <1>0, <2>2 DEF Typed, Place, SessionRecord, ReportRecord, Outcome
  <2>4. AttemptOK(a)'
    BY <1>0, <1>1, <1>3, <2>1, <2>2, <2>3
       DEF PrepareFails, Own, Typed, EngineRecord, SessionRecord, WatchRecord, ReportRecord
  <2> QED
    BY <2>1, <2>3, <2>4, OthersRest
<1>4. CASE Qualify(a)
  <2>1. Own(a)
    BY <1>0, <1>4 DEF Qualify, Goto, Own, Domains, bounds
  <2>2. /\ pc[a] = "qualify" /\ pc'[a] = "lease"
        /\ UNCHANGED <<engine[a], session[a], watch[a], report[a]>>
    BY <1>0, <1>4 DEF Qualify, Goto, Domains
  <2>3. Typed(a)'
    BY <1>0, <2>2 DEF Typed, Place
  <2>4. AttemptOK(a)'
    BY <1>0, <1>1, <1>4, <2>1, <2>2, <2>3
       DEF Qualify, Own, Typed, EngineRecord, SessionRecord, WatchRecord, ReportRecord
  <2> QED
    BY <2>1, <2>3, <2>4, OthersRest
<1>5. CASE QualifyFails(a)
  <2>1. Own(a)
    BY <1>0, <1>5 DEF QualifyFails, Goto, Internal, Own, Domains, bounds
  <2>2. /\ pc[a] = "qualify" /\ pc'[a] = "cleanup"
        /\ report'[a] = [outcome |-> "internal", proposal |-> NoText]
        /\ UNCHANGED <<engine[a], session[a], watch[a]>>
    BY <1>0, <1>5 DEF QualifyFails, Goto, Internal, Domains
  <2>3. Typed(a)'
    BY <1>0, <2>2 DEF Typed, Place, ReportRecord, Outcome
  <2>4. AttemptOK(a)'
    BY <1>0, <1>1, <1>5, <2>1, <2>2, <2>3
       DEF QualifyFails, Own, Typed, EngineRecord, SessionRecord, WatchRecord, ReportRecord
  <2> QED
    BY <2>1, <2>3, <2>4, OthersRest
<1>6. CASE TakeLease(a)
  <2>1. Own(a)
    BY <1>0, <1>6 DEF TakeLease, Goto, Own, Domains, bounds
  <2>2. /\ pc[a] = "lease" /\ pc'[a] = "stage"
        /\ UNCHANGED <<engine[a], session[a], watch[a], report[a]>>
    BY <1>0, <1>6 DEF TakeLease, Goto, Domains
  <2>3. Typed(a)'
    BY <1>0, <2>2 DEF Typed, Place
  <2>4. AttemptOK(a)'
    BY <1>0, <1>1, <1>6, <2>1, <2>2, <2>3
       DEF TakeLease, Own, Typed, EngineRecord, SessionRecord, WatchRecord, ReportRecord
  <2> QED
    BY <2>1, <2>3, <2>4, OthersRest
<1>7. CASE LeaseFails(a)
  <2>1. Own(a)
    BY <1>0, <1>7 DEF LeaseFails, Goto, Internal, Own, Domains, bounds
  <2>2. /\ pc[a] = "lease" /\ pc'[a] = "cleanup"
        /\ report'[a] = [outcome |-> "internal", proposal |-> NoText]
        /\ UNCHANGED <<engine[a], session[a], watch[a]>>
    BY <1>0, <1>7 DEF LeaseFails, Goto, Internal, Domains
  <2>3. Typed(a)'
    BY <1>0, <2>2 DEF Typed, Place, ReportRecord, Outcome
  <2>4. AttemptOK(a)'
    BY <1>0, <1>1, <1>7, <2>1, <2>2, <2>3
       DEF LeaseFails, Own, Typed, EngineRecord, SessionRecord, WatchRecord, ReportRecord
  <2> QED
    BY <2>1, <2>3, <2>4, OthersRest
<1>8. CASE Stage(a)
  <2>1. Own(a)
    BY <1>0, <1>8 DEF Stage, Goto, Own, Domains, bounds
  <2>2. /\ pc[a] = "stage" /\ pc'[a] = "check"
        /\ \E x \in BOOLEAN : session'[a] = [session[a] EXCEPT !.staged = x]
        /\ UNCHANGED <<engine[a], watch[a], report[a]>>
    <3>1. PICK x \in BOOLEAN : x = (a \in Live)
      <4>1. (a \in Live) \in BOOLEAN
        OBVIOUS
      <4> QED
        BY <4>1, Zenon
    <3>2. session' = [session EXCEPT ![a].staged = x]
      BY <1>8, <3>1 DEF Stage
    <3> QED
      BY <1>0, <1>8, <3>2 DEF Stage, Goto, Domains
  <2>3. Typed(a)'
    BY <1>0, <2>2 DEF Typed, Place, SessionRecord
  <2>4. AttemptOK(a)'
    BY <1>0, <1>1, <1>8, <2>1, <2>2, <2>3
       DEF Stage, Own, Typed, EngineRecord, SessionRecord, WatchRecord, ReportRecord
  <2> QED
    BY <2>1, <2>3, <2>4, OthersRest
<1>9. CASE StageFails(a)
  <2>1. Own(a)
    BY <1>0, <1>9 DEF StageFails, Goto, Internal, Unlock, Own, Domains, bounds
  <2>2. /\ pc[a] = "stage" /\ pc'[a] = "cleanup"
        /\ report'[a] = [outcome |-> "internal", proposal |-> NoText]
        /\ \E left \in BOOLEAN : session'[a] = [session[a] EXCEPT !.staged = left]
        /\ UNCHANGED <<engine[a], watch[a]>>
    BY <1>0, <1>9 DEF StageFails, Goto, Internal, Unlock, Domains
  <2>3. Typed(a)'
    BY <1>0, <2>2 DEF Typed, Place, SessionRecord, ReportRecord, Outcome
  <2>4. AttemptOK(a)'
    BY <1>0, <1>1, <1>9, <2>1, <2>2, <2>3
       DEF StageFails, Own, Typed, EngineRecord, SessionRecord, WatchRecord, ReportRecord,
           Unlock
  <2> QED
    BY <2>1, <2>3, <2>4, OthersRest
<1>10. CASE CheckLaunch(a)
  <2>1. Own(a)
    BY <1>0, <1>10 DEF CheckLaunch, Goto, Own, Domains, bounds
  <2>2. /\ pc[a] = "check" /\ pc'[a] = "spawn"
        /\ session'[a] = [session[a] EXCEPT !.evidence = IF a \in Live THEN installed ELSE NoExecutable]
        /\ UNCHANGED <<engine[a], watch[a], report[a]>>
    BY <1>0, <1>10 DEF CheckLaunch, Goto, Domains
  <2>3. Typed(a)'
    BY <1>0, <2>2 DEF Typed, Place, SessionRecord
  <2>4. AttemptOK(a)'
    BY <1>0, <1>1, <1>10, <2>1, <2>2, <2>3
       DEF CheckLaunch, Own, Typed, EngineRecord, SessionRecord, WatchRecord,
           ReportRecord, GatePasses
  <2> QED
    BY <2>1, <2>3, <2>4, OthersRest
<1>11. CASE LaunchRefused(a)
  <2>1. Own(a)
    BY <1>0, <1>11 DEF LaunchRefused, Internal, Own, Domains, bounds
  <2>2. /\ report'[a] = [outcome |-> "internal", proposal |-> NoText]
        /\ pc[a] \in {"check", "spawn"} /\ pc'[a] = "release"
        /\ UNCHANGED <<engine[a], session[a], watch[a]>>
    BY <1>0, <1>11 DEF LaunchRefused, Internal, Domains
  <2>3. Typed(a)'
    BY <1>0, <2>2 DEF Typed, Place, ReportRecord, Outcome
  <2>4. AttemptOK(a)'
    BY <1>0, <1>1, <1>11, <2>1, <2>2, <2>3
       DEF LaunchRefused, Own, Typed, EngineRecord, SessionRecord, WatchRecord, ReportRecord
  <2> QED
    BY <2>1, <2>3, <2>4, OthersRest
<1>12. CASE Spawn(a)
  <2>1. Own(a)
    BY <1>0, <1>12 DEF Spawn, Goto, Own, Domains, bounds
  <2>2. /\ pc[a] = "spawn" /\ pc'[a] = "wait"
        /\ engine'[a] = [engine[a] EXCEPT !.leader = "running"]
        /\ UNCHANGED <<session[a], watch[a], report[a]>>
    BY <1>0, <1>12 DEF Spawn, Goto, Domains
  <2>3. Typed(a)'
    BY <1>0, <2>2 DEF Typed, Place, EngineRecord
  <2>4. AttemptOK(a)'
    BY <1>0, <1>1, <1>12, <2>1, <2>2, <2>3
       DEF Spawn, Own, Typed, EngineRecord, SessionRecord, WatchRecord, ReportRecord,
           EvidenceMatches, Unwatched
  <2> QED
    BY <2>1, <2>3, <2>4, OthersRest
<1>13. CASE SpawnFails(a)
  <2>1. Own(a)
    BY <1>0, <1>13 DEF SpawnFails, Goto, Own, Domains, bounds
  <2>2. /\ pc[a] = "spawn" /\ pc'[a] = "inspect"
        /\ watch'[a] = [watch[a] EXCEPT !.launchError = TRUE]
        /\ UNCHANGED <<engine[a], session[a], report[a]>>
    BY <1>0, <1>13 DEF SpawnFails, Goto, Domains
  <2>3. Typed(a)'
    BY <1>0, <2>2 DEF Typed, Place, WatchRecord
  <2>4. AttemptOK(a)'
    BY <1>0, <1>1, <1>13, <2>1, <2>2, <2>3
       DEF SpawnFails, Own, Typed, EngineRecord, SessionRecord, WatchRecord, ReportRecord,
           Unwatched
  <2> QED
    BY <2>1, <2>3, <2>4, OthersRest
<1> QED
  BY <1>2, <1>3, <1>4, <1>5, <1>6, <1>7, <1>8, <1>9, <1>10, <1>11, <1>12, <1>13
     DEF BeforeLaunch

\* Whoever kills an engine notes why.
LEMMA MonitorSteps ==
    ASSUME IInv, NEW a \in Attempt, Monitor(a)
    PROVE  IInv'
<1>0. Domains /\ Typed(a) /\ installed \in Executable
  BY DEF IInv, Shaped
<1>1. AttemptOK(a)
  BY DEF IInv
<1> USE AttemptsAssumption
    DEF AttemptOK, EngineOK, LeaseOK, GateOK, WatchOK, ReportOK, LeaderRuns, Alive, Counted,
        Unforced, Lost, Early, Monitoring, Quiescing, Inspecting, Late, Leasing
<1>2. CASE Exited(a)
  <2>1. Own(a)
    BY <1>0, <1>2 DEF Exited, Own, Domains, bounds
  <2>2. /\ watch'[a] = [watch[a] EXCEPT !.exit = engine[a].leader]
        /\ pc[a] \in Monitoring /\ pc'[a] = "quiesce"
        /\ UNCHANGED <<engine[a], session[a], report[a]>>
    BY <1>0, <1>2 DEF Exited, Domains
  <2>3. Typed(a)'
    BY <1>0, <2>2 DEF Typed, Place, WatchRecord, EngineRecord, NoExit
  <2>4. AttemptOK(a)'
    BY <1>0, <1>1, <1>2, <2>1, <2>2, <2>3
       DEF Exited, Own, Typed, EngineRecord, SessionRecord, WatchRecord, ReportRecord
  <2> QED
    BY <2>1, <2>3, <2>4, OthersRest
<1>3. CASE Timeout(a)
  <2>1. Own(a)
    BY <1>0, <1>3 DEF Timeout, Goto, Own, Domains, bounds
  <2>2. /\ pc[a] = "wait" /\ pc'[a] = "grace"
        /\ watch'[a] = [watch[a] EXCEPT !.timedOut = TRUE]
        /\ UNCHANGED <<engine[a], session[a], report[a]>>
    BY <1>0, <1>3 DEF Timeout, Goto, Domains
  <2>3. Typed(a)'
    BY <1>0, <2>2 DEF Typed, Place, WatchRecord
  <2>4. AttemptOK(a)'
    BY <1>0, <1>1, <1>3, <2>1, <2>2, <2>3
       DEF Timeout, Own, Typed, EngineRecord, SessionRecord, WatchRecord, ReportRecord
  <2> QED
    BY <2>1, <2>3, <2>4, OthersRest
<1>4. CASE GraceOver(a)
  <2>1. Own(a)
    BY <1>0, <1>4 DEF GraceOver, Goto, Killed, Own, Domains, bounds
  <2>2. /\ pc[a] = "grace" /\ pc'[a] = "reap"
        /\ engine'[a] = [engine[a] EXCEPT !.doomed = TRUE]
        /\ UNCHANGED <<session[a], watch[a], report[a]>>
    BY <1>0, <1>4 DEF GraceOver, Goto, Killed, Domains
  <2>3. Typed(a)'
    BY <1>0, <2>2 DEF Typed, Place, EngineRecord
  <2>4. AttemptOK(a)'
    BY <1>0, <1>1, <1>4, <2>1, <2>2, <2>3
       DEF GraceOver, Own, Typed, EngineRecord, SessionRecord, WatchRecord, ReportRecord
  <2> QED
    BY <2>1, <2>3, <2>4, OthersRest
<1>5. CASE Breach(a)
  <2>1. Own(a)
    BY <1>0, <1>5 DEF Breach, Goto, Killed, Own, Domains, bounds
  <2>2. /\ pc[a] = "wait" /\ pc'[a] = "reap"
        /\ engine'[a] = [engine[a] EXCEPT !.doomed = TRUE]
        /\ watch'[a] = [watch[a] EXCEPT !.breached = TRUE, !.killed = TRUE]
        /\ UNCHANGED <<session[a], report[a]>>
    BY <1>0, <1>5 DEF Breach, Goto, Killed, Domains
  <2>3. Typed(a)'
    BY <1>0, <2>2 DEF Typed, Place, EngineRecord, WatchRecord
  <2>4. AttemptOK(a)'
    <3> lock' = lock
      BY <1>5 DEF Breach
    <3>1. EngineOK(a)' /\ LeaseOK(a)' /\ GateOK(a)'
      BY <1>0, <1>1, <2>2 DEF Typed, EngineRecord, SessionRecord, WatchRecord
    <3>2. WatchOK(a)'
      BY <1>0, <1>1, <2>2, <2>3 DEF Typed, EngineRecord, WatchRecord
    <3>3. ReportOK(a)'
      BY <1>0, <1>1, <2>2 DEF Typed, EngineRecord, WatchRecord
    <3> QED
      BY <3>1, <3>2, <3>3
  <2> QED
    BY <2>1, <2>3, <2>4, OthersRest
<1>6. CASE MonitorFails(a)
  <2>1. Own(a)
    BY <1>0, <1>6 DEF MonitorFails, Goto, Internal, CountFails, Own, Domains, bounds
  <2>2. /\ pc[a] = "wait" /\ pc'[a] = "release"
        /\ report'[a] = [outcome |-> "internal", proposal |-> NoText]
        /\ UNCHANGED <<engine[a], session[a], watch[a]>>
    BY <1>0, <1>6 DEF MonitorFails, Goto, Internal, CountFails, Domains
  <2>3. Typed(a)'
    BY <1>0, <2>2 DEF Typed, Place, ReportRecord, Outcome
  <2>4. AttemptOK(a)'
    BY <1>0, <1>1, <1>6, <2>1, <2>2, <2>3
       DEF MonitorFails, Own, Typed, EngineRecord, SessionRecord, WatchRecord,
           ReportRecord, Internal
  <2> QED
    BY <2>1, <2>3, <2>4, OthersRest
<1> QED
  BY <1>2, <1>3, <1>4, <1>5, <1>6 DEF Monitor

\* What is not known to be empty is not called quiescent.
LEMMA QuiesceSteps ==
    ASSUME IInv, NEW a \in Attempt, Quiesce(a)
    PROVE  IInv'
<1>0. Domains /\ Typed(a) /\ installed \in Executable
  BY DEF IInv, Shaped
<1>1. AttemptOK(a)
  BY DEF IInv
<1> USE AttemptsAssumption
    DEF AttemptOK, EngineOK, LeaseOK, GateOK, WatchOK, ReportOK, LeaderRuns, Alive, Counted,
        Unforced, Lost, Early, Monitoring, Quiescing, Inspecting, Late, Leasing
<1>2. CASE GroupFound(a)
  <2>1. Own(a)
    BY <1>0, <1>2 DEF GroupFound, Goto, Own, Domains, bounds
  <2>2. /\ pc[a] = "quiesce" /\ pc'[a] = "term"
        /\ watch'[a] = [watch[a] EXCEPT !.detected = Counted(a)]
        /\ UNCHANGED <<engine[a], session[a], report[a]>>
    BY <1>0, <1>2 DEF GroupFound, Goto, Domains
  <2>3. Typed(a)'
    BY <1>0, <2>2 DEF Typed, Place, WatchRecord, EngineRecord
  <2>4. AttemptOK(a)'
    BY <1>0, <1>1, <1>2, <2>1, <2>2, <2>3
       DEF GroupFound, Own, Typed, EngineRecord, SessionRecord, WatchRecord, ReportRecord
  <2> QED
    BY <2>1, <2>3, <2>4, OthersRest
<1>3. CASE GroupUnknown(a)
  <2>1. Own(a)
    BY <1>0, <1>3 DEF GroupUnknown, Goto, CountFails, Own, Domains, bounds
  <2>2. /\ pc[a] = "quiesce" /\ pc'[a] = "inspect"
        /\ watch'[a] = [watch[a] EXCEPT !.quiescent = FALSE, !.detected = Lost, !.remaining = Lost]
        /\ UNCHANGED <<engine[a], session[a], report[a]>>
    BY <1>0, <1>3 DEF GroupUnknown, Goto, CountFails, Domains
  <2>3. Typed(a)'
    <3>1. PICK n \in Int : n = Lost
      OBVIOUS
    <3>2. watch'[a] = [watch[a] EXCEPT !.quiescent = FALSE, !.detected = n, !.remaining = n]
      BY <2>2, <3>1
    <3> QED
      BY <1>0, <2>2, <3>2 DEF Typed, Place, WatchRecord
  <2>4. AttemptOK(a)'
    <3> lock' = lock
      BY <1>3 DEF GroupUnknown
    <3>1. EngineOK(a)' /\ LeaseOK(a)' /\ GateOK(a)'
      BY <1>0, <1>1, <2>2 DEF Typed, EngineRecord, SessionRecord, WatchRecord
    <3>2. WatchOK(a)'
      BY <1>0, <1>1, <2>2, <2>3 DEF Typed, EngineRecord, WatchRecord
    <3>3. ReportOK(a)'
      BY <1>0, <1>1, <2>2 DEF Typed, EngineRecord, WatchRecord
    <3> QED
      BY <3>1, <3>2, <3>3
  <2> QED
    BY <2>1, <2>3, <2>4, OthersRest
<1>4. CASE KillGroup(a)
  <2>1. Own(a)
    BY <1>0, <1>4 DEF KillGroup, Goto, Killed, Own, Domains, bounds
  <2>2. /\ pc[a] = "term" /\ pc'[a] = "kill"
        /\ engine'[a] = [engine[a] EXCEPT !.doomed = TRUE]
        /\ UNCHANGED <<session[a], watch[a], report[a]>>
    BY <1>0, <1>4 DEF KillGroup, Goto, Killed, Domains
  <2>3. Typed(a)'
    BY <1>0, <2>2 DEF Typed, Place, EngineRecord
  <2>4. AttemptOK(a)'
    BY <1>0, <1>1, <1>4, <2>1, <2>2, <2>3
       DEF KillGroup, Own, Typed, EngineRecord, SessionRecord, WatchRecord, ReportRecord
  <2> QED
    BY <2>1, <2>3, <2>4, OthersRest
<1>5. CASE GroupEmpty(a)
  <2>1. Own(a)
    BY <1>0, <1>5 DEF GroupEmpty, Own, Domains, bounds
  <2>2. /\ pc[a] \in Quiescing /\ pc'[a] = "inspect"
        /\ UNCHANGED <<engine[a], session[a], watch[a], report[a]>>
    BY <1>0, <1>5 DEF GroupEmpty, Domains
  <2>3. Typed(a)'
    BY <1>0, <2>2 DEF Typed, Place
  <2>4. AttemptOK(a)'
    BY <1>0, <1>1, <1>5, <2>1, <2>2, <2>3
       DEF GroupEmpty, Own, Typed, EngineRecord, SessionRecord, WatchRecord, ReportRecord
  <2> QED
    BY <2>1, <2>3, <2>4, OthersRest
<1>6. CASE GroupRemains(a)
  <2>1. Own(a)
    BY <1>0, <1>6 DEF GroupRemains, Goto, CountFails, Own, Domains, bounds
  <2>2. /\ pc[a] = "kill" /\ pc'[a] = "inspect"
        /\ \E n \in Int :
               /\ n = Lost \/ (n = Counted(a) /\ n > 0)
               /\ watch'[a] = [watch[a] EXCEPT !.quiescent = FALSE, !.remaining = n]
        /\ UNCHANGED <<engine[a], session[a], report[a]>>
    <3>1. CASE Counted(a) > 0 /\ watch' = [watch EXCEPT ![a].quiescent = FALSE,
                                                        ![a].remaining = Counted(a)]
      <4>1. Counted(a) \in Int
        BY <1>0 DEF Typed, EngineRecord
      <4> QED
        BY <1>0, <1>6, <3>1, <4>1 DEF GroupRemains, Goto, Domains
    <3>2. CASE watch' = [watch EXCEPT ![a].quiescent = FALSE, ![a].remaining = Lost]
      <4>1. Lost \in Int
        OBVIOUS
      <4> QED
        BY <1>0, <1>6, <3>2, <4>1 DEF GroupRemains, Goto, Domains
    <3> QED
      BY <1>6, <3>1, <3>2 DEF GroupRemains
  <2>3. Typed(a)'
    BY <1>0, <2>2 DEF Typed, Place, WatchRecord
  <2>4. AttemptOK(a)'
    BY <1>0, <1>1, <1>6, <2>1, <2>2, <2>3
       DEF GroupRemains, Own, Typed, EngineRecord, SessionRecord, WatchRecord, ReportRecord
  <2> QED
    BY <2>1, <2>3, <2>4, OthersRest
<1> QED
  BY <1>2, <1>3, <1>4, <1>5, <1>6 DEF Quiesce

\* What PrimaryOutcome calls valid, and what it does not call internal.
LEMMA Outcomes ==
    ASSUME NEW w, NEW file
    PROVE  LET outcome == PrimaryOutcome(w, file)
           IN /\ outcome \in Outcome \ {"none", "raised"}
              /\ outcome # "internal" => ~QuiescenceFailed(w)
              /\ outcome = "valid" =>
                     /\ w.exit = "zero" /\ ~w.breached /\ ~w.launchError /\ ~w.timedOut
                     /\ ~Survived(w) /\ ~w.bundleModified /\ ~w.outputMoved
                     /\ file \notin {"unsafe", "missing", "malformed"}
  BY DEF PrimaryOutcome, Outcome

\* What is known of an attempt when its outcome is decided.
LEMMA ConcludeStep ==
    ASSUME IInv, NEW a \in Attempt, NEW file \in Files, Own(a),
           pc[a] \in {"import", "withhold"}, pc'[a] = "release",
           UNCHANGED <<engine[a], session[a], watch[a]>>, lock' = lock,
           file = engine[a].file \/ file = "missing", Conclude(a, file)
    PROVE  IInv'
<1>1. Domains /\ Typed(a) /\ AttemptOK(a)
  BY DEF IInv, Shaped
<1>2. PICK outcome : outcome = PrimaryOutcome(watch[a], file)
  OBVIOUS
<1>3. /\ outcome \in Outcome \ {"none", "raised"}
      /\ outcome # "internal" => ~QuiescenceFailed(watch[a])
      /\ outcome = "valid" =>
             /\ watch[a].exit = "zero" /\ ~watch[a].breached /\ ~watch[a].launchError
             /\ ~watch[a].timedOut /\ ~Survived(watch[a]) /\ ~watch[a].bundleModified
             /\ ~watch[a].outputMoved /\ file \notin {"unsafe", "missing", "malformed"}
  BY <1>2, Outcomes
<1>4. report'[a] = [outcome |-> outcome,
                    proposal |-> IF outcome = "valid" THEN file ELSE NoText]
  BY <1>1, <1>2 DEF Conclude, Domains
<1>5. report'[a].outcome = outcome /\ (outcome = "valid" => report'[a].proposal = file)
  BY <1>4
<1>6. Typed(a)'
  BY <1>1, <1>3, <1>4 DEF Typed, Place, Late, ReportRecord
<1>7. EngineOK(a)' /\ LeaseOK(a)' /\ GateOK(a)' /\ WatchOK(a)'
  BY <1>1 DEF AttemptOK, EngineOK, LeaseOK, GateOK, WatchOK, Leasing, Early, Monitoring,
     Quiescing, Inspecting
<1>8. outcome = "valid" =>
          /\ engine[a].leader = "zero"
          /\ a \notin Live =>
                 /\ ~engine[a].doomed /\ ~Alive(a) /\ engine[a].damage = {}
                 /\ file = engine[a].file
  <2>1. SUFFICES ASSUME outcome = "valid"
                 PROVE  /\ engine[a].leader = "zero"
                        /\ a \notin Live =>
                               /\ ~engine[a].doomed /\ ~Alive(a) /\ engine[a].damage = {}
                               /\ file = engine[a].file
    OBVIOUS
  <2>2. engine[a].leader = "zero"
    BY <1>1, <1>3, <2>1 DEF AttemptOK, WatchOK, Inspecting
  <2>3. SUFFICES ASSUME a \notin Live
                 PROVE  /\ ~engine[a].doomed /\ ~Alive(a) /\ engine[a].damage = {}
                        /\ file = engine[a].file
    BY <2>2
  <2>4. watch[a].detected = 0
    BY <1>1, <1>3, <2>1 DEF AttemptOK, EngineOK, WatchOK, Inspecting, QuiescenceFailed,
       Survived, Normal, Lost, Typed, WatchRecord
  <2>5. Unforced(a)
    BY <1>3, <2>1, <2>3, <2>4 DEF Unforced
  <2>6. engine[a].damage \subseteq {"quota", "bundle", "output"}
    BY <1>1, AttemptsAssumption DEF Typed, EngineRecord, Damages
  <2>7. engine[a].damage = {}
    BY <1>1, <1>3, <2>1, <2>5, <2>6 DEF AttemptOK, WatchOK, Inspecting
  <2>8. ~Alive(a) /\ ~engine[a].doomed
    BY <1>1, <1>3, <2>1, <2>3, <2>4, <2>5 DEF AttemptOK, WatchOK, EngineOK, Inspecting
  <2> QED
    BY <1>3, <2>1, <2>7, <2>8
<1>9. outcome # "internal" =>
          /\ ~LeaderRuns(a)
          /\ watch[a].remaining # Lost => Counted(a) = 0
  BY <1>1, <1>3 DEF AttemptOK, WatchOK, Inspecting, QuiescenceFailed, Typed, WatchRecord
<1>10. Alive(a)' = Alive(a) /\ LeaderRuns(a)' = LeaderRuns(a) /\ Counted(a)' = Counted(a)
  BY DEF Alive, LeaderRuns, Counted
<1>11. ReportOK(a)'
  BY <1>3, <1>5, <1>8, <1>9, <1>10 DEF ReportOK
<1> QED
  BY <1>6, <1>7, <1>11, OthersRest DEF AttemptOK

\* What is given back is not used by anybody.
LEMMA AfterwardsSteps ==
    ASSUME IInv, NEW a \in Attempt, Afterwards(a)
    PROVE  IInv'
<1>0. Domains /\ Typed(a) /\ installed \in Executable
  BY DEF IInv, Shaped
<1>1. AttemptOK(a)
  BY DEF IInv
<1> USE AttemptsAssumption
    DEF AttemptOK, EngineOK, LeaseOK, GateOK, WatchOK, ReportOK, LeaderRuns, Alive, Counted,
        Unforced, Lost, Early, Monitoring, Quiescing, Inspecting, Late, Leasing
<1>2. CASE InspectFails(a)
  <2>1. Own(a)
    BY <1>0, <1>2 DEF InspectFails, Internal, Own, Domains, bounds
  <2>2. /\ report'[a] = [outcome |-> "internal", proposal |-> NoText]
        /\ pc[a] \in Inspecting /\ pc'[a] = "release"
        /\ UNCHANGED <<engine[a], session[a], watch[a]>>
    BY <1>0, <1>2 DEF InspectFails, Internal, Domains
  <2>3. Typed(a)'
    BY <1>0, <2>2 DEF Typed, Place, ReportRecord, Outcome
  <2>4. AttemptOK(a)'
    BY <1>0, <1>1, <1>2, <2>1, <2>2, <2>3
       DEF InspectFails, Own, Typed, EngineRecord, SessionRecord, WatchRecord, ReportRecord
  <2> QED
    BY <2>1, <2>3, <2>4, OthersRest
<1>3. CASE Release(a)
  <2>1. Own(a)
    BY <1>0, <1>3 DEF Release, Goto, Unlock, Own, Domains, bounds
  <2>2. /\ pc[a] = "release" /\ pc'[a] = "cleanup"
        /\ session'[a] = [session[a] EXCEPT !.staged = FALSE]
        /\ UNCHANGED <<engine[a], watch[a], report[a]>>
    BY <1>0, <1>3 DEF Release, Goto, Unlock, Domains
  <2>3. Typed(a)'
    BY <1>0, <2>2 DEF Typed, Place, SessionRecord
  <2>4. AttemptOK(a)'
    BY <1>0, <1>1, <1>3, <2>1, <2>2, <2>3
       DEF Release, Own, Typed, EngineRecord, SessionRecord, WatchRecord, ReportRecord,
           Unlock
  <2> QED
    BY <2>1, <2>3, <2>4, OthersRest
<1>4. CASE ReleaseFails(a)
  <2>1. Own(a)
    BY <1>0, <1>4 DEF ReleaseFails, Goto, Internal, Unlock, Own, Domains, bounds
  <2>2. /\ pc[a] = "release" /\ pc'[a] = "cleanup"
        /\ report'[a] = [outcome |-> "internal", proposal |-> NoText]
        /\ UNCHANGED <<engine[a], session[a], watch[a]>>
    BY <1>0, <1>4 DEF ReleaseFails, Goto, Internal, Unlock, Domains
  <2>3. Typed(a)'
    BY <1>0, <2>2 DEF Typed, Place, ReportRecord, Outcome
  <2>4. AttemptOK(a)'
    BY <1>0, <1>1, <1>4, <2>1, <2>2, <2>3
       DEF ReleaseFails, Own, Typed, EngineRecord, SessionRecord, WatchRecord,
           ReportRecord, Unlock
  <2> QED
    BY <2>1, <2>3, <2>4, OthersRest
<1>5. CASE Cleanup(a)
  <2>1. Own(a)
    BY <1>0, <1>5 DEF Cleanup, Goto, Own, Domains, bounds
  <2>2. /\ pc[a] = "cleanup" /\ pc'[a] = "returned"
        /\ session'[a] = [session[a] EXCEPT !.root = FALSE, !.staged = FALSE]
        /\ UNCHANGED <<engine[a], watch[a], report[a]>>
    BY <1>0, <1>5 DEF Cleanup, Goto, Domains
  <2>3. Typed(a)'
    BY <1>0, <2>2 DEF Typed, Place, SessionRecord
  <2>4. AttemptOK(a)'
    <3> lock' = lock
      BY <1>5 DEF Cleanup
    <3>1. session'[a].root = FALSE /\ session'[a].staged = FALSE
          /\ session'[a].pinned = session[a].pinned
      BY <1>0, <2>2 DEF Typed, SessionRecord
    <3>2. EngineOK(a)' /\ LeaseOK(a)' /\ GateOK(a)'
      BY <1>0, <1>1, <2>2, <3>1
    <3>3. WatchOK(a)' /\ ReportOK(a)'
      BY <1>0, <1>1, <2>2, <3>1
    <3> QED
      BY <3>2, <3>3
  <2> QED
    BY <2>1, <2>3, <2>4, OthersRest
<1>6. CASE CleanupFails(a)
  <2>1. Own(a)
    BY <1>0, <1>6 DEF CleanupFails, Goto, Internal, Own, Domains, bounds
  <2>2. /\ pc[a] = "cleanup" /\ pc'[a] = "returned"
        /\ report'[a] = [outcome |-> "internal", proposal |-> NoText]
        /\ UNCHANGED <<engine[a], session[a], watch[a]>>
    BY <1>0, <1>6 DEF CleanupFails, Goto, Internal, Domains
  <2>3. Typed(a)'
    BY <1>0, <2>2 DEF Typed, Place, ReportRecord, Outcome
  <2>4. AttemptOK(a)'
    BY <1>0, <1>1, <1>6, <2>1, <2>2, <2>3
       DEF CleanupFails, Own, Typed, EngineRecord, SessionRecord, WatchRecord, ReportRecord
  <2> QED
    BY <2>1, <2>3, <2>4, OthersRest
<1>7. CASE Inspect(a)
  <2>1. PICK w : w = [watch[a] EXCEPT
            !.bundleModified = BundleChanged(a),
            !.outputMoved = OutputMoved(a),
            !.breached = @ \/ (watch[a].exit = "limit" /\ Normal(watch[a]))
                           \/ (~watch[a].launchError /\ QuotaExceeded(a))]
    OBVIOUS
  <2>2. /\ pc[a] = "inspect" /\ pc'[a] \in {"import", "withhold"}
        /\ watch'[a] = w /\ lock' = lock
        /\ UNCHANGED <<engine[a], session[a], report[a]>>
    BY <1>0, <1>7, <2>1 DEF Inspect, Goto, Domains
  <2>3. Own(a)
    BY <1>0, <1>7, <2>1 DEF Inspect, Goto, Own, Domains, bounds
  <2>4. /\ w.bundleModified <=> "bundle" \in engine[a].damage
        /\ w.outputMoved <=> "output" \in engine[a].damage
        /\ ~w.launchError /\ "quota" \in engine[a].damage => w.breached
        /\ watch[a].breached => w.breached
        /\ w.launchError = watch[a].launchError /\ w.exit = watch[a].exit
        /\ w.timedOut = watch[a].timedOut /\ w.killed = watch[a].killed
        /\ w.detected = watch[a].detected /\ w.remaining = watch[a].remaining
        /\ w.quiescent = watch[a].quiescent
    BY <1>0, <2>1 DEF Typed, WatchRecord, BundleChanged, OutputMoved, QuotaExceeded
  <2>5. w \in WatchRecord
    <3>1. /\ BundleChanged(a) \in BOOLEAN /\ OutputMoved(a) \in BOOLEAN
          /\ (watch[a].breached \/ (watch[a].exit = "limit" /\ Normal(watch[a]))
                  \/ (~watch[a].launchError /\ QuotaExceeded(a))) \in BOOLEAN
      BY <1>0 DEF BundleChanged, OutputMoved, QuotaExceeded, Normal
    <3> QED
      BY <1>0, <2>1, <3>1 DEF Typed, WatchRecord
  <2>6. Typed(a)'
    BY <1>0, <2>2, <2>5 DEF Typed, Place
  <2>7. EngineOK(a)' /\ LeaseOK(a)' /\ GateOK(a)'
    BY <1>0, <1>1, <2>2, <2>4
  <2>8. WatchOK(a)'
    BY <1>0, <1>1, <2>2, <2>4
  <2>9. ReportOK(a)'
    BY <1>0, <1>1, <2>2, <2>4
  <2> QED
    BY <2>3, <2>6, <2>7, <2>8, <2>9, OthersRest
<1>8. CASE Import(a)
  <2>1. /\ Own(a) /\ pc[a] = "import" /\ pc'[a] = "release" /\ lock' = lock
        /\ UNCHANGED <<engine[a], session[a], watch[a]>> /\ Conclude(a, engine[a].file)
    BY <1>0, <1>8 DEF Import, Goto, Conclude, Own, Domains, bounds
  <2>2. engine[a].file \in Files
    BY <1>0 DEF Typed, EngineRecord
  <2> QED
    BY <2>1, <2>2, ConcludeStep
<1>9. CASE Withhold(a)
  <2>1. /\ Own(a) /\ pc[a] = "withhold" /\ pc'[a] = "release" /\ lock' = lock
        /\ UNCHANGED <<engine[a], session[a], watch[a]>> /\ Conclude(a, "missing")
    BY <1>0, <1>9 DEF Withhold, Goto, Conclude, Own, Domains, bounds
  <2> QED
    BY <2>1, ConcludeStep DEF Files
<1> QED
  BY <1>2, <1>3, <1>4, <1>5, <1>6, <1>7, <1>8, <1>9 DEF Afterwards

\* A supervisor that is killed takes the lock with it, and its sandbox too.
LEMMA DeathSteps ==
    ASSUME IInv, NEW a \in Attempt, SupervisorDies(a) \/ Interrupted(a)
    PROVE  IInv'
<1>0. Domains /\ Typed(a)
  BY DEF IInv, Shaped
<1>1. AttemptOK(a)
  BY DEF IInv
<1> USE AttemptsAssumption
    DEF AttemptOK, EngineOK, LeaseOK, GateOK, WatchOK, ReportOK, LeaderRuns, Alive, Counted,
        Unforced, Lost, Early, Monitoring, Quiescing, Inspecting, Late, Leasing
<1>2. CASE SupervisorDies(a)
  <2>1. Own(a)
    BY <1>0, <1>2 DEF SupervisorDies, Unlock, Own, Domains, bounds
  <2>2. PICK x \in BOOLEAN : x = (engine[a].doomed \/ a \in Live)
    <3>1. (engine[a].doomed \/ a \in Live) \in BOOLEAN
      OBVIOUS
    <3> QED
      BY <3>1, Zenon
  <2>3. /\ pc[a] # "returned" /\ pc'[a] = "dead"
        /\ engine'[a] = [engine[a] EXCEPT !.doomed = x] /\ lock' # a
        /\ UNCHANGED <<session[a], watch[a], report[a]>>
    BY <1>0, <1>2, <2>2 DEF SupervisorDies, Unlock, Domains
  <2>4. Typed(a)'
    BY <1>0, <2>3 DEF Typed, Place, EngineRecord
  <2>5. AttemptOK(a)'
    BY <1>0, <1>1, <2>2, <2>3 DEF Typed, EngineRecord
  <2> QED
    BY <2>1, <2>4, <2>5, OthersRest
<1>3. CASE Interrupted(a)
  <2>1. Own(a)
    BY <1>0, <1>3 DEF Interrupted, Unlock, Own, Domains, bounds
  <2>2. /\ pc'[a] = "dead" /\ session'[a] = [session[a] EXCEPT !.staged = FALSE]
        /\ lock' # a /\ UNCHANGED <<engine[a], watch[a], report[a]>>
    BY <1>0, <1>3 DEF Interrupted, Unlock, Domains
  <2>3. Typed(a)'
    BY <1>0, <2>2 DEF Typed, Place, SessionRecord
  <2>4. AttemptOK(a)'
    BY <1>0, <1>1, <2>2 DEF Typed, SessionRecord
  <2> QED
    BY <2>1, <2>3, <2>4, OthersRest
<1> QED
  BY <1>2, <1>3

-------------------------------------------------------------------------------
(* The engine                                                                *)

\* What an engine does, with any of its processes alive: the end of a sandbox's
\* first process dooms the rest.
LEMMA EngineSteps ==
    ASSUME IInv, NEW a \in Attempt, Engine(a)
    PROVE  IInv'
<1>1. Domains /\ Typed(a) /\ AttemptOK(a)
  BY DEF IInv, Shaped
<1>2. PICK e :
          /\ EngineStep(a, e) /\ e \in EngineRecord
          /\ engine[a].leader # "none"
          /\ e.leader # "running" => e.leader \in ExitCode
          /\ e.leader = "running" => engine[a].leader = "running"
          /\ engine[a].leader # "running" => e.leader = engine[a].leader
          /\ e.members > engine[a].members => ~engine[a].doomed
          /\ engine[a].doomed => e.doomed
          /\ e.doomed => engine[a].doomed \/ a \in Live
          /\ e.leader # engine[a].leader =>
                 (a \in Live => e.doomed) /\ e.members = engine[a].members
  <2>1. engine[a].leader # "none"
    <3>1. Alive(a)
      BY DEF Engine, Fork, MemberExits, LeaderExits, WriteProposal, DoDamage, EngineStep
    <3> QED
      BY <1>1, <3>1 DEF Alive, LeaderRuns, AttemptOK, EngineOK
  <2>2. engine[a] \in EngineRecord
    BY <1>1 DEF Typed
  <2>3. CASE Fork(a)
    <3>1. PICK e : e = [engine[a] EXCEPT !.members = @ + 1]
      OBVIOUS
    <3> QED
      BY <2>1, <2>2, <2>3, <3>1 DEF Fork, EngineRecord
  <2>4. CASE MemberExits(a)
    <3>1. PICK e : e = [engine[a] EXCEPT !.members = @ - 1]
      OBVIOUS
    <3> QED
      BY <2>1, <2>2, <2>4, <3>1 DEF MemberExits, EngineRecord
  <2>5. CASE LeaderExits(a)
    <3>1. PICK code \in ExitCode :
              EngineStep(a, [engine[a] EXCEPT !.leader = code,
                                              !.doomed = @ \/ a \in Live])
      BY <2>5 DEF LeaderExits
    <3>2. PICK x \in BOOLEAN : x = (engine[a].doomed \/ a \in Live)
      <4>1. (engine[a].doomed \/ a \in Live) \in BOOLEAN
        OBVIOUS
      <4> QED
        BY <4>1, Zenon
    <3>3. PICK e : e = [engine[a] EXCEPT !.leader = code, !.doomed = x]
      OBVIOUS
    <3>4. EngineStep(a, e)
      BY <3>1, <3>2, <3>3
    <3>5. LeaderRuns(a) /\ code \notin {"none", "running"}
      BY <2>5, AttemptsAssumption DEF LeaderExits, ExitCodes
    <3>6. e.leader = code /\ e.doomed = x /\ e.members = engine[a].members
          /\ e \in EngineRecord /\ engine[a].members \in Nat
      BY <2>2, <3>3 DEF EngineRecord
    <3>7. e.doomed <=> engine[a].doomed \/ a \in Live
      BY <3>2, <3>6
    <3> QED
      BY <2>1, <3>4, <3>5, <3>6, <3>7 DEF LeaderRuns
  <2>6. CASE WriteProposal(a)
    <3>1. PICK file \in Files : EngineStep(a, [engine[a] EXCEPT !.file = file])
      BY <2>6 DEF WriteProposal
    <3>2. PICK e : e = [engine[a] EXCEPT !.file = file]
      OBVIOUS
    <3> QED
      BY <2>1, <2>2, <3>1, <3>2 DEF EngineRecord
  <2>7. CASE DoDamage(a)
    <3>1. PICK d \in Damage : EngineStep(a, [engine[a] EXCEPT !.damage = @ \cup {d}])
      BY <2>7 DEF DoDamage
    <3>2. PICK e : e = [engine[a] EXCEPT !.damage = @ \cup {d}]
      OBVIOUS
    <3> QED
      BY <2>1, <2>2, <3>1, <3>2 DEF EngineRecord
  <2> QED
    BY <2>3, <2>4, <2>5, <2>6, <2>7 DEF Engine
<1>3. /\ Alive(a) /\ engine'[a] = e /\ lock' = lock
      /\ UNCHANGED <<pc[a], session[a], watch[a], report[a]>>
  BY <1>1, <1>2 DEF EngineStep, Domains
<1>4. Own(a)
  BY <1>1, <1>2 DEF EngineStep, Own, Domains, bounds
<1>5. Typed(a)'
  BY <1>1, <1>2, <1>3 DEF Typed
<1>6. EngineOK(a)'
  BY <1>1, <1>2, <1>3, AttemptsAssumption
     DEF AttemptOK, EngineOK, Typed, EngineRecord, ExitCodes
<1>7. LeaseOK(a)' /\ GateOK(a)'
  BY <1>1, <1>2, <1>3 DEF AttemptOK, LeaseOK, GateOK
<1>8. WatchOK(a)'
  BY <1>1, <1>2, <1>3, AttemptsAssumption
     DEF ExitCodes, AttemptOK, EngineOK, WatchOK, Typed, EngineRecord, LeaderRuns, Alive,
         Counted,
         Unforced, Early, Monitoring, Quiescing, Inspecting
<1>9. ReportOK(a)'
  BY <1>1, <1>2, <1>3
     DEF AttemptOK, EngineOK, WatchOK, ReportOK, Typed, EngineRecord, LeaderRuns, Alive,
         Counted, Early, Late
<1> QED
  BY <1>4, <1>5, <1>6, <1>7, <1>8, <1>9, OthersRest DEF AttemptOK

-------------------------------------------------------------------------------
(* The invariant                                                             *)

LEMMA NextOK == IInv /\ [Next]_vars => IInv'
<1> SUFFICES ASSUME IInv, [Next]_vars PROVE IInv'
  OBVIOUS
<1>1. CASE UNCHANGED vars
  BY <1>1 DEF vars, bounds, IInv, Shaped, Domains, Typed, AttemptOK, EngineOK, LeaseOK,
     GateOK, WatchOK, ReportOK, LeaderRuns, Alive, Counted, Unforced
<1>2. CASE ReplaceExecutable
  BY <1>2 DEF ReplaceExecutable, IInv, Shaped, Domains, Typed, AttemptOK, EngineOK, LeaseOK,
     GateOK, WatchOK, ReportOK, LeaderRuns, Alive, Counted, Unforced
<1>3. ASSUME NEW a \in Attempt,
             Supervise(a) \/ SupervisorDies(a) \/ Interrupted(a) \/ Engine(a)
      PROVE  IInv'
  BY <1>3, BeforeLaunchSteps, MonitorSteps, QuiesceSteps, AfterwardsSteps, DeathSteps,
     EngineSteps DEF Supervise
<1> QED
  BY <1>1, <1>2, <1>3 DEF Next

\* Whatever engines, supervisors and the machine do, IInv holds.
THEOREM ExecutionInvariant == Spec => []IInv
<1>1. Init => IInv
  BY InitOK
<1>2. IInv /\ [Next]_vars => IInv'
  BY NextOK
<1> QED
  BY <1>1, <1>2, PTL DEF Spec

\* ValidProposalsAreFinal: execute() imports after it has seen the engine exit
\* with 0 and found its group empty.  Without a sandbox nobody is left to change
\* a file; in a sandbox whoever is left was sent SIGKILL when bwrap ended.
THEOREM ProposalsFinal == Spec => []ValidProposalsAreFinal
<1>1. IInv => ValidProposalsAreFinal
  <2>1. SUFFICES ASSUME IInv, NEW a \in Attempt, report[a].outcome = "valid"
                 PROVE  /\ engine[a].leader = "zero"
                        /\ Alive(a) => engine[a].doomed
                        /\ a \notin Live =>
                               /\ ~engine[a].doomed /\ ~Alive(a) /\ engine[a].damage = {}
                               /\ report[a].proposal = engine[a].file
    BY DEF ValidProposalsAreFinal
  <2>2. EngineOK(a) /\ ReportOK(a)
    BY <2>1 DEF IInv, AttemptOK
  <2>3. a \in Live => engine[a].doomed
    BY <2>1, <2>2 DEF EngineOK, ReportOK
  <2> QED
    BY <2>1, <2>2, <2>3 DEF ReportOK
<1> QED
  BY <1>1, ExecutionInvariant, PTL

\* NothingLeftBehind: an attempt that cannot give something back, or did not see
\* its group empty, reports INTERNAL_RUNTIME_FAILURE.
THEOREM NothingLeft == Spec => []NothingLeftBehind
<1>1. IInv => NothingLeftBehind
  BY DEF IInv, AttemptOK, ReportOK, LeaseOK, NothingLeftBehind, Leasing, Monitoring,
     Quiescing, Inspecting, Late
<1> QED
  BY <1>1, ExecutionInvariant, PTL

\* LockOutlivesEngine: the vault lock is given back at the end of the lease, and
\* no step gets there before the engine is dead, but those that report it.
THEOREM LockHeld == Spec => []LockOutlivesEngine
<1>1. IInv => LockOutlivesEngine
  <2>1. SUFFICES ASSUME IInv, NEW a \in Live, Alive(a), ~engine[a].doomed,
                        pc[a] # "dead", report[a].outcome # "internal"
                 PROVE  lock = a
    BY DEF LockOutlivesEngine
  <2>2. /\ a \in Attempt /\ Typed(a) /\ AttemptOK(a)
    BY <2>1, AttemptsAssumption DEF IInv, Shaped
  <2>3. LeaderRuns(a)
    BY <2>1, <2>2 DEF AttemptOK, EngineOK, Alive, LeaderRuns
  <2>4. pc[a] \in Monitoring
    BY <2>1, <2>2, <2>3
       DEF Typed, Place, AttemptOK, WatchOK, ReportOK, LeaderRuns, Early, Monitoring,
           Quiescing, Inspecting, Late
  <2> QED
    BY <2>2, <2>4 DEF AttemptOK, LeaseOK, Leasing
<1> QED
  BY <1>1, ExecutionInvariant, PTL

\* LiveLaunchIsQualified: what is launched is the pinned executable, and it is
\* launched only if it is the one that the second gate found qualified.
THEOREM LaunchQualified == Spec => []LiveLaunchIsQualified
<1>1. IInv => LiveLaunchIsQualified
  BY AttemptsAssumption DEF IInv, AttemptOK, GateOK, LiveLaunchIsQualified
<1> QED
  BY <1>1, ExecutionInvariant, PTL
================================================================================
