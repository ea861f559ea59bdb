-------------------------- MODULE ProjectRuntimeProofs --------------------------
(* Theorems about ProjectRuntime, for every number of runners, tasks, objects, *)
(* engines and generations.                                                    *)
EXTENDS ProjectRuntime, TLAPS

\* Every set of generations has a newest one (what CHOOSE in Newest relies on).
NewestExists ==
    \A S \in SUBSET Generations :
        S # {} => \E g \in S : \A h \in S : h <= g

\* What a run has at hand at each of its places.
JobOK(r) ==
    /\ pc[r] # "idle" => job[r].task \in Task
    /\ pc[r] \notin {"idle", "create"} =>
          /\ job[r].deps \in [Deps[job[r].task] -> Content]
          /\ job[r].base <= Current
    /\ pc[r] = "verify" =>
          /\ job[r].candidate \in Generations
          /\ CandidateKey(r) # NoKey
    /\ pc[r] \in {"attempt", "commit", "publish", "record", "cache"} =>
          job[r].attempt \in 1..Attempts
    /\ pc[r] \in {"commit", "publish", "record", "cache"} =>
          job[r].proposal \in Content
    /\ IF pc[r] \in {"record", "cache"}
       THEN job[r].committed \in 1..MaxGeneration
       ELSE job[r].committed = 0

\* The writer is at "publish", and nothing moved since its freshness checks.
WriterOK(r) ==
    /\ pc[r] = "publish" <=> writer = r
    /\ pc[r] = "publish" =>
          /\ job[r].base = Current
          /\ job[r].deps = DependenciesAt(job[r].task, Current)

\* No generation up to the run's base has a receipt with its key.
NotYet(r) == \A g \in 1..job[r].base : history[g].key # Key(r)

\* A coupled task gets past the lookup only if its key was not accepted before.
FirstOK(r) ==
    job[r].task \in Coupled =>
        /\ pc[r] = "verify" => Exact(r) \/ NotYet(r)
        /\ pc[r] \in {"preflight", "attempt", "commit", "publish"} => NotYet(r)

RunOK(r) == JobOK(r) /\ WriterOK(r) /\ FirstOK(r)
HistoryInv == NewestExists /\ CoupledAtMostOnce /\ CommittedOnItsInputs
IInv == TypeOK /\ HistoryInv /\ (\A r \in Runner : RunOK(r)) /\ FailureCommitsNothing

---------------------------------------------------------------------------------
(* What the operators return                                                   *)

\* Snapshots, dependencies and resources have contents as their values.
LEMMA SnapshotTypes ==
    ASSUME TypeOK
    PROVE  /\ Current \in Nat
           /\ \A g \in 0..Current : ObjectsAt(g) \in [Object -> Content]
           /\ \A t \in Task, g \in 0..Current :
                 DependenciesAt(t, g) \in [Deps[t] -> Content]
           /\ \A t \in Task : ResourcesOf(t) \subseteq Source
<1>1. Current \in Nat
  BY DEF TypeOK, Current
<1>2. InitialContent \in Content
  BY TasksAssumption DEF InitialContent
<1>3. \A g \in 1..Current : history[g] \in Committed
  BY DEF TypeOK, Current
<1>4. \A g \in 0..Current : ObjectsAt(g) \in [Object -> Content]
  BY <1>1, <1>2, <1>3 DEF ObjectsAt, Committed
<1>5. ASSUME NEW t \in Task, NEW g \in 0..Current
      PROVE  DependenciesAt(t, g) \in [Deps[t] -> Content]
  <2>1. Deps[t] \subseteq Object
    BY TasksAssumption
  <2> QED
    BY <1>4, <2>1 DEF DependenciesAt
<1>6. \A t \in Task : ResourcesOf(t) \subseteq Source
  BY DEF ResourcesOf, TypeOK
<1> QED
  BY <1>1, <1>4, <1>5, <1>6

\* The semantic key of a run, once its inputs are known.
LEMMA KeyTypes ==
    ASSUME TypeOK, NEW r \in Runner, JobOK(r), pc[r] \notin {"idle", "create"}
    PROVE  Key(r) \in Keys /\ Key(r).task = job[r].task /\ Key(r).deps = job[r].deps
<1>1. job[r] \in Jobs /\ job[r].task \in Task
  BY DEF TypeOK, JobOK
<1>2. job[r].deps \in Dependencies
  BY <1>1 DEF JobOK, Dependencies
<1>3. job[r].resources \in SUBSET Source
  BY <1>1 DEF Jobs
<1> QED
  BY <1>1, <1>2, <1>3 DEF Key, Keys

\* The engine of an attempt is one of the plan's.
LEMMA EngineTypes ==
    ASSUME NEW a \in 1..Attempts
    PROVE  EngineOf(a) \in 1..Engines
<1>1. Engines \in Nat /\ TechnicalAttempts \in Nat /\ TechnicalAttempts > 0
  BY PlanAssumption
<1> DEFINE q == (a - 1) \div TechnicalAttempts
<1>2. a - 1 \in Nat /\ a - 1 < Engines * TechnicalAttempts
  BY <1>1 DEF Attempts
<1>3. q \in Nat /\ q * TechnicalAttempts <= a - 1
  BY <1>1, <1>2
<1>4. q < Engines
  <2>1. SUFFICES ASSUME q >= Engines PROVE FALSE
    BY <1>1, <1>3
  <2>2. q * TechnicalAttempts >= Engines * TechnicalAttempts
    BY <1>1, <1>3, <2>1
  <2> QED
    BY <1>1, <1>2, <1>3, <2>2
<1> QED
  BY <1>1, <1>3, <1>4 DEF EngineOf

LEMMA AttemptsPositive == Attempts \in Nat \ {0}
<1>1. Engines \in Nat \ {0} /\ TechnicalAttempts \in Nat \ {0}
  BY PlanAssumption
<1> QED
  BY <1>1 DEF Attempts

LEMMA NewestMember ==
    ASSUME NewestExists, NEW S \in SUBSET Generations, S # {}
    PROVE  Newest(S) \in S
  BY DEF NewestExists, Newest

\* One more generation: the earlier ones stay as they are.
LEMMA AppendFacts ==
    ASSUME TypeOK, NewestExists, NEW entry \in Committed,
           history' = Append(history, entry)
    PROVE  /\ history' \in Seq(Committed)
           /\ Current' = Current + 1
           /\ history'[Current + 1] = entry
           /\ \A g \in Generations : history'[g] = history[g]
           /\ \A g \in 0..Current : ObjectsAt(g)' = ObjectsAt(g)
           /\ NewestExists'
<1>1. history \in Seq(Committed) /\ Current \in Nat /\ Current = Len(history)
  BY DEF TypeOK, Current
<1>2. /\ history' \in Seq(Committed)
      /\ Current' = Current + 1
      /\ history'[Current + 1] = entry
      /\ \A g \in Generations : history'[g] = history[g]
  BY <1>1 DEF Generations, Current
<1>3. \A g \in 0..Current : ObjectsAt(g)' = ObjectsAt(g)
  BY <1>1, <1>2 DEF ObjectsAt, InitialContent, Generations
<1>4. NewestExists'
  <2>1. Generations' = 1..(Current + 1) /\ Generations = 1..Current
    BY <1>1, <1>2 DEF Generations, Current
  <2>2. SUFFICES ASSUME NEW S \in SUBSET (1..(Current + 1)), S # {}
                 PROVE  \E g \in S : \A h \in S : h <= g
    BY <2>1 DEF NewestExists
  <2>3. CASE Current + 1 \in S
    BY <1>1, <2>2, <2>3
  <2>4. CASE Current + 1 \notin S
    <3>1. S \in SUBSET Generations
      BY <1>1, <2>1, <2>2, <2>4
    <3> QED
      BY <2>2, <3>1 DEF NewestExists
  <2> QED
    BY <2>3, <2>4
<1> QED
  BY <1>2, <1>3, <1>4

---------------------------------------------------------------------------------
(* What is common to the steps of a run                                        *)

\* A run that did not move, while the history stays or grows.
LEMMA Unmoved ==
    ASSUME TypeOK, NewestExists, NEW s \in Runner, RunOK(s),
           pc'[s] = pc[s], job'[s] = job[s], writer' = s <=> writer = s,
           \/ history' = history
           \/ /\ writer # s
              /\ \E entry \in Committed : history' = Append(history, entry)
    PROVE  RunOK(s)'
<1>1. job[s].base \in Nat /\ job[s] \in Jobs /\ Current \in Nat
  BY DEF TypeOK, Jobs, Current
<1>2. CASE history' = history
  BY <1>2 DEF RunOK, JobOK, WriterOK, FirstOK, NotYet, Exact, Key, CandidateKey,
              Current, Generations, DependenciesAt, ObjectsAt, InitialContent
<1>3. CASE /\ writer # s
           /\ \E entry \in Committed : history' = Append(history, entry)
  <2>1. PICK entry \in Committed : history' = Append(history, entry)
    BY <1>3
  <2>2. /\ Current' = Current + 1
        /\ \A g \in Generations : history'[g] = history[g]
    BY <2>1, AppendFacts
  <2>3. pc[s] # "publish"
    BY <1>3 DEF RunOK, WriterOK
  <2>4. Generations \subseteq Generations' /\ Generations = 1..Current
    BY <1>1, <2>2 DEF Generations, Current
  <2>5. JobOK(s)'
    BY <1>1, <2>2, <2>4 DEF RunOK, JobOK, CandidateKey
  <2>6. WriterOK(s)'
    BY <1>3, <2>3 DEF RunOK, WriterOK
  <2>7. FirstOK(s)'
    <3>1. Key(s)' = Key(s)
      BY DEF Key
    <3>2. NotYet(s) /\ pc[s] \notin {"idle", "create"} => NotYet(s)'
      BY <1>1, <2>2, <2>4, <3>1 DEF NotYet, RunOK, JobOK
    <3>3. pc[s] = "verify" /\ Exact(s) => Exact(s)'
      BY <2>2, <3>1 DEF Exact, CandidateKey, RunOK, JobOK
    <3> QED
      BY <3>2, <3>3 DEF RunOK, FirstOK
  <2> QED
    BY <2>5, <2>6, <2>7 DEF RunOK
<1> QED
  BY <1>2, <1>3

LEMMA SameHistory ==
    ASSUME IInv, history' = history
    PROVE  HistoryInv'
<1>1. /\ Generations' = Generations
      /\ \A t \in Task, g \in Nat : DependenciesAt(t, g)' = DependenciesAt(t, g)
  BY DEF Generations, DependenciesAt, ObjectsAt, InitialContent
<1>2. NewestExists' /\ CoupledAtMostOnce'
  BY <1>1 DEF IInv, HistoryInv, NewestExists, CoupledAtMostOnce
<1>3. CommittedOnItsInputs'
  <2>1. ASSUME NEW g \in Generations, history[g].key # NoKey
        PROVE  history[g].key.task \in Task /\ g - 1 \in Nat
    <3>1. history[g] \in Committed /\ g \in Nat \ {0}
      BY DEF IInv, TypeOK, Generations
    <3>2. history[g].key \in Keys
      BY <2>1, <3>1 DEF Committed
    <3> QED
      BY <3>1, <3>2 DEF Keys
  <2> QED
    BY <1>1, <2>1 DEF IInv, HistoryInv, CommittedOnItsInputs
<1> QED
  BY <1>2, <1>3 DEF HistoryInv

\* A step of r that leaves the history alone.
LEMMA QuietStep ==
    ASSUME IInv, NEW r \in Runner, history' = history,
           \A s \in Runner \ {r} :
               pc'[s] = pc[s] /\ job'[s] = job[s] /\ (writer' = s <=> writer = s),
           TypeOK', RunOK(r)', FailureCommitsNothing'
    PROVE  IInv'
<1>1. HistoryInv'
  BY SameHistory
<1>2. ASSUME NEW s \in Runner \ {r}
      PROVE  RunOK(s)'
  BY Unmoved DEF IInv, HistoryInv
<1> QED
  BY <1>1, <1>2 DEF IInv

\* The end of a run.
LEMMA FinishStep ==
    ASSUME IInv, NEW r \in Runner,
           NEW outcome \in Outcomes, NEW key \in Keys \cup {NoKey},
           NEW generation \in 0..MaxGeneration, NEW origin \in 0..MaxGeneration,
           Finish(r, outcome, key, generation, origin),
           pc[r] \in {"record", "cache"} => outcome \in {"valid", "raised"},
           history' = history, writer' = IF writer = r THEN Nobody ELSE writer,
           cache' \subseteq [signature : [key : Keys, engine : 1..Engines],
                              content : Content],
           accepted' = accepted, source' = source, edits' = edits,
           vanished' \in 0..MaxVanished
    PROVE  IInv'
<1>1. job[r] \in Jobs /\ job[r].committed \in 0..MaxGeneration
  BY DEF IInv, TypeOK, Jobs
<1>2. NoJob \in Jobs
  BY PlanAssumption, BoundsAssumption DEF NoJob, Jobs, Attempts
<1>3. TypeOK'
  <2>1. pc' \in [Runner -> Places]
    BY DEF IInv, TypeOK, Finish, Places
  <2>2. job' \in [Runner -> Jobs]
    BY <1>2 DEF IInv, TypeOK, Finish
  <2>3. result' \in [Runner -> Results]
    BY <1>1 DEF IInv, TypeOK, Finish, Results
  <2>4. writer' \in Runner \cup {Nobody}
    BY DEF IInv, TypeOK
  <2> QED
    BY <2>1, <2>2, <2>3, <2>4 DEF IInv, TypeOK, Current
<1>4. RunOK(r)'
  <2>1. pc'[r] = "idle" /\ job'[r] = NoJob /\ writer' # r
    BY TasksAssumption DEF IInv, TypeOK, Finish
  <2>2. NoTask \notin Coupled
    BY TasksAssumption
  <2> QED
    BY <2>1, <2>2 DEF RunOK, JobOK, WriterOK, FirstOK, NoJob
<1>5. FailureCommitsNothing'
  <2>1. job[r].committed = 0 \/ outcome \in {"valid", "raised"}
    BY DEF IInv, RunOK, JobOK
  <2> QED
    BY <2>1 DEF IInv, TypeOK, Finish, FailureCommitsNothing
<1>6. \A s \in Runner \ {r} :
         pc'[s] = pc[s] /\ job'[s] = job[s] /\ (writer' = s <=> writer = s)
  BY TasksAssumption DEF IInv, TypeOK, Finish
<1> QED
  BY <1>3, <1>4, <1>5, <1>6, QuietStep

\* A step within a run.
LEMMA MoveStep ==
    ASSUME IInv, NEW r \in Runner, NEW to \in Places, NEW next \in Jobs,
           pc' = [pc EXCEPT ![r] = to], job' = [job EXCEPT ![r] = next],
           result' = result \/ result' = [result EXCEPT ![r] = NoResult],
           history' = history, writer' = writer, cache' = cache,
           accepted' = accepted, source' = source, edits' = edits,
           vanished' = vanished, RunOK(r)'
    PROVE  IInv'
<1>1. NoResult \in Results
  BY BoundsAssumption DEF NoResult, Results, Outcomes
<1>2. TypeOK'
  BY <1>1 DEF IInv, TypeOK, Current
<1>3. FailureCommitsNothing'
  BY DEF IInv, TypeOK, FailureCommitsNothing, NoResult
<1> QED
  BY <1>2, <1>3, QuietStep DEF IInv, TypeOK

---------------------------------------------------------------------------------
(* The steps of a run                                                          *)

LEMMA PreparationStep ==
    ASSUME IInv, NEW r \in Runner,
           (\E t \in Task : Run(r, t)) \/ Preparation(r)
    PROVE  IInv'
<1> USE DEF OnlyRun, storeVars, workVars, outsideVars, Goto
<1>1. /\ job[r] \in Jobs /\ RunOK(r) /\ Current \in 0..MaxGeneration
      /\ Coupled \subseteq Task
  BY SnapshotTypes, TasksAssumption DEF IInv, TypeOK
<1>2. ASSUME NEW t \in Task, Run(r, t)
      PROVE  IInv'
  <2> DEFINE next == [job[r] EXCEPT !.task = t]
  <2>1. next \in Jobs
    BY <1>1 DEF Jobs
  <2>2. /\ pc' = [pc EXCEPT ![r] = "create"] /\ pc'[r] = "create"
        /\ job' = [job EXCEPT ![r] = next] /\ job'[r] = next
    BY <1>2 DEF Run, IInv, TypeOK
  <2>3. RunOK(r)'
    BY <1>1, <1>2, <2>2 DEF Run, RunOK, JobOK, WriterOK, FirstOK, Jobs
  <2> QED
    BY <1>2, <2>1, <2>2, <2>3, MoveStep DEF Run, Places
<1>3. CASE LoadCurrent(r)
  <2> DEFINE next == [job[r] EXCEPT !.base = Current,
                                    !.deps = DependenciesAt(job[r].task, Current)]
  <2>1. job[r].task \in Task
    BY <1>1, <1>3 DEF LoadCurrent, RunOK, JobOK
  <2>2. DependenciesAt(job[r].task, Current) \in [Deps[job[r].task] -> Content]
    BY <1>1, <2>1, SnapshotTypes DEF IInv
  <2>3. next \in Jobs
    <3>1. DependenciesAt(job[r].task, Current) \in Dependencies
      BY <2>1, <2>2 DEF Dependencies
    <3> QED
      BY <1>1, <3>1 DEF Jobs
  <2>4. /\ pc' = [pc EXCEPT ![r] = "snapshot"] /\ pc'[r] = "snapshot"
        /\ job' = [job EXCEPT ![r] = next] /\ job'[r] = next
        /\ next.task = job[r].task /\ next.base = Current
        /\ next.deps = DependenciesAt(job[r].task, Current)
        /\ next.committed = job[r].committed
        /\ Current' = Current
    BY <1>1, <1>3 DEF LoadCurrent, IInv, TypeOK, Jobs, Current
  <2>5. RunOK(r)'
    <3>1. pc[r] = "create" /\ writer' = writer
      BY <1>3 DEF LoadCurrent
    <3>2. JobOK(r)'
      <4> HIDE DEF next
      <4> QED
        BY <1>1, <2>1, <2>2, <2>4, <3>1 DEF RunOK, JobOK
    <3>3. WriterOK(r)' /\ FirstOK(r)'
      BY <1>1, <2>4, <3>1 DEF RunOK, WriterOK, FirstOK
    <3> QED
      BY <3>2, <3>3 DEF RunOK
  <2> QED
    BY <1>3, <2>3, <2>4, <2>5, MoveStep DEF LoadCurrent, Places
<1>4. CASE SnapshotResources(r)
  <2> DEFINE next == [job[r] EXCEPT !.resources = ResourcesOf(job[r].task)]
  <2>1. next \in Jobs
    BY <1>1, <1>4, SnapshotTypes DEF SnapshotResources, RunOK, JobOK, Jobs, IInv
  <2>2. /\ pc' = [pc EXCEPT ![r] = "lookup"] /\ pc'[r] = "lookup"
        /\ job' = [job EXCEPT ![r] = next] /\ job'[r] = next
        /\ Current' = Current
    BY <1>1, <1>4 DEF SnapshotResources, IInv, TypeOK, Current
  <2>3. RunOK(r)'
    BY <1>1, <1>4, <2>2 DEF SnapshotResources, RunOK, JobOK, WriterOK, FirstOK, Jobs
  <2> QED
    BY <1>4, <2>1, <2>2, <2>3, MoveStep DEF SnapshotResources, Places
<1>5. CASE LookupMiss(r)
  <2>1. /\ pc' = [pc EXCEPT ![r] = "preflight"] /\ pc'[r] = "preflight"
        /\ job' = [job EXCEPT ![r] = job[r]] /\ job'[r] = job[r]
        /\ Current' = Current
    BY <1>1, <1>5 DEF LookupMiss, IInv, TypeOK, Current
  <2>2. NotYet(r)
    <3>1. WithKey(Key(r)) = {}
      BY <1>5 DEF LookupMiss, Candidates
    <3>2. 1..job[r].base \subseteq Generations
      BY <1>1, <1>5 DEF LookupMiss, RunOK, JobOK, Generations, Current, Jobs
    <3> QED
      BY <3>1, <3>2 DEF WithKey, NotYet
  <2>3. NotYet(r)'
    BY <1>5, <2>1, <2>2 DEF LookupMiss, NotYet, Key
  <2>4. RunOK(r)'
    BY <1>1, <1>5, <2>1, <2>3 DEF LookupMiss, RunOK, JobOK, WriterOK, FirstOK
  <2> QED
    BY <1>1, <1>5, <2>1, <2>4, MoveStep DEF LookupMiss, Places
<1>6. CASE LookupHit(r)
  <2> DEFINE g == Newest(Candidates(r))
             next == [job[r] EXCEPT !.candidate = g]
  <2>1. Candidates(r) \subseteq Generations
    BY DEF Candidates, WithKey, WithIdentity
  <2>2. g \in Candidates(r) /\ g \in Generations /\ g \in 0..MaxGeneration
    <3>1. g \in Candidates(r)
      BY <1>6, <2>1, NewestMember DEF LookupHit, IInv, HistoryInv
    <3> HIDE DEF g
    <3> QED
      BY <1>1, <2>1, <3>1, BoundsAssumption DEF Generations, Current
  <2>3. Key(r) \in Keys
    BY <1>1, <1>6, KeyTypes DEF LookupHit, IInv, RunOK
  <2>4. NoKey \notin Keys
    BY KeysAssumption
  <2>5. history[g].key # NoKey
    BY <2>2, <2>3, <2>4 DEF Candidates, WithKey, WithIdentity
  <2>6. next \in Jobs
    BY <1>1, <2>2 DEF Jobs
  <2>7. /\ pc' = [pc EXCEPT ![r] = "verify"] /\ pc'[r] = "verify"
        /\ job' = [job EXCEPT ![r] = next] /\ job'[r] = next
        /\ Current' = Current /\ next.candidate = g
    BY <1>1, <1>6 DEF LookupHit, IInv, TypeOK, Current, Jobs
  <2>8. Exact(r)' \/ NotYet(r)'
    <3>1. history[g].key = Key(r) \/ WithKey(Key(r)) = {}
      BY <2>2 DEF Candidates, WithKey
    <3>2. Key(r)' = Key(r) /\ job'[r].base = job[r].base
      BY <1>1, <2>7 DEF Key, Jobs
    <3>3. 1..job[r].base \subseteq Generations
      BY <1>1, <1>6 DEF LookupHit, RunOK, JobOK, Generations, Current, Jobs
    <3>4. WithKey(Key(r)) = {} => NotYet(r)'
      BY <1>6, <3>2, <3>3 DEF WithKey, NotYet, LookupHit
    <3>5. history[g].key = Key(r) => Exact(r)'
      BY <1>6, <2>7, <3>2 DEF Exact, CandidateKey, LookupHit
    <3> QED
      BY <3>1, <3>4, <3>5
  <2>9. RunOK(r)'
    BY <1>1, <1>6, <2>2, <2>5, <2>7, <2>8
       DEF LookupHit, RunOK, JobOK, WriterOK, FirstOK, Jobs, CandidateKey, Generations
  <2> QED
    BY <1>6, <2>6, <2>7, <2>9, MoveStep DEF LookupHit, Places
<1> QED
  BY <1>2, <1>3, <1>4, <1>5, <1>6 DEF Preparation

\* A failure outside the lock.
LEMMA FailStep ==
    ASSUME IInv, NEW r \in Runner, NEW outcome \in Outcomes, Fail(r, outcome),
           pc[r] \notin {"publish", "record", "cache"}, OnlyRun
    PROVE  IInv'
<1>1. writer # r
  BY DEF IInv, RunOK, WriterOK
<1>2. 0 \in 0..MaxGeneration
  BY BoundsAssumption
<1> QED
  BY <1>1, <1>2, FinishStep
     DEF Fail, OnlyRun, storeVars, workVars, outsideVars, IInv, TypeOK

LEMMA VerificationStep ==
    ASSUME IInv, NEW r \in Runner, Verification(r)
    PROVE  IInv'
<1> USE DEF OnlyRun, storeVars, workVars, outsideVars
<1>1. /\ job[r] \in Jobs /\ RunOK(r) /\ Current \in 0..MaxGeneration
      /\ pc[r] = "verify" /\ writer # r
  <2>1. pc[r] = "verify"
    BY DEF Verification, Reuse, Reevaluate, RejectAndExecute, RejectAndRefuse,
           VerifyTimeout, Verifying
  <2> QED
    BY <2>1, SnapshotTypes, BoundsAssumption DEF IInv, TypeOK, RunOK, WriterOK
<1>2. CASE Reuse(r)
  <2>1. Key(r) \in Keys
    BY <1>1, KeyTypes DEF IInv, RunOK
  <2>2. LockedReceipt(r) \in Generations
    <3>1. job[r].candidate \in WithKey(CandidateKey(r))
      BY <1>1 DEF RunOK, JobOK, WithKey, CandidateKey
    <3>2. WithKey(CandidateKey(r)) \subseteq Generations
      BY DEF WithKey
    <3> QED
      BY <3>1, <3>2, NewestMember DEF LockedReceipt, IInv, HistoryInv
  <2>3. LockedReceipt(r) \in 0..MaxGeneration
    BY <1>1, <2>2, BoundsAssumption DEF Generations, Current
  <2>4. "valid" \in Outcomes
    BY DEF Outcomes
  <2> QED
    BY <1>1, <1>2, <2>1, <2>3, <2>4, FinishStep DEF Reuse, IInv, TypeOK
<1>3. CASE Reevaluate(r) \/ RejectAndRefuse(r) \/ VerifyTimeout(r)
  BY <1>1, <1>3, FailStep DEF Reevaluate, RejectAndRefuse, VerifyTimeout, Outcomes
<1>4. CASE RejectAndExecute(r)
  <2>1. /\ pc' = [pc EXCEPT ![r] = "preflight"] /\ pc'[r] = "preflight"
        /\ job' = [job EXCEPT ![r] = job[r]] /\ job'[r] = job[r]
        /\ Current' = Current /\ Key(r)' = Key(r)
    BY <1>1, <1>4 DEF RejectAndExecute, IInv, TypeOK, Current, Key
  <2>2. job[r].task \in Coupled => NotYet(r)'
    BY <1>1, <1>4, <2>1 DEF RejectAndExecute, RunOK, FirstOK, NotYet
  <2>3. RunOK(r)'
    BY <1>1, <1>4, <2>1, <2>2
       DEF RejectAndExecute, RunOK, JobOK, WriterOK, FirstOK
  <2> QED
    BY <1>1, <1>4, <2>1, <2>3, MoveStep DEF RejectAndExecute, Places
<1> QED
  BY <1>2, <1>3, <1>4 DEF Verification

\* A step that changes nothing of a job but its attempt and its proposal.
LEMMA AttemptStep ==
    ASSUME IInv, NEW r \in Runner, OnlyRun, UNCHANGED result,
           pc[r] \in {"preflight", "attempt"}, NEW to \in {"attempt", "commit"},
           pc' = [pc EXCEPT ![r] = to],
           NEW a \in 1..Attempts, NEW c \in Content \cup {NoContent},
           to = "commit" => c \in Content,
           job' = [job EXCEPT ![r] = [job[r] EXCEPT !.attempt = a, !.proposal = c]]
    PROVE  IInv'
<1> USE DEF OnlyRun, storeVars, workVars, outsideVars
<1> DEFINE next == [job[r] EXCEPT !.attempt = a, !.proposal = c]
<1>1. job[r] \in Jobs /\ RunOK(r) /\ writer # r
  BY DEF IInv, TypeOK, RunOK, WriterOK
<1>2. /\ next.task = job[r].task /\ next.deps = job[r].deps
      /\ next.resources = job[r].resources /\ next.base = job[r].base
      /\ next.committed = job[r].committed
      /\ next.attempt = a /\ next.proposal = c
  BY <1>1 DEF Jobs
<1>3. next \in Jobs
  <2>1. a \in 0..Attempts
    BY AttemptsPositive
  <2> QED
    BY <1>1, <2>1 DEF Jobs
<1>4. job'[r] = next /\ pc'[r] = to
  BY DEF IInv, TypeOK
<1> HIDE DEF next
<1>5. JobOK(r)'
  BY <1>1, <1>2, <1>4 DEF RunOK, JobOK, Current
<1>6. WriterOK(r)'
  BY <1>1, <1>4 DEF WriterOK
<1>7. FirstOK(r)'
  <2>1. NotYet(r) => NotYet(r)'
    BY <1>2, <1>4 DEF NotYet, Key
  <2> QED
    BY <1>1, <1>2, <1>4, <2>1 DEF RunOK, FirstOK
<1> QED
  BY <1>3, <1>5, <1>6, <1>7, MoveStep DEF RunOK, Places, next

LEMMA ExecutionStep ==
    ASSUME IInv, NEW r \in Runner, Execution(r)
    PROVE  IInv'
<1> USE DEF OnlyRun, storeVars, workVars, outsideVars, Goto
<1>1. job[r] \in Jobs /\ job \in [Runner -> Jobs] /\ RunOK(r)
  BY DEF IInv, TypeOK
<1>2. Attempts \in Nat \ {0}
  BY AttemptsPositive
<1>3. CASE PreflightPass(r)
  <2>1. job' = [job EXCEPT ![r] =
                   [job[r] EXCEPT !.attempt = 1, !.proposal = job[r].proposal]]
    BY <1>1, <1>3 DEF PreflightPass, Jobs
  <2>2. 1 \in 1..Attempts /\ job[r].proposal \in Content \cup {NoContent}
    BY <1>1, <1>2 DEF Jobs
  <2>3. /\ pc[r] = "preflight" /\ pc' = [pc EXCEPT ![r] = "attempt"]
        /\ OnlyRun /\ UNCHANGED result
    BY <1>3 DEF PreflightPass
  <2> QED
    BY <2>1, <2>2, <2>3, AttemptStep
<1>4. CASE PreflightStale(r)
  <2>1. /\ pc' = [pc EXCEPT ![r] = "stale"] /\ pc'[r] = "stale"
        /\ job' = [job EXCEPT ![r] = job[r]] /\ job'[r] = job[r]
        /\ Current' = Current
    BY <1>1, <1>4 DEF PreflightStale, IInv, TypeOK, Current
  <2>2. RunOK(r)'
    BY <1>1, <1>4, <2>1 DEF PreflightStale, RunOK, JobOK, WriterOK, FirstOK
  <2> QED
    BY <1>1, <1>4, <2>1, <2>2, MoveStep DEF PreflightStale, Places
<1>5. CASE PreflightRefuse(r) \/ PlanExhausted(r) \/ EngineFailsClosed(r)
           \/ BundleBroken(r) \/ PrepareFails(r)
  <2>1. PICK outcome \in Outcomes : Fail(r, outcome)
    BY <1>5 DEF PreflightRefuse, PlanExhausted, EngineFailsClosed, BundleBroken,
                PrepareFails, Outcomes
  <2>2. pc[r] \notin {"publish", "record", "cache"} /\ OnlyRun
    BY <1>5 DEF PreflightRefuse, PlanExhausted, EngineFailsClosed, BundleBroken,
                PrepareFails
  <2> QED
    BY <2>1, <2>2, FailStep
<1>6. CASE CacheHit(r) \/ EngineAnswers(r)
  <2>1. PICK c \in Content : Propose(r, c)
    BY <1>6 DEF CacheHit, EngineAnswers, IInv, TypeOK
  <2>2. job[r].attempt \in 1..Attempts
    BY <1>1, <2>1 DEF Propose, RunOK, JobOK
  <2>3. job' = [job EXCEPT ![r] =
                   [job[r] EXCEPT !.attempt = job[r].attempt, !.proposal = c]]
    BY <1>1, <2>1 DEF Propose, Jobs
  <2>4. OnlyRun
    BY <1>6 DEF CacheHit, EngineAnswers
  <2> QED
    BY <2>1, <2>2, <2>3, <2>4, AttemptStep DEF Propose
<1>7. CASE EngineFailsOver(r)
  <2>1. job[r].attempt \in 1..Attempts /\ job[r].attempt + 1 \in 1..Attempts
    BY <1>1, <1>2, <1>7 DEF EngineFailsOver, RunOK, JobOK
  <2>2. job' = [job EXCEPT ![r] = [job[r] EXCEPT !.attempt = job[r].attempt + 1,
                                                 !.proposal = job[r].proposal]]
    BY <1>1, <1>7 DEF EngineFailsOver, Jobs
  <2>3. /\ pc[r] = "attempt" /\ pc' = [pc EXCEPT ![r] = "attempt"]
        /\ OnlyRun /\ UNCHANGED result
    BY <1>7 DEF EngineFailsOver, IInv, TypeOK
  <2>4. job[r].proposal \in Content \cup {NoContent}
    BY <1>1 DEF Jobs
  <2> QED
    BY <2>1, <2>2, <2>3, <2>4, AttemptStep
<1> QED
  BY <1>3, <1>4, <1>5, <1>6, <1>7 DEF Execution

---------------------------------------------------------------------------------
(* Commits                                                                     *)

\* What Commit appends for a run that passed its freshness checks.
LEMMA PromotionStep ==
    ASSUME IInv, NEW r \in Runner, pc[r] = "publish", Current < MaxGeneration,
           Commit(Key(r), job[r].base, job[r].task, job[r].proposal)
    PROVE  /\ \E entry \in Committed : history' = Append(history, entry)
           /\ Current' = Current + 1
           /\ history' \in Seq(Committed)
           /\ HistoryInv'
<1>1. /\ job[r] \in Jobs /\ RunOK(r) /\ Current \in Nat
      /\ job[r].task \in Task /\ job[r].proposal \in Content
      /\ job[r].base = Current /\ job[r].base \in 0..MaxGeneration
      /\ job[r].deps = DependenciesAt(job[r].task, Current)
  BY SnapshotTypes DEF IInv, TypeOK, RunOK, JobOK, WriterOK, Jobs
<1>2. Key(r) \in Keys /\ Key(r).task = job[r].task /\ Key(r).deps = job[r].deps
  BY <1>1, KeyTypes DEF IInv, RunOK
<1> DEFINE entry ==
        [objects |-> Promoted(job[r].task, job[r].proposal), key |-> Key(r),
         base |-> job[r].base, content |-> job[r].proposal,
         changed |-> {o \in Writes[job[r].task] :
                         ObjectsAt(Current)[o] # job[r].proposal}]
<1>3. history' = Append(history, entry)
  BY DEF Commit
<1>4. entry \in Committed
  <2>1. Promoted(job[r].task, job[r].proposal) \in [Object -> Content]
    <3>1. ObjectsAt(Current) \in [Object -> Content]
      BY <1>1, SnapshotTypes DEF IInv
    <3> QED
      BY <1>1, <3>1 DEF Promoted
  <2>2. Writes[job[r].task] \subseteq Object
    BY <1>1, TasksAssumption
  <2> QED
    BY <1>1, <1>2, <2>1, <2>2 DEF Committed
<1>5. /\ entry.key = Key(r) /\ entry.base = job[r].base
  OBVIOUS
<1> HIDE DEF entry
<1>6. /\ history' \in Seq(Committed)
      /\ Current' = Current + 1
      /\ history'[Current + 1] = entry
      /\ \A g \in Generations : history'[g] = history[g]
      /\ \A g \in 0..Current : ObjectsAt(g)' = ObjectsAt(g)
      /\ NewestExists'
  BY <1>3, <1>4, AppendFacts DEF IInv, HistoryInv
<1>7. Generations = 1..Current /\ Generations' = 1..(Current + 1)
  BY <1>6 DEF Generations, Current
\* No earlier receipt has the key: the run's base is the current generation.
<1>8. job[r].task \in Coupled => \A g \in Generations : history[g].key # Key(r)
  BY <1>1, <1>7 DEF RunOK, FirstOK, NotYet
<1>9. CoupledAtMostOnce'
  <2>1. SUFFICES ASSUME NEW g \in 1..(Current + 1), NEW h \in 1..(Current + 1),
                        history'[g].key = history'[h].key,
                        history'[g].key # NoKey,
                        history'[g].key.task \in Coupled
                 PROVE  g = h
    BY <1>7 DEF CoupledAtMostOnce
  <2>2. CASE g \in Generations /\ h \in Generations
    BY <1>6, <2>1, <2>2 DEF IInv, HistoryInv, CoupledAtMostOnce
  <2>3. CASE g = Current + 1 /\ h \in Generations
    BY <1>2, <1>5, <1>6, <1>8, <2>1, <2>3
  <2>4. CASE g \in Generations /\ h = Current + 1
    BY <1>2, <1>5, <1>6, <1>8, <2>1, <2>4
  <2>5. CASE g = Current + 1 /\ h = Current + 1
    BY <2>5
  <2> QED
    BY <1>1, <1>7, <2>2, <2>3, <2>4, <2>5
<1>10. \A t \in Task, g \in 0..Current : DependenciesAt(t, g)' = DependenciesAt(t, g)
  BY <1>6 DEF DependenciesAt
<1>11. CommittedOnItsInputs'
  <2>1. SUFFICES ASSUME NEW g \in 1..(Current + 1), (history[g].key # NoKey)'
                 PROVE  (/\ history[g].base = g - 1
                         /\ history[g].key.deps =
                               DependenciesAt(history[g].key.task, g - 1))'
    BY <1>7 DEF CommittedOnItsInputs
  <2>2. CASE g \in Generations
    <3>1. history[g] \in Committed /\ g - 1 \in 0..Current
      BY <1>1, <1>7, <2>2 DEF IInv, TypeOK, Generations
    <3>2. history[g].key \in Keys
      BY <1>6, <2>1, <2>2, <3>1 DEF Committed
    <3>3. history[g].key.task \in Task
      BY <3>2 DEF Keys
    <3>4. /\ history[g].base = g - 1
          /\ history[g].key.deps = DependenciesAt(history[g].key.task, g - 1)
      BY <1>6, <2>1, <2>2 DEF IInv, HistoryInv, CommittedOnItsInputs
    <3>5. DependenciesAt(history[g].key.task, g - 1)' =
              DependenciesAt(history[g].key.task, g - 1)
      BY <1>6, <1>10, <2>2, <3>1, <3>3 DEF DependenciesAt
    <3> QED
      BY <1>6, <2>2, <3>4, <3>5
  <2>3. CASE g = Current + 1
    <3>1. DependenciesAt(history[g].key.task, g - 1)' =
              DependenciesAt(job[r].task, Current)
      BY <1>1, <1>2, <1>5, <1>6, <1>10, <2>3 DEF DependenciesAt
    <3> QED
      BY <1>1, <1>2, <1>5, <1>6, <2>3, <3>1
  <2> QED
    BY <1>1, <1>7, <2>2, <2>3
<1> QED
  BY <1>3, <1>4, <1>6, <1>9, <1>11 DEF HistoryInv

\* The run that published goes on or ends; the other runs did not move.
LEMMA PublishedStep ==
    ASSUME IInv, NEW r \in Runner, pc[r] = "publish", Current < MaxGeneration,
           Commit(Key(r), job[r].base, job[r].task, job[r].proposal),
           NEW to \in Places, NEW next \in Jobs,
           pc' = [pc EXCEPT ![r] = to], job' = [job EXCEPT ![r] = next],
           result' \in [Runner -> Results], writer' = Nobody,
           UNCHANGED <<workVars, outsideVars>>,
           RunOK(r)', FailureCommitsNothing'
    PROVE  IInv'
<1>1. writer = r /\ Current \in Nat
  BY SnapshotTypes DEF IInv, RunOK, WriterOK
<1>2. TypeOK'
  <2>1. history' \in Seq(Committed) /\ Current' <= MaxGeneration
    BY <1>1, PromotionStep, BoundsAssumption
  <2> QED
    BY <2>1 DEF IInv, TypeOK, workVars, outsideVars
<1>3. ASSUME NEW s \in Runner \ {r}
      PROVE  RunOK(s)'
  <2>1. pc'[s] = pc[s] /\ job'[s] = job[s]
    BY DEF IInv, TypeOK
  <2>2. writer # s /\ writer' # s
    BY <1>1, TasksAssumption
  <2> QED
    BY <2>1, <2>2, PromotionStep, Unmoved DEF IInv, HistoryInv
<1> QED
  BY <1>2, <1>3, PromotionStep DEF IInv

LEMMA PublishStep ==
    ASSUME IInv, NEW r \in Runner, Publish(r) \/ PublishUnknown(r)
    PROVE  IInv'
<1>1. /\ pc[r] = "publish" /\ Current < MaxGeneration
      /\ Commit(Key(r), job[r].base, job[r].task, job[r].proposal)
      /\ writer' = Nobody /\ UNCHANGED <<workVars, outsideVars>>
  BY DEF Publish, PublishUnknown, Goto
<1>2. /\ job[r] \in Jobs /\ RunOK(r) /\ Nobody # r /\ Current \in Nat
      /\ result[r] \in Results
  BY SnapshotTypes, TasksAssumption DEF IInv, TypeOK
<1>3. Current + 1 \in 1..MaxGeneration /\ Current' = Current + 1
  BY <1>1, <1>2, PromotionStep, BoundsAssumption
<1>4. CASE Publish(r)
  <2> DEFINE next == [job[r] EXCEPT !.committed = Current + 1]
  <2>1. next \in Jobs
    <3>1. Current + 1 \in 0..MaxGeneration
      BY <1>3, BoundsAssumption
    <3> QED
      BY <1>2, <3>1 DEF Jobs
  <2>2. /\ pc' = [pc EXCEPT ![r] = "record"] /\ pc'[r] = "record"
        /\ job' = [job EXCEPT ![r] = next] /\ job'[r] = next
        /\ result' = result
    BY <1>2, <1>4 DEF Publish, Goto, IInv, TypeOK
  <2>3. /\ next.task = job[r].task /\ next.deps = job[r].deps
        /\ next.base = job[r].base /\ next.attempt = job[r].attempt
        /\ next.proposal = job[r].proposal /\ next.committed = Current + 1
        /\ job[r].base \in Nat
    BY <1>2 DEF Jobs
  <2> HIDE DEF next
  <2>4. RunOK(r)'
    BY <1>1, <1>2, <1>3, <2>2, <2>3 DEF RunOK, JobOK, WriterOK, FirstOK
  <2>5. FailureCommitsNothing' /\ result' \in [Runner -> Results] /\ "record" \in Places
    BY <2>2 DEF IInv, TypeOK, FailureCommitsNothing, Places
  <2> QED
    BY <1>1, <2>1, <2>2, <2>4, <2>5, PublishedStep
<1>5. CASE PublishUnknown(r)
  <2>0. PICK outcome \in {"transaction", "internal"} :
            result' = [result EXCEPT ![r] =
                [NoResult EXCEPT !.outcome = outcome, !.committed = Current + 1]]
    BY <1>5 DEF PublishUnknown
  <2> DEFINE res == [NoResult EXCEPT !.outcome = outcome, !.committed = Current + 1]
  <2>1. NoJob \in Jobs
    BY PlanAssumption, BoundsAssumption, AttemptsPositive DEF NoJob, Jobs
  <2>2. /\ pc' = [pc EXCEPT ![r] = "idle"] /\ pc'[r] = "idle"
        /\ job' = [job EXCEPT ![r] = NoJob] /\ job'[r] = NoJob
        /\ result' = [result EXCEPT ![r] = res]
    BY <1>5, <2>0 DEF PublishUnknown, IInv, TypeOK
  <2>3. res \in Results /\ res.outcome \in {"transaction", "internal"}
    <3>1. NoResult \in Results
      BY BoundsAssumption DEF NoResult, Results, Outcomes
    <3>2. outcome \in Outcomes /\ Current + 1 \in 0..MaxGeneration
      BY <1>3, BoundsAssumption DEF Outcomes
    <3> QED
      BY <3>1, <3>2 DEF Results
  <2> HIDE DEF res
  <2>4. RunOK(r)'
    BY <1>1, <1>2, <2>2, TasksAssumption DEF RunOK, JobOK, WriterOK, FirstOK, NoJob
  <2>5. FailureCommitsNothing' /\ result' \in [Runner -> Results] /\ "idle" \in Places
    BY <2>2, <2>3 DEF IInv, TypeOK, FailureCommitsNothing, Places
  <2> QED
    BY <1>1, <2>1, <2>2, <2>4, <2>5, PublishedStep
<1> QED
  BY <1>4, <1>5

LEMMA AcceptanceStep ==
    ASSUME IInv, NEW r \in Runner, Acceptance(r)
    PROVE  IInv'
<1> USE DEF OnlyRun, storeVars, workVars, outsideVars, Goto
<1>1. /\ job[r] \in Jobs /\ RunOK(r) /\ Nobody # r /\ Current \in Nat
      /\ Current <= MaxGeneration
  BY SnapshotTypes, TasksAssumption DEF IInv, TypeOK
<1>2. CASE BeginCommit(r)
  <2>1. /\ pc' = [pc EXCEPT ![r] = "publish"] /\ pc'[r] = "publish"
        /\ job' = job /\ result' = result /\ history' = history
        /\ writer = Nobody /\ writer' = r
        /\ Current' = Current /\ Key(r)' = Key(r)
    BY <1>2 DEF BeginCommit, IInv, TypeOK, Current, Key
  <2>2. TypeOK' /\ FailureCommitsNothing'
    BY <1>2, <2>1 DEF BeginCommit, IInv, TypeOK, FailureCommitsNothing, Places
  <2>3. JobOK(r)'
    BY <1>1, <1>2, <2>1 DEF BeginCommit, RunOK, JobOK
  <2>4. WriterOK(r)'
    <3>1. job[r].base = Current /\ job[r].deps = DependenciesAt(job[r].task, Current)
      BY <1>2 DEF BeginCommit, Fresh
    <3>2. DependenciesAt(job[r].task, Current)' = DependenciesAt(job[r].task, Current)
      BY <2>1 DEF DependenciesAt, ObjectsAt, InitialContent
    <3> QED
      BY <2>1, <3>1, <3>2 DEF WriterOK
  <2>5. FirstOK(r)'
    <3>1. NotYet(r)' = NotYet(r)
      BY <2>1 DEF NotYet
    <3> QED
      BY <1>1, <1>2, <2>1, <3>1 DEF BeginCommit, RunOK, FirstOK
  <2>6. \A s \in Runner \ {r} :
            pc'[s] = pc[s] /\ job'[s] = job[s] /\ (writer' = s <=> writer = s)
    BY <2>1, TasksAssumption DEF IInv, TypeOK
  <2> QED
    BY <2>1, <2>2, <2>3, <2>4, <2>5, <2>6, QuietStep DEF RunOK
<1>3. CASE CommitStale(r)
  <2>1. /\ pc' = [pc EXCEPT ![r] = "stale"] /\ pc'[r] = "stale"
        /\ job' = [job EXCEPT ![r] = job[r]] /\ job'[r] = job[r]
        /\ Current' = Current
    BY <1>1, <1>3 DEF CommitStale, IInv, TypeOK, Current
  <2>2. RunOK(r)'
    BY <1>1, <1>3, <2>1 DEF CommitStale, RunOK, JobOK, WriterOK, FirstOK
  <2> QED
    BY <1>1, <1>3, <2>1, <2>2, MoveStep DEF CommitStale, Places
<1>4. CASE CommitTimeout(r)
  BY <1>4, FailStep DEF CommitTimeout, Outcomes
<1>5. CASE PublishFails(r)
  <2>1. PICK outcome \in Outcomes : Fail(r, outcome)
    BY <1>5 DEF PublishFails, Outcomes
  <2>2. writer = r /\ pc[r] = "publish" /\ 0 \in 0..MaxGeneration
    BY <1>1, <1>5, BoundsAssumption DEF PublishFails, RunOK, WriterOK
  <2> QED
    BY <1>5, <2>1, <2>2, FinishStep DEF PublishFails, Fail, IInv, TypeOK
<1>6. CASE Publish(r) \/ PublishUnknown(r)
  BY <1>6, PublishStep
<1>7. CASE Accept(r)
  <2>1. /\ pc' = [pc EXCEPT ![r] = "cache"] /\ pc'[r] = "cache" /\ pc[r] = "record"
        /\ job' = job /\ result' = result /\ history' = history /\ writer' = writer
        /\ Current' = Current
    BY <1>7 DEF Accept, IInv, TypeOK, Current
  <2>2. RunOK(r)'
    BY <1>1, <2>1 DEF RunOK, JobOK, WriterOK, FirstOK
  <2>3. TypeOK' /\ FailureCommitsNothing'
    <3>1. job[r].committed \in 1..MaxGeneration /\ job[r].proposal \in Content
      BY <1>1, <2>1 DEF RunOK, JobOK
    <3> QED
      BY <1>7, <2>1, <3>1 DEF Accept, IInv, TypeOK, FailureCommitsNothing, Places
  <2> QED
    BY <2>1, <2>2, <2>3, QuietStep DEF IInv, TypeOK
<1>8. CASE CachePut(r)
  <2>1. pc[r] = "cache" /\ writer # r
    BY <1>1, <1>8 DEF CachePut, RunOK, WriterOK
  <2>2. Key(r) \in Keys
    BY <1>1, <2>1, KeyTypes DEF IInv, RunOK
  <2>3. /\ job[r].committed \in 0..MaxGeneration /\ job[r].proposal \in Content
        /\ job[r].attempt \in 1..Attempts
    BY <1>1, <2>1, BoundsAssumption DEF RunOK, JobOK
  <2>4. EngineOf(job[r].attempt) \in 1..Engines
    BY <2>3, EngineTypes
  <2>5. cache' \subseteq [signature : [key : Keys, engine : 1..Engines],
                           content : Content]
    BY <1>8, <2>2, <2>3, <2>4 DEF CachePut, Signature, IInv, TypeOK
  <2>6. "valid" \in Outcomes
    BY DEF Outcomes
  <2> QED
    BY <1>8, <2>1, <2>2, <2>3, <2>5, <2>6, FinishStep DEF CachePut, IInv, TypeOK
<1>9. CASE Rebuild(r)
  <2> DEFINE next == [NoJob EXCEPT !.task = job[r].task,
                                   !.rebuilds = job[r].rebuilds + 1]
  <2>1. job[r].rebuilds + 1 \in 0..MaxStaleRebuilds /\ job[r].task \in Task
    BY <1>1, <1>9, PlanAssumption DEF Rebuild, MayRebuild, RunOK, JobOK, Jobs
  <2>2. NoJob \in Jobs
    BY PlanAssumption, BoundsAssumption, AttemptsPositive DEF NoJob, Jobs
  <2>3. next \in Jobs
    BY <2>1, <2>2 DEF Jobs
  <2>4. /\ pc' = [pc EXCEPT ![r] = "create"] /\ pc'[r] = "create" /\ pc[r] = "stale"
        /\ job' = [job EXCEPT ![r] = next] /\ job'[r] = next
        /\ next.task = job[r].task /\ next.committed = 0
    BY <1>9 DEF Rebuild, IInv, TypeOK, NoJob
  <2> HIDE DEF next
  <2>5. RunOK(r)'
    BY <1>1, <1>9, <2>1, <2>4 DEF Rebuild, RunOK, JobOK, WriterOK, FirstOK
  <2> QED
    BY <1>9, <2>3, <2>4, <2>5, MoveStep DEF Rebuild, Places
<1>10. CASE ReturnStale(r)
  BY <1>10, FailStep DEF ReturnStale, Outcomes
<1> QED
  BY <1>2, <1>3, <1>4, <1>5, <1>6, <1>7, <1>8, <1>9, <1>10 DEF Acceptance

---------------------------------------------------------------------------------
(* The world around the runs                                                   *)

LEMMA VanishStep ==
    ASSUME IInv, NEW r \in Runner, Vanish(r)
    PROVE  IInv'
<1>1. vanished' \in 0..MaxVanished /\ 0 \in 0..MaxGeneration
  BY BoundsAssumption DEF Vanish, IInv, TypeOK
<1>2. "raised" \in Outcomes
  BY DEF Outcomes
<1> QED
  BY <1>1, <1>2, FinishStep DEF Vanish, Fail, workVars, IInv, TypeOK

LEMMA EditSourceStep ==
    ASSUME IInv, EditSource
    PROVE  IInv'
<1> USE DEF EditSource, runVars, storeVars, workVars
<1>1. TypeOK'
  BY BoundsAssumption DEF IInv, TypeOK, Current
<1>2. \A s \in Runner : RunOK(s)'
  BY Unmoved DEF IInv, HistoryInv
<1>3. FailureCommitsNothing'
  BY DEF IInv, FailureCommitsNothing
<1> QED
  BY <1>1, <1>2, <1>3, SameHistory DEF IInv

\* A commit without a receipt.
LEMMA OtherCommitStep ==
    ASSUME IInv, OtherCommit
    PROVE  IInv'
<1> USE DEF OtherCommit, runVars, workVars, outsideVars
<1>1. PICK o \in Object, c \in Content :
          history' = Append(history,
              [objects |-> [ObjectsAt(Current) EXCEPT ![o] = c], key |-> NoKey,
               base |-> Current, content |-> c, changed |-> {}])
  OBVIOUS
<1> DEFINE entry == [objects |-> [ObjectsAt(Current) EXCEPT ![o] = c], key |-> NoKey,
                     base |-> Current, content |-> c, changed |-> {}]
<1>2. Current \in Nat /\ Current < MaxGeneration /\ Current \in 0..MaxGeneration
  BY SnapshotTypes, BoundsAssumption DEF IInv
<1>3. entry \in Committed
  <2>1. ObjectsAt(Current) \in [Object -> Content]
    BY <1>2, SnapshotTypes DEF IInv
  <2> QED
    BY <1>2, <2>1 DEF Committed
<1>4. entry.key = NoKey
  OBVIOUS
<1> HIDE DEF entry
<1>5. history' = Append(history, entry)
  BY <1>1 DEF entry
<1>6. /\ history' \in Seq(Committed)
      /\ Current' = Current + 1
      /\ history'[Current + 1] = entry
      /\ \A g \in Generations : history'[g] = history[g]
      /\ \A g \in 0..Current : ObjectsAt(g)' = ObjectsAt(g)
      /\ NewestExists'
  BY <1>3, <1>5, AppendFacts DEF IInv, HistoryInv
<1>7. Generations = 1..Current /\ Generations' = 1..(Current + 1)
  BY <1>6 DEF Generations, Current
<1>8. \A g \in Generations' : history'[g].key # NoKey => g \in Generations
  <2>1. history'[Current + 1].key = NoKey
    BY <1>4, <1>6
  <2>2. \A g \in Generations' : g = Current + 1 \/ g \in Generations
    BY <1>2, <1>7
  <2> QED
    BY <2>1, <2>2
<1>9. CoupledAtMostOnce'
  BY <1>6, <1>8 DEF IInv, HistoryInv, CoupledAtMostOnce
<1>10. CommittedOnItsInputs'
  <2>1. SUFFICES ASSUME NEW g \in Generations, (history[g].key # NoKey)'
                 PROVE  (/\ history[g].base = g - 1
                         /\ history[g].key.deps =
                               DependenciesAt(history[g].key.task, g - 1))'
    BY <1>8 DEF CommittedOnItsInputs
  <2>2. g - 1 \in 0..Current
    BY <1>2, <1>7
  <2>3. /\ history[g].base = g - 1
        /\ history[g].key.deps = DependenciesAt(history[g].key.task, g - 1)
    BY <1>6, <2>1 DEF IInv, HistoryInv, CommittedOnItsInputs
  <2>4. DependenciesAt(history[g].key.task, g - 1)' =
            DependenciesAt(history[g].key.task, g - 1)
    BY <1>6, <2>2 DEF DependenciesAt
  <2> QED
    BY <1>6, <2>3, <2>4
<1>11. TypeOK'
  BY <1>2, <1>6, BoundsAssumption DEF IInv, TypeOK
<1>12. ASSUME NEW s \in Runner
       PROVE  RunOK(s)'
  <2>1. writer # s /\ writer' = writer
    BY TasksAssumption
  <2> QED
    BY <1>3, <1>5, <2>1, Unmoved DEF IInv, HistoryInv
<1>13. FailureCommitsNothing'
  BY DEF IInv, FailureCommitsNothing
<1> QED
  BY <1>6, <1>9, <1>10, <1>11, <1>12, <1>13 DEF IInv, HistoryInv

---------------------------------------------------------------------------------
(* The invariant and the theorems                                              *)

LEMMA InitIInv == Init => IInv
<1> SUFFICES ASSUME Init PROVE IInv
  OBVIOUS
<1> USE DEF Init
<1>1. Current = 0 /\ Generations = {}
  BY DEF Current, Generations
<1>2. NoJob \in Jobs /\ NoResult \in Results
  BY PlanAssumption, BoundsAssumption, AttemptsPositive
     DEF NoJob, Jobs, NoResult, Results, Outcomes
<1>3. TypeOK
  BY <1>1, <1>2, BoundsAssumption DEF TypeOK, Places
<1>4. HistoryInv
  BY <1>1 DEF HistoryInv, NewestExists, CoupledAtMostOnce, CommittedOnItsInputs
<1>5. ASSUME NEW r \in Runner
      PROVE  RunOK(r)
  BY TasksAssumption DEF RunOK, JobOK, WriterOK, FirstOK, NoJob
<1>6. FailureCommitsNothing
  BY DEF FailureCommitsNothing, NoResult
<1> QED
  BY <1>3, <1>4, <1>5, <1>6 DEF IInv

LEMMA StutterStep ==
    ASSUME IInv, UNCHANGED vars
    PROVE  IInv'
<1> USE DEF vars, runVars, storeVars, workVars, outsideVars
<1>1. TypeOK' /\ FailureCommitsNothing'
  BY DEF IInv, TypeOK, FailureCommitsNothing, Current
<1>2. \A s \in Runner : RunOK(s)'
  BY Unmoved DEF IInv, HistoryInv
<1>3. HistoryInv'
  BY SameHistory
<1> QED
  BY <1>1, <1>2, <1>3 DEF IInv

LEMMA NextIInv == IInv /\ [Next]_vars => IInv'
<1> SUFFICES ASSUME IInv, [Next]_vars PROVE IInv'
  OBVIOUS
<1>1. ASSUME NEW r \in Runner, (\E t \in Task : Run(r, t)) \/ Progress(r) \/ Vanish(r)
      PROVE  IInv'
  BY <1>1, PreparationStep, VerificationStep, ExecutionStep, AcceptanceStep, VanishStep
     DEF Progress
<1>2. CASE UNCHANGED vars
  BY <1>2, StutterStep
<1> QED
  BY <1>1, <1>2, EditSourceStep, OtherCommitStep DEF Next

LEMMA Invariance == Spec => []IInv
  BY InitIInv, NextIInv, PTL DEF Spec

\* Every variable of the runtimes and of their project keeps its type: attempts
\* and rebuilds stay within RuntimeConfig's limits through every fallback of
\* _execute and every new task of run().
THEOREM TypeCorrect == Spec => []TypeOK
<1>1. IInv => TypeOK
  BY DEF IInv
<1> QED
  BY <1>1, Invariance, PTL

\* However many runtimes race, whichever of their processes die and whatever
\* generations other writers add, no two generations hold a receipt of the same
\* key of a coupled task: the lookup before execution, commit()'s comparison of
\* CURRENT under the lock and the refusal to repeat an accepted artifact suffice.
THEOREM CoupledOnce == Spec => []CoupledAtMostOnce
<1>1. IInv => CoupledAtMostOnce
  BY DEF IInv, HistoryInv
<1> QED
  BY <1>1, Invariance, PTL

\* An accepted task was built on the generation right before its own and on that
\* generation's dependencies: commit() re-reads both under the writer lock.
THEOREM CommittedOnInputs == Spec => []CommittedOnItsInputs
<1>1. IInv => CommittedOnItsInputs
  BY DEF IInv, HistoryInv
<1> QED
  BY <1>1, Invariance, PTL

\* A run that run() reports as stale, refused or exhausted has committed nothing:
\* neither a fallback nor a rebuild ever follows a commit, also not one that the
\* store could not confirm.
THEOREM FailuresCommitNothing == Spec => []FailureCommitsNothing
<1>1. IInv => FailureCommitsNothing
  BY DEF IInv
<1> QED
  BY <1>1, Invariance, PTL
---------------------------------------------------------------------------------
(* Receipts, results and records.  What a run reports, what it leaves in the   *)
(* cache and in its accepted/ directory, and why it repeats a task at all, is  *)
(* about generations that exist: these never change, so a run needs to be      *)
(* right only at the step that reports, records or commits.                    *)

\* What a receipt changed is in place in its own generation.
ChangesApplied == \A g \in Generations : Intact(g, ObjectsAt(g))

\* The generations up to b that hold a receipt of the key, and why one more may
\* follow b: what the newest of them wrote is no longer in place there.
EarlierOf(key, b) == {g \in WithKey(key) : g <= b}
RestoresAt(key, b) ==
    EarlierOf(key, b) # {} => ~Intact(Newest(EarlierOf(key, b)), ObjectsAt(b))
Restores ==
    \A h \in Generations :
        /\ history[h].key # NoKey
        /\ history[h].key.task \notin Coupled \cup Sourced
        => RestoresAt(history[h].key, h - 1)

\* A run's manifest is what its base generation says.
InputsOK(r) ==
    /\ pc[r] \notin {"idle", "create"} =>
          job[r].deps = DependenciesAt(job[r].task, job[r].base)
    /\ pc[r] \notin {"idle", "create", "snapshot"} /\ job[r].task \notin Sourced =>
          job[r].resources = {}

\* While nothing is committed after its base, an ordinary task gets past the
\* verification only if there is something to restore.
RestoreOK(r) ==
    job[r].task \notin Coupled \cup Sourced /\ job[r].base = Current =>
        /\ pc[r] = "verify" => Exact(r) \/ EarlierOf(Key(r), job[r].base) = {}
        /\ pc[r] \in {"preflight", "attempt", "commit", "publish"} =>
              RestoresAt(Key(r), job[r].base)

\* What is about to be recorded and reported is committed.
CommittedOK(r) ==
    pc[r] \in {"record", "cache"} =>
        /\ job[r].committed \in WithKey(Key(r))
        /\ history[job[r].committed].content = job[r].proposal

ReportOK(r) ==
    result[r].outcome = "valid" =>
        /\ result[r].origin \in 1..result[r].generation
        /\ result[r].generation \in Generations
        /\ history[result[r].origin].key = result[r].key
        /\ Intact(result[r].origin, ObjectsAt(result[r].generation))
        /\ result[r].committed = 0 =>
               DependenciesAt(result[r].key.task, result[r].generation) =
                   result[r].key.deps

TraceOK(r) == InputsOK(r) /\ RestoreOK(r) /\ CommittedOK(r) /\ ReportOK(r)
TraceInv ==
    /\ ChangesApplied /\ Restores /\ RecordsAreCommitted
    /\ \A r \in Runner : TraceOK(r)

\* What every step does to the history.
Growth ==
    /\ Current \in Nat /\ Generations = 1..Current
    /\ Generations \subseteq Generations'
    /\ history' = history \/ Current' = Current + 1
    /\ \A g \in Generations : history'[g] = history[g]
    /\ \A g \in 0..Current : ObjectsAt(g)' = ObjectsAt(g)

\* Whoever commits: a run that is publishing, or a writer without a receipt.
Publishes(r) ==
    /\ pc[r] = "publish" /\ Current < MaxGeneration
    /\ Commit(Key(r), job[r].base, job[r].task, job[r].proposal)
    /\ UNCHANGED workVars

\* Whatever else happens leaves history, cache and accepted/ alone.
Quiet == UNCHANGED <<history, workVars>>

LEMMA WhoWrites ==
    ASSUME [Next]_vars
    PROVE  \/ Quiet \/ OtherCommit
           \/ \E r \in Runner : Publishes(r) \/ Accept(r) \/ CachePut(r)
<1> USE DEF OnlyRun, storeVars, Quiet
<1>1. ASSUME NEW r \in Runner, (\E t \in Task : Run(r, t)) \/ Preparation(r)
      PROVE  Quiet
  BY <1>1 DEF Run, Preparation, LoadCurrent, SnapshotResources, LookupMiss, LookupHit
<1>2. ASSUME NEW r \in Runner, Verification(r)
      PROVE  Quiet
  BY <1>2 DEF Verification, Reuse, Reevaluate, RejectAndExecute, RejectAndRefuse,
              VerifyTimeout
<1>3. ASSUME NEW r \in Runner, Execution(r)
      PROVE  Quiet
  BY <1>3 DEF Execution, PreflightPass, PreflightStale, PreflightRefuse, CacheHit,
              EngineAnswers, EngineFailsOver, PlanExhausted, EngineFailsClosed,
              BundleBroken, PrepareFails
<1>4. ASSUME NEW r \in Runner, Acceptance(r)
      PROVE  Quiet \/ Publishes(r) \/ Accept(r) \/ CachePut(r)
  <2>1. CASE Publish(r) \/ PublishUnknown(r)
    BY <2>1 DEF Publish, PublishUnknown, Publishes, Goto
  <2> QED
    BY <1>4, <2>1 DEF Acceptance, BeginCommit, CommitStale, CommitTimeout, PublishFails,
                      Rebuild, ReturnStale
<1>5. ASSUME NEW r \in Runner, Vanish(r)
      PROVE  Quiet
  BY <1>5 DEF Vanish
<1>6. CASE UNCHANGED vars \/ EditSource
  BY <1>6 DEF vars, EditSource
<1> QED
  BY <1>1, <1>2, <1>3, <1>4, <1>5, <1>6 DEF Next, Progress

\* Of these steps only the commits move the history.
LEMMA WhoCommits ==
    ASSUME [Next]_vars
    PROVE  history' = history \/ OtherCommit \/ \E r \in Runner : Publishes(r)
<1>1. \A r \in Runner : Accept(r) \/ CachePut(r) => history' = history
  BY DEF Accept, CachePut, storeVars
<1> QED
  BY <1>1, WhoWrites DEF Quiet

\* What a writer without a receipt appends.
LEMMA OtherGeneration ==
    ASSUME IInv, OtherCommit
    PROVE  \E entry \in Committed :
               /\ history' = Append(history, entry)
               /\ entry.key = NoKey /\ entry.changed = {}
<1>1. PICK o \in Object, c \in Content :
          history' = Append(history,
              [objects |-> [ObjectsAt(Current) EXCEPT ![o] = c], key |-> NoKey,
               base |-> Current, content |-> c, changed |-> {}])
  BY DEF OtherCommit
<1>2. Current \in 0..MaxGeneration /\ ObjectsAt(Current) \in [Object -> Content]
  BY SnapshotTypes, BoundsAssumption DEF OtherCommit, IInv
<1>3. [objects |-> [ObjectsAt(Current) EXCEPT ![o] = c], key |-> NoKey,
       base |-> Current, content |-> c, changed |-> {}] \in Committed
  BY <1>2 DEF Committed
<1> QED
  BY <1>1, <1>3

LEMMA HistoryGrows ==
    ASSUME IInv, [Next]_vars
    PROVE  Growth
<1>1. Current \in Nat /\ Generations = 1..Current
  BY DEF IInv, TypeOK, Current, Generations
<1>2. CASE history' = history
  BY <1>1, <1>2 DEF Growth, Current, Generations, ObjectsAt, InitialContent
<1>3. CASE \E entry \in Committed : history' = Append(history, entry)
  <2>1. PICK entry \in Committed : history' = Append(history, entry)
    BY <1>3
  <2>2. /\ Current' = Current + 1
        /\ \A g \in Generations : history'[g] = history[g]
        /\ \A g \in 0..Current : ObjectsAt(g)' = ObjectsAt(g)
    BY <2>1, AppendFacts DEF IInv, HistoryInv
  <2>3. Generations' = 1..(Current + 1)
    BY <2>2 DEF Generations, Current
  <2> QED
    BY <1>1, <2>2, <2>3 DEF Growth
<1>4. ASSUME NEW r \in Runner, Publishes(r)
      PROVE  \E entry \in Committed : history' = Append(history, entry)
  BY <1>4, PromotionStep DEF Publishes
<1> QED
  BY <1>2, <1>3, <1>4, WhoCommits, OtherGeneration

\* What a run would restore on its base does not change while it works on it.
LEMMA RestoresStay ==
    ASSUME IInv, Growth, NEW r \in Runner, pc[r] \notin {"idle", "create"},
           Key(r)' = Key(r), job'[r].base = job[r].base
    PROVE  /\ EarlierOf(Key(r), job[r].base)' = EarlierOf(Key(r), job[r].base)
           /\ RestoresAt(Key(r), job[r].base)' <=> RestoresAt(Key(r), job[r].base)
<1>1. job[r].base \in 0..Current
  BY DEF IInv, TypeOK, Jobs, RunOK, JobOK, Growth
<1> DEFINE E == EarlierOf(Key(r), job[r].base)
<1>2. E' = E
  <2>1. \A g \in Generations' : g <= job[r].base => g \in Generations
    BY <1>1 DEF Growth, Generations, Current
  <2> QED
    BY <2>1 DEF Growth, EarlierOf, WithKey
<1>3. E = {} \/ Newest(E) \in Generations
  <2>1. E \subseteq Generations
    BY DEF EarlierOf, WithKey
  <2> QED
    BY <2>1, NewestMember DEF IInv, HistoryInv
<1>4. Newest(E)' = Newest(E)
  BY <1>2 DEF Newest
<1>5. E = {} \/ (Intact(Newest(E), ObjectsAt(job[r].base))' <=>
                     Intact(Newest(E), ObjectsAt(job[r].base)))
  <2>1. CASE E # {}
    <3>1. /\ history'[Newest(E)'] = history[Newest(E)]
          /\ ObjectsAt(job[r].base)' = ObjectsAt(job[r].base)
      <4>1. ObjectsAt(job[r].base)' = ObjectsAt(job[r].base)
        BY <1>1 DEF Growth, ObjectsAt, InitialContent
      <4> QED
        BY <1>3, <1>4, <2>1, <4>1 DEF Growth
    <3> HIDE DEF E
    <3> QED
      BY <3>1 DEF Intact
  <2> QED
    BY <2>1
<1> QED
  BY <1>2, <1>5 DEF RestoresAt

\* A report that was given.
LEMMA ReportStays ==
    ASSUME Growth, NEW r \in Runner, ReportOK(r), result'[r] = result[r]
    PROVE  ReportOK(r)'
<1>1. SUFFICES ASSUME result[r].outcome = "valid" PROVE ReportOK(r)'
  BY DEF ReportOK
<1> DEFINE g == result[r].generation
           o == result[r].origin
<1>2. g \in Generations /\ g \in 0..Current /\ o \in 1..g /\ o \in Generations
  BY <1>1 DEF Growth, ReportOK
<1>3. /\ Intact(o, ObjectsAt(g)) /\ history[o].key = result[r].key
      /\ result[r].committed = 0 =>
             DependenciesAt(result[r].key.task, g) = result[r].key.deps
  BY <1>1 DEF ReportOK
<1>4. Intact(o, ObjectsAt(g))' /\ history'[o].key = result[r].key
  BY <1>2, <1>3 DEF Growth, Intact
<1>5. DependenciesAt(result[r].key.task, g)' = DependenciesAt(result[r].key.task, g)
  BY <1>2 DEF Growth, DependenciesAt
<1>6. g \in Generations' /\ g' = g /\ o' = o
  BY <1>2 DEF Growth
<1> QED
  BY <1>2, <1>3, <1>4, <1>5, <1>6 DEF ReportOK

\* A run that did not move.
LEMMA TraceStays ==
    ASSUME IInv, Growth, NEW s \in Runner, TraceOK(s),
           pc'[s] = pc[s], job'[s] = job[s], result'[s] = result[s]
    PROVE  TraceOK(s)'
<1>1. Key(s)' = Key(s) /\ job[s].base \in Nat /\ RunOK(s)
  BY DEF Key, IInv, TypeOK, Jobs
<1>2. InputsOK(s)'
  <2>1. pc[s] \notin {"idle", "create"} =>
            /\ job[s].base \in 0..Current
            /\ DependenciesAt(job[s].task, job[s].base) =
                   DependenciesAt(job[s].task, job[s].base)'
    <3>1. pc[s] \notin {"idle", "create"} => job[s].base \in 0..Current
      BY <1>1 DEF Growth, RunOK, JobOK
    <3> QED
      BY <3>1 DEF Growth, DependenciesAt
  <2> QED
    BY <2>1 DEF TraceOK, InputsOK
<1>3. RestoreOK(s)'
  <2>1. CASE Current' = Current + 1
    <3>1. pc[s] \notin {"idle", "create"} => job[s].base # Current'
      BY <1>1, <2>1 DEF Growth, RunOK, JobOK
    <3> QED
      BY <3>1 DEF RestoreOK
  <2>2. CASE history' = history
    <3>1. Exact(s)' = Exact(s) /\ Current' = Current
      BY <1>1, <2>2 DEF Exact, CandidateKey, Current
    <3> QED
      BY <1>1, <3>1, RestoresStay DEF TraceOK, RestoreOK
  <2> QED
    BY <2>1, <2>2 DEF Growth
<1>4. CommittedOK(s)'
  BY <1>1 DEF Growth, TraceOK, CommittedOK, WithKey
<1>5. ReportOK(s)'
  BY ReportStays DEF TraceOK
<1> QED
  BY <1>2, <1>3, <1>4, <1>5 DEF TraceOK

\* A run that ends without a valid result, or begins: nothing is left to say of it.
LEMMA NothingToTrace ==
    ASSUME NEW r \in Runner, pc'[r] \in {"idle", "create"}, result'[r].outcome # "valid"
    PROVE  TraceOK(r)'
  BY DEF TraceOK, InputsOK, RestoreOK, CommittedOK, ReportOK

LEMMA FailureTraced ==
    ASSUME IInv, NEW r \in Runner, NEW outcome, outcome # "valid", Fail(r, outcome)
    PROVE  TraceOK(r)'
<1>1. pc'[r] = "idle" /\ result'[r].outcome = outcome
  BY DEF Fail, Finish, IInv, TypeOK
<1> QED
  BY <1>1, NothingToTrace

\* A step of a task on its way to its commit.
LEMMA OnItsWay ==
    ASSUME IInv, Growth, NEW r \in Runner, TraceOK(r), history' = history,
           pc[r] \in {"preflight", "attempt", "commit"},
           pc'[r] \in {"attempt", "commit", "publish"},
           result'[r] = result[r],
           job'[r].task = job[r].task, job'[r].base = job[r].base,
           job'[r].deps = job[r].deps, job'[r].resources = job[r].resources
    PROVE  TraceOK(r)'
<1>1. Key(r)' = Key(r) /\ Current' = Current /\ Generations' = Generations
  BY DEF Key, Current, Generations
<1>2. InputsOK(r)'
  BY DEF TraceOK, InputsOK, DependenciesAt, ObjectsAt, InitialContent
<1>3. RestoreOK(r)'
  BY <1>1, RestoresStay DEF TraceOK, RestoreOK
<1>4. CommittedOK(r)'
  BY DEF CommittedOK
<1>5. ReportOK(r)'
  BY ReportStays DEF TraceOK
<1> QED
  BY <1>2, <1>3, <1>4, <1>5 DEF TraceOK

\* A task that is found stale.
LEMMA StaleTraced ==
    ASSUME Growth, NEW r \in Runner, TraceOK(r), RunOK(r), history' = history,
           pc[r] \in {"preflight", "commit"}, pc'[r] = "stale",
           result' = result, job'[r] = job[r]
    PROVE  TraceOK(r)'
<1>1. InputsOK(r)'
  BY DEF TraceOK, InputsOK, DependenciesAt, ObjectsAt, InitialContent
<1>2. ReportOK(r)'
  BY ReportStays DEF TraceOK
<1> QED
  BY <1>1, <1>2 DEF TraceOK, RestoreOK, CommittedOK

---------------------------------------------------------------------------------
(* The steps of a run, with what it knows of the history                       *)

\* The newest receipt of a key is one of them.
LEMMA NewestOfKey ==
    ASSUME IInv, NEW key, WithKey(key) # {}
    PROVE  Newest(WithKey(key)) \in WithKey(key) /\ WithKey(key) \subseteq Generations
<1>1. WithKey(key) \subseteq Generations
  BY DEF WithKey
<1> QED
  BY <1>1, NewestMember DEF IInv, HistoryInv

LEMMA PreparationTraced ==
    ASSUME IInv, Growth, TraceInv, NEW r \in Runner,
           (\E t \in Task : Run(r, t)) \/ Preparation(r)
    PROVE  TraceOK(r)'
<1> USE DEF OnlyRun, storeVars, Goto
<1>1. TraceOK(r) /\ job[r] \in Jobs /\ RunOK(r)
  BY DEF TraceInv, IInv, TypeOK
<1>2. CASE \E t \in Task : Run(r, t)
  <2>1. pc'[r] = "create" /\ result'[r] = NoResult
    BY <1>2 DEF Run, IInv, TypeOK
  <2> QED
    BY <2>1, NothingToTrace DEF NoResult
<1>3. result' = result => ReportOK(r)'
  BY <1>1, ReportStays DEF TraceOK
<1>4. CASE LoadCurrent(r)
  <2>1. /\ pc'[r] = "snapshot" /\ history' = history /\ result' = result
        /\ job'[r].base = Current /\ job'[r].task = job[r].task
        /\ job'[r].deps = DependenciesAt(job[r].task, Current)
    BY <1>1, <1>4 DEF LoadCurrent, IInv, TypeOK, Jobs
  <2>2. InputsOK(r)'
    BY <2>1 DEF InputsOK, DependenciesAt, ObjectsAt, InitialContent
  <2> QED
    BY <1>3, <2>1, <2>2 DEF TraceOK, RestoreOK, CommittedOK
<1>5. CASE SnapshotResources(r)
  <2>1. /\ pc[r] = "snapshot" /\ pc'[r] = "lookup" /\ history' = history /\ result' = result
        /\ job'[r].base = job[r].base /\ job'[r].task = job[r].task
        /\ job'[r].deps = job[r].deps
        /\ job'[r].resources = ResourcesOf(job[r].task)
    BY <1>1, <1>5 DEF SnapshotResources, IInv, TypeOK, Jobs
  <2>2. InputsOK(r)'
    BY <1>1, <2>1 DEF TraceOK, InputsOK, ResourcesOf, DependenciesAt, ObjectsAt,
                      InitialContent
  <2> QED
    BY <1>3, <2>1, <2>2 DEF TraceOK, RestoreOK, CommittedOK
<1>6. CASE LookupMiss(r)
  <2>1. /\ pc[r] = "lookup" /\ pc'[r] = "preflight" /\ history' = history
        /\ result' = result /\ job'[r] = job[r] /\ Key(r)' = Key(r)
    BY <1>1, <1>6 DEF LookupMiss, IInv, TypeOK, Key
  <2>2. EarlierOf(Key(r), job[r].base) = {}
    BY <1>6 DEF LookupMiss, Candidates, EarlierOf, WithKey
  <2>3. RestoreOK(r)'
    BY <2>1, <2>2, RestoresStay DEF RestoreOK, RestoresAt
  <2>4. InputsOK(r)'
    BY <1>1, <2>1 DEF TraceOK, InputsOK, DependenciesAt, ObjectsAt, InitialContent
  <2> QED
    BY <1>3, <2>1, <2>3, <2>4 DEF TraceOK, CommittedOK
<1>7. CASE LookupHit(r)
  <2> DEFINE g == Newest(Candidates(r))
  <2>1. /\ pc[r] = "lookup" /\ pc'[r] = "verify" /\ history' = history
        /\ result' = result /\ Key(r)' = Key(r)
        /\ job'[r].base = job[r].base /\ job'[r].task = job[r].task
        /\ job'[r].deps = job[r].deps /\ job'[r].resources = job[r].resources
        /\ job'[r].candidate = g
    BY <1>1, <1>7 DEF LookupHit, IInv, TypeOK, Key, Jobs
  <2>4. RestoreOK(r)'
    <3>1. CASE WithKey(Key(r)) # {}
      <4>1. g \in WithKey(Key(r))
        BY <3>1, NewestOfKey DEF Candidates
      <4>2. Exact(r)'
        BY <2>1, <4>1 DEF Exact, CandidateKey, WithKey
      <4> QED
        BY <2>1, <4>2 DEF RestoreOK
    <3>2. CASE WithKey(Key(r)) = {}
      <4>1. EarlierOf(Key(r), job[r].base)' = {}
        BY <2>1, <3>2, RestoresStay DEF EarlierOf
      <4> QED
        BY <2>1, <4>1 DEF RestoreOK
    <3> QED
      BY <3>1, <3>2
  <2>5. InputsOK(r)'
    BY <1>1, <2>1 DEF TraceOK, InputsOK, DependenciesAt, ObjectsAt, InitialContent
  <2> QED
    BY <1>3, <2>1, <2>4, <2>5 DEF TraceOK, CommittedOK
<1> QED
  BY <1>2, <1>4, <1>5, <1>6, <1>7 DEF Preparation

LEMMA VerificationTraced ==
    ASSUME IInv, Growth, TraceInv, NEW r \in Runner, Verification(r)
    PROVE  TraceOK(r)'
<1> USE DEF OnlyRun, storeVars, Verifying
<1>1. TraceOK(r) /\ job[r] \in Jobs /\ RunOK(r)
  BY DEF TraceInv, IInv, TypeOK
<1>2. CASE Reuse(r)
  <2>1. /\ pc[r] = "verify" /\ Exact(r) /\ CandidateKey(r) = Key(r)
        /\ job[r].task \in Task
        /\ DependenciesAt(job[r].task, Current) = job[r].deps
        /\ Intact(LockedReceipt(r), ObjectsAt(Current))
    BY <1>1, <1>2 DEF Reuse, Reusable, Exact, RunOK, JobOK
  <2>2. /\ pc'[r] = "idle" /\ history' = history /\ job'[r] = NoJob
        /\ result'[r] = [outcome |-> "valid", key |-> Key(r), generation |-> Current,
                         origin |-> LockedReceipt(r), committed |-> job[r].committed]
    BY <1>2 DEF Reuse, Finish, IInv, TypeOK
  <2>3. /\ Key(r).task = job[r].task /\ Key(r).deps = job[r].deps
    BY DEF Key
  <2>4. job[r].candidate \in WithKey(Key(r))
    BY <1>1, <2>1 DEF RunOK, JobOK, WithKey, CandidateKey
  <2>5. LockedReceipt(r) \in Generations /\ history[LockedReceipt(r)].key = Key(r)
    <3>1. LockedReceipt(r) \in WithKey(Key(r))
      BY <2>1, <2>4, NewestOfKey DEF LockedReceipt
    <3> QED
      BY <3>1 DEF WithKey
  <2>6. LockedReceipt(r) \in 1..Current /\ Current \in Generations
    BY <2>5 DEF Growth
  <2>7. ReportOK(r)'
    <3> DEFINE res == [outcome |-> "valid", key |-> Key(r), generation |-> Current,
                       origin |-> LockedReceipt(r), committed |-> job[r].committed]
    <3>1. /\ res.origin = LockedReceipt(r) /\ res.generation = Current
          /\ res.key = Key(r)
      OBVIOUS
    <3> HIDE DEF res
    <3>2. result'[r] = res
      BY <2>2 DEF res
    <3>3. /\ res.origin \in 1..res.generation /\ res.generation \in Generations
          /\ history[res.origin].key = res.key
          /\ Intact(res.origin, ObjectsAt(res.generation))
          /\ DependenciesAt(res.key.task, res.generation) = res.key.deps
      BY <2>1, <2>3, <2>5, <2>6, <3>1
    <3> QED
      BY <2>2, <3>2, <3>3 DEF ReportOK, Intact, DependenciesAt, ObjectsAt,
                              InitialContent, Generations
  <2> QED
    BY <2>2, <2>7 DEF TraceOK, InputsOK, RestoreOK, CommittedOK
<1>3. CASE Reevaluate(r) \/ RejectAndRefuse(r) \/ VerifyTimeout(r)
  BY <1>3, FailureTraced DEF Reevaluate, RejectAndRefuse, VerifyTimeout
\* An ordinary task that repeats: its receipt is not intact, since nothing else
\* that the verification looks at can have changed while base is CURRENT.
<1>4. CASE RejectAndExecute(r)
  <2>1. /\ pc[r] = "verify" /\ pc'[r] = "preflight" /\ history' = history
        /\ result' = result /\ job'[r] = job[r] /\ Key(r)' = Key(r) /\ Current' = Current
        /\ ~Reusable(r)
    BY <1>4 DEF RejectAndExecute, IInv, TypeOK, Key, Current
  <2>2. ASSUME job[r].task \notin Coupled \cup Sourced, job[r].base = Current
        PROVE  RestoresAt(Key(r), job[r].base)
    <3>1. CASE EarlierOf(Key(r), job[r].base) = {}
      BY <3>1 DEF RestoresAt
    <3>2. CASE Exact(r)
      <4>1. /\ DependenciesAt(job[r].task, Current) = job[r].deps
            /\ ResourcesOf(job[r].task) = job[r].resources
        BY <1>1, <2>1, <2>2 DEF TraceOK, InputsOK, ResourcesOf
      <4>2. ~Intact(LockedReceipt(r), ObjectsAt(Current))
        BY <2>1, <3>2, <4>1 DEF Reusable
      <4>3. LockedReceipt(r) = Newest(EarlierOf(Key(r), job[r].base))
        <5>1. WithKey(Key(r)) = EarlierOf(Key(r), job[r].base)
          BY <2>2 DEF Growth, EarlierOf, WithKey
        <5> QED
          BY <3>2, <5>1 DEF LockedReceipt, Exact
      <4> QED
        BY <2>2, <4>2, <4>3 DEF RestoresAt
    <3> QED
      BY <1>1, <2>1, <2>2, <3>1, <3>2 DEF TraceOK, RestoreOK
  <2>3. RestoreOK(r)'
    BY <2>1, <2>2, RestoresStay DEF RestoreOK
  <2>4. InputsOK(r)'
    BY <1>1, <2>1 DEF TraceOK, InputsOK, DependenciesAt, ObjectsAt, InitialContent
  <2>5. ReportOK(r)'
    BY <1>1, <2>1, ReportStays DEF TraceOK
  <2> QED
    BY <2>1, <2>3, <2>4, <2>5 DEF TraceOK, CommittedOK
<1> QED
  BY <1>2, <1>3, <1>4 DEF Verification

LEMMA ExecutionTraced ==
    ASSUME IInv, Growth, TraceInv, NEW r \in Runner, Execution(r)
    PROVE  TraceOK(r)'
<1> USE DEF OnlyRun, storeVars, Goto
<1>1. TraceOK(r) /\ job[r] \in Jobs /\ RunOK(r)
  BY DEF TraceInv, IInv, TypeOK
<1>2. CASE PreflightPass(r) \/ CacheHit(r) \/ EngineAnswers(r) \/ EngineFailsOver(r)
  <2>1. /\ history' = history /\ result'[r] = result[r]
        /\ pc[r] \in {"preflight", "attempt"} /\ pc'[r] \in {"attempt", "commit"}
        /\ job'[r].task = job[r].task /\ job'[r].base = job[r].base
        /\ job'[r].deps = job[r].deps /\ job'[r].resources = job[r].resources
    BY <1>1, <1>2 DEF PreflightPass, CacheHit, EngineAnswers, EngineFailsOver, Propose,
                      IInv, TypeOK, Jobs
  <2> QED
    BY <1>1, <2>1, OnItsWay
<1>3. CASE PreflightStale(r)
  <2>1. /\ pc[r] = "preflight" /\ pc'[r] = "stale" /\ history' = history
        /\ result' = result /\ job'[r] = job[r]
    BY <1>3 DEF PreflightStale, IInv, TypeOK
  <2> QED
    BY <1>1, <2>1, StaleTraced
<1>4. CASE PreflightRefuse(r) \/ PlanExhausted(r) \/ EngineFailsClosed(r)
           \/ BundleBroken(r) \/ PrepareFails(r)
  BY <1>4, FailureTraced
     DEF PreflightRefuse, PlanExhausted, EngineFailsClosed, BundleBroken, PrepareFails
<1> QED
  BY <1>2, <1>3, <1>4 DEF Execution

\* The generation that a run publishes.
LEMMA PublishedGeneration ==
    ASSUME IInv, NEW r \in Runner, pc[r] = "publish", Current < MaxGeneration,
           Commit(Key(r), job[r].base, job[r].task, job[r].proposal)
    PROVE  LET g == Current + 1
           IN /\ g \in Generations' /\ Generations' = 1..g
              /\ history'[g].key = Key(r) /\ history'[g].content = job[r].proposal
              /\ \A o \in history'[g].changed :
                     history'[g].objects[o] = history'[g].content
<1> DEFINE entry ==
        [objects |-> Promoted(job[r].task, job[r].proposal), key |-> Key(r),
         base |-> job[r].base, content |-> job[r].proposal,
         changed |-> {o \in Writes[job[r].task] :
                         ObjectsAt(Current)[o] # job[r].proposal}]
<1>1. Current \in Nat /\ history \in Seq(Committed) /\ Current = Len(history)
  BY DEF IInv, TypeOK, Current
<1>2. history' = Append(history, entry)
  BY DEF Commit
<1>3. /\ entry.key = Key(r) /\ entry.content = job[r].proposal
      /\ \A o \in entry.changed : entry.objects[o] = entry.content
  <2>1. job[r].task \in Task
    BY DEF IInv, RunOK, JobOK
  <2>2. Writes[job[r].task] \subseteq Object
    BY <2>1, TasksAssumption
  <2> QED
    BY <2>2 DEF Promoted
<1>4. entry \in Committed
  <2>1. /\ Key(r) \in Keys /\ job[r].task \in Task /\ job[r].proposal \in Content
        /\ job[r].base \in 0..MaxGeneration
    BY KeyTypes DEF IInv, TypeOK, RunOK, JobOK, Jobs
  <2>2. ObjectsAt(Current) \in [Object -> Content] /\ Writes[job[r].task] \subseteq Object
    BY <1>1, <2>1, SnapshotTypes, TasksAssumption DEF IInv
  <2> QED
    BY <2>1, <2>2 DEF Committed, Promoted
<1> HIDE DEF entry
<1>5. history'[Current + 1] = entry /\ Len(history') = Current + 1
  BY <1>1, <1>2, <1>4
<1> QED
  BY <1>1, <1>3, <1>5 DEF Generations

LEMMA AcceptanceTraced ==
    ASSUME IInv, Growth, TraceInv, NEW r \in Runner, Acceptance(r)
    PROVE  TraceOK(r)'
<1> USE DEF OnlyRun, storeVars, Goto
<1>1. TraceOK(r) /\ job[r] \in Jobs /\ RunOK(r)
  BY DEF TraceInv, IInv, TypeOK
<1>2. CASE BeginCommit(r)
  <2>1. /\ history' = history /\ result' = result /\ job' = job
        /\ pc[r] = "commit" /\ pc'[r] = "publish"
    BY <1>2 DEF BeginCommit, IInv, TypeOK
  <2> QED
    BY <1>1, <2>1, OnItsWay
<1>3. CASE CommitStale(r)
  <2>1. /\ pc[r] = "commit" /\ pc'[r] = "stale" /\ history' = history
        /\ result' = result /\ job'[r] = job[r]
    BY <1>3 DEF CommitStale, IInv, TypeOK
  <2> QED
    BY <1>1, <2>1, StaleTraced
<1>4. CASE CommitTimeout(r) \/ PublishFails(r) \/ ReturnStale(r)
  BY <1>4, FailureTraced DEF CommitTimeout, PublishFails, ReturnStale
<1>5. CASE Publish(r)
  <2>1. /\ pc[r] = "publish" /\ pc'[r] = "record" /\ result' = result
        /\ job'[r].task = job[r].task /\ job'[r].base = job[r].base
        /\ job'[r].deps = job[r].deps /\ job'[r].resources = job[r].resources
        /\ job'[r].proposal = job[r].proposal /\ job'[r].committed = Current + 1
        /\ Key(r)' = Key(r)
    BY <1>1, <1>5 DEF Publish, IInv, TypeOK, Jobs, Key
  <2>2. CommittedOK(r)'
    BY <1>5, <2>1, PublishedGeneration DEF Publish, CommittedOK, WithKey
  <2>3. InputsOK(r)'
    <3>1. job[r].base \in 0..Current
      BY <1>1, <2>1 DEF Growth, RunOK, JobOK, Jobs
    <3> QED
      BY <1>1, <2>1, <3>1 DEF Growth, TraceOK, InputsOK, DependenciesAt
  <2>4. ReportOK(r)'
    BY <1>1, <2>1, ReportStays DEF TraceOK
  <2> QED
    BY <2>1, <2>2, <2>3, <2>4 DEF TraceOK, RestoreOK
<1>6. CASE PublishUnknown(r)
  <2>1. pc'[r] = "idle" /\ result'[r].outcome \in {"transaction", "internal"}
    BY <1>6 DEF PublishUnknown, NoResult, IInv, TypeOK
  <2> QED
    BY <2>1, NothingToTrace
<1>7. CASE Accept(r)
  <2>1. /\ pc[r] = "record" /\ pc'[r] = "cache" /\ history' = history
        /\ result' = result /\ job' = job /\ Key(r)' = Key(r)
    BY <1>7 DEF Accept, IInv, TypeOK, Key
  <2>2. CommittedOK(r)'
    BY <1>1, <2>1 DEF TraceOK, CommittedOK, WithKey, Generations
  <2>3. InputsOK(r)'
    BY <1>1, <2>1 DEF TraceOK, InputsOK, DependenciesAt, ObjectsAt, InitialContent
  <2>4. ReportOK(r)'
    BY <1>1, <2>1, ReportStays DEF TraceOK
  <2> QED
    BY <2>1, <2>2, <2>3, <2>4 DEF TraceOK, RestoreOK
<1>8. CASE CachePut(r)
  <2> DEFINE g == job[r].committed
             res == [outcome |-> "valid", key |-> Key(r), generation |-> g,
                     origin |-> g, committed |-> g]
  <2>1. /\ pc[r] = "cache" /\ pc'[r] = "idle" /\ history' = history
        /\ result'[r] = res
    BY <1>8 DEF CachePut, Finish, IInv, TypeOK
  <2>2. g \in Generations /\ history[g].key = Key(r)
    BY <1>1, <2>1 DEF TraceOK, CommittedOK, WithKey
  <2>3. g \in Nat /\ g # 0 /\ g \in 1..g /\ g \in 0..Current
    BY <2>2 DEF Growth
  <2>4. Intact(g, ObjectsAt(g))
    BY <2>2 DEF TraceInv, ChangesApplied
  <2>5. /\ res.origin = g /\ res.generation = g /\ res.key = Key(r) /\ res.committed = g
    OBVIOUS
  <2> HIDE DEF g, res
  <2>6. ReportOK(r)'
    BY <2>1, <2>2, <2>3, <2>4, <2>5
       DEF ReportOK, Intact, ObjectsAt, InitialContent, Generations
  <2> QED
    BY <2>1, <2>6 DEF TraceOK, InputsOK, RestoreOK, CommittedOK
<1>9. CASE Rebuild(r)
  <2>1. pc'[r] = "create" /\ history' = history /\ result' = result
    BY <1>9 DEF Rebuild, IInv, TypeOK
  <2>2. ReportOK(r)'
    BY <1>1, <2>1, ReportStays DEF TraceOK
  <2> QED
    BY <2>1, <2>2 DEF TraceOK, InputsOK, RestoreOK, CommittedOK
<1> QED
  BY <1>2, <1>3, <1>4, <1>5, <1>6, <1>7, <1>8, <1>9 DEF Acceptance

---------------------------------------------------------------------------------
(* The history and the records                                                 *)

\* A generation's key is the run's, or what it was.
LEMMA RestoresOfKey ==
    ASSUME IInv, Growth, NEW g \in Generations', g - 1 \in 0..Current,
           NEW key, history'[g].key = key, RestoresAt(key, g - 1)
    PROVE  RestoresAt(history[g].key, g - 1)'
<1>1. EarlierOf(history[g].key, g - 1)' = EarlierOf(key, g - 1)
  <2>1. \A h \in Generations' : h <= g - 1 => h \in Generations
    BY DEF Growth, Generations, Current
  <2> QED
    BY <2>1 DEF Growth, EarlierOf, WithKey
<1> DEFINE E == EarlierOf(history[g].key, g - 1)
           n == Newest(EarlierOf(key, g - 1))
<1>2. Newest(E)' = n
  BY <1>1 DEF Newest
<1>3. CASE EarlierOf(key, g - 1) # {}
  <2>1. n \in Generations
    <3>1. EarlierOf(key, g - 1) \subseteq Generations
      BY DEF EarlierOf, WithKey
    <3> QED
      BY <1>3, <3>1, NewestMember DEF IInv, HistoryInv
  <2>2. ~Intact(n, ObjectsAt(g - 1))
    BY <1>3 DEF RestoresAt
  <2> HIDE DEF n, E
  <2>3. history'[n] = history[n] /\ ObjectsAt(g - 1)' = ObjectsAt(g - 1)
    BY <2>1 DEF Growth, ObjectsAt, InitialContent
  <2>4. ~Intact(Newest(E), ObjectsAt(g - 1))'
    BY <1>2, <2>2, <2>3 DEF Intact
  <2> QED
    BY <2>4 DEF RestoresAt, E
<1>4. CASE EarlierOf(key, g - 1) = {}
  BY <1>1, <1>4 DEF RestoresAt
<1> QED
  BY <1>3, <1>4

LEMMA HistoryTraced ==
    ASSUME IInv, TraceInv, Growth, [Next]_vars
    PROVE  ChangesApplied' /\ Restores'
<1>1. ASSUME NEW g \in Generations
      PROVE  /\ Intact(g, ObjectsAt(g))'
             /\ (/\ history[g].key # NoKey
                 /\ history[g].key.task \notin Coupled \cup Sourced
                 => RestoresAt(history[g].key, g - 1))'
  <2>1. g \in 0..Current /\ g - 1 \in 0..Current /\ history'[g] = history[g]
    BY DEF Growth
  <2>2. Intact(g, ObjectsAt(g))'
    BY <2>1 DEF TraceInv, ChangesApplied, Growth, Intact
  <2>3. /\ history[g].key # NoKey /\ history[g].key.task \notin Coupled \cup Sourced
        => RestoresAt(history[g].key, g - 1)'
    BY <2>1, RestoresOfKey DEF TraceInv, Restores, Growth
  <2> QED
    BY <2>1, <2>2, <2>3
<1>2. CASE history' = history
  <2>1. Generations' = Generations
    BY <1>2 DEF Generations
  <2> QED
    BY <1>1, <2>1 DEF ChangesApplied, Restores
<1>3. CASE OtherCommit
  <2>1. PICK entry \in Committed :
            /\ history' = Append(history, entry)
            /\ entry.key = NoKey /\ entry.changed = {}
    BY <1>3, OtherGeneration
  <2>2. /\ history'[Current + 1].changed = {} /\ history'[Current + 1].key = NoKey
        /\ Generations' = 1..(Current + 1)
    BY <2>1, AppendFacts DEF IInv, HistoryInv, Generations, Current
  <2> QED
    BY <1>1, <2>2 DEF Growth, ChangesApplied, Restores, Intact
<1>4. ASSUME NEW r \in Runner, Publishes(r)
      PROVE  ChangesApplied' /\ Restores'
  <2>0. PICK n \in Nat : n = Current + 1
    BY DEF Growth
  <2>1. /\ n \in Generations' /\ Generations' = 1..n
        /\ history'[n].key = Key(r)
        /\ \A o \in history'[n].changed : history'[n].objects[o] = history'[n].content
    BY <1>4, <2>0, PublishedGeneration DEF Publishes
  <2>2. Intact(n, ObjectsAt(n))'
    BY <2>0, <2>1 DEF Growth, Intact, ObjectsAt
  <2>3. history'[n].key.task \notin Coupled \cup Sourced => RestoresAt(history[n].key, n - 1)'
    <3>1. /\ pc[r] = "publish" /\ job[r].base = Current /\ Key(r).task = job[r].task
      BY <1>4 DEF Publishes, IInv, RunOK, WriterOK, Key
    <3>2. job[r].task \notin Coupled \cup Sourced => RestoresAt(Key(r), Current)
      BY <3>1 DEF TraceInv, TraceOK, RestoreOK
    <3> QED
      BY <2>0, <2>1, <3>1, <3>2, RestoresOfKey DEF Growth
  <2> QED
    BY <1>1, <2>0, <2>1, <2>2, <2>3 DEF Growth, ChangesApplied, Restores
<1> QED
  BY <1>2, <1>3, <1>4, WhoCommits

\* The cache and the accepted/ directories.
LEMMA RecordsTraced ==
    ASSUME IInv, TraceInv, Growth, [Next]_vars
    PROVE  RecordsAreCommitted'
<1>1. ASSUME NEW key, NEW c, \E g \in WithKey(key) : history[g].content = c
      PROVE  \E g \in WithKey(key)' : history'[g].content = c
  BY <1>1 DEF Growth, WithKey
<1>2. ASSUME NEW g \in Generations
      PROVE  g \in Generations' /\ history'[g].content = history[g].content
  BY DEF Growth
<1>3. CASE UNCHANGED workVars
  <2>1. ASSUME NEW entry \in cache
        PROVE  \E g \in WithKey(entry.signature.key)' : history'[g].content = entry.content
    BY <1>1 DEF TraceInv, RecordsAreCommitted
  <2> QED
    BY <1>2, <1>3, <2>1 DEF workVars, TraceInv, RecordsAreCommitted, WithKey
<1>4. ASSUME NEW r \in Runner, Accept(r)
      PROVE  RecordsAreCommitted'
  <2>1. /\ job[r].committed \in Generations
        /\ history[job[r].committed].content = job[r].proposal
    BY <1>4 DEF Accept, Goto, TraceInv, TraceOK, CommittedOK, WithKey
  <2>2. /\ history' = history /\ cache' = cache
        /\ accepted' = accepted \cup
               {[generation |-> job[r].committed, content |-> job[r].proposal]}
    BY <1>4 DEF Accept, storeVars
  <2> QED
    BY <2>1, <2>2 DEF TraceInv, RecordsAreCommitted, WithKey, Generations
<1>5. ASSUME NEW r \in Runner, CachePut(r)
      PROVE  RecordsAreCommitted'
  <2> DEFINE put == [signature |-> Signature(r), content |-> job[r].proposal]
  <2>1. \E g \in WithKey(Key(r)) : history[g].content = job[r].proposal
    BY <1>5 DEF CachePut, TraceInv, TraceOK, CommittedOK
  <2>2. put.signature.key = Key(r) /\ put.content = job[r].proposal
    BY DEF Signature
  <2>3. /\ history' = history /\ accepted' = accepted
        /\ cache' \subseteq cache \cup {put}
    BY <1>5 DEF CachePut, storeVars
  <2> HIDE DEF put
  <2>4. ASSUME NEW entry \in cache \cup {put}
        PROVE  \E g \in WithKey(entry.signature.key) : history[g].content = entry.content
    BY <2>1, <2>2 DEF TraceInv, RecordsAreCommitted
  <2> QED
    BY <2>3, <2>4 DEF TraceInv, RecordsAreCommitted, WithKey, Generations
<1> QED
  BY <1>3, <1>4, <1>5, WhoWrites DEF OtherCommit, Publishes, Quiet

\* A step of a run moves that run only.
LEMMA OneRunMoves ==
    ASSUME NEW r \in Runner, (\E t \in Task : Run(r, t)) \/ Progress(r) \/ Vanish(r),
           NEW s \in Runner, s # r, TypeOK
    PROVE  pc'[s] = pc[s] /\ job'[s] = job[s] /\ result'[s] = result[s]
<1> USE DEF Goto, Fail, Finish, TypeOK
<1>1. CASE \/ \E t \in Task : Run(r, t)
           \/ Preparation(r)
  BY <1>1 DEF Run, Preparation, LoadCurrent, SnapshotResources, LookupMiss, LookupHit
<1>2. CASE Verification(r)
  BY <1>2 DEF Verification, Reuse, Reevaluate, RejectAndExecute, RejectAndRefuse,
              VerifyTimeout
<1>3. CASE Execution(r)
  BY <1>3 DEF Execution, PreflightPass, PreflightStale, PreflightRefuse, CacheHit,
              EngineAnswers, Propose, EngineFailsOver, PlanExhausted,
              EngineFailsClosed, BundleBroken, PrepareFails
<1>4. CASE Acceptance(r)
  BY <1>4 DEF Acceptance, BeginCommit, CommitStale, CommitTimeout, PublishFails, Publish,
              PublishUnknown, Accept, CachePut, Rebuild, ReturnStale
<1>5. CASE Vanish(r)
  BY <1>5 DEF Vanish
<1> QED
  BY <1>1, <1>2, <1>3, <1>4, <1>5 DEF Progress

LEMMA InitTrace == Init => TraceInv
<1> SUFFICES ASSUME Init PROVE TraceInv
  OBVIOUS
<1>1. Generations = {}
  BY DEF Init, Generations
<1>2. ChangesApplied /\ Restores /\ RecordsAreCommitted
  BY <1>1 DEF Init, ChangesApplied, Restores, RecordsAreCommitted
<1>3. ASSUME NEW r \in Runner
      PROVE  TraceOK(r)
  BY DEF Init, NoResult, TraceOK, InputsOK, RestoreOK, CommittedOK, ReportOK
<1> QED
  BY <1>2, <1>3 DEF TraceInv

LEMMA NextTrace == IInv /\ TraceInv /\ [Next]_vars => TraceInv'
<1> SUFFICES ASSUME IInv, TraceInv, [Next]_vars PROVE TraceInv'
  OBVIOUS
<1>1. Growth
  BY HistoryGrows
<1>2. ASSUME NEW r \in Runner, (\E t \in Task : Run(r, t)) \/ Progress(r) \/ Vanish(r),
             NEW s \in Runner
      PROVE  TraceOK(s)'
  <2>1. CASE s = r
    <3>1. CASE Vanish(r)
      BY <2>1, <3>1, FailureTraced DEF Vanish
    <3> QED
      BY <1>1, <1>2, <2>1, <3>1, PreparationTraced, VerificationTraced,
         ExecutionTraced, AcceptanceTraced DEF Progress
  <2>2. CASE s # r
    <3>1. pc'[s] = pc[s] /\ job'[s] = job[s] /\ result'[s] = result[s]
      BY <1>2, <2>2, OneRunMoves DEF IInv
    <3> QED
      BY <1>1, <3>1, TraceStays DEF TraceInv
  <2> QED
    BY <2>1, <2>2
<1>3. CASE UNCHANGED vars \/ EditSource \/ OtherCommit
  <2>1. UNCHANGED runVars
    BY <1>3 DEF vars, EditSource, OtherCommit
  <2> QED
    BY <1>1, <2>1, TraceStays, HistoryTraced, RecordsTraced DEF TraceInv, runVars
<1> QED
  BY <1>1, <1>2, <1>3, HistoryTraced, RecordsTraced DEF Next, TraceInv

LEMMA TraceInvariance == Spec => []TraceInv
  BY InitTrace, NextTrace, Invariance, PTL DEF Spec

\* Whatever races, vanishes or edits the inputs, a VALID_SCIENTIFIC_RESULT of
\* run() names a committed receipt of the task's own key, what that receipt
\* changed is in place in the generation that is reported, and a receipt is
\* reused on unchanged dependencies only (receipts.py: verification under the lock).
THEOREM ReportsValid == Spec => []ReportedValid
<1>1. TraceInv => ReportedValid
  BY DEF TraceInv, TraceOK, ReportOK, ReportedValid
<1> QED
  BY <1>1, TraceInvariance, PTL

\* work/cache and the accepted/ directories never hold a proposal that is not
\* committed: _execute puts both after commit().
THEOREM RecordsCommitted == Spec => []RecordsAreCommitted
<1>1. TraceInv => RecordsAreCommitted
  BY DEF TraceInv
<1> QED
  BY <1>1, TraceInvariance, PTL

\* An ordinary task without external files is accepted again only when something
\* that its last acceptance wrote is no longer there: the lookup, the
\* verification of the receipt and commit()'s comparison of CURRENT leave no
\* other way through, however many runtimes take it.
THEOREM RepeatsRestore == Spec => []RepeatsOnlyRestore
<1>1. IInv /\ TraceInv => RepeatsOnlyRestore
  <2>1. SUFFICES ASSUME IInv, TraceInv, NEW h \in Generations,
                        history[h].key # NoKey,
                        history[h].key.task \notin Coupled \cup Sourced
                 PROVE  LET earlier == {g \in WithKey(history[h].key) : g < h}
                        IN earlier # {} => ~Intact(Newest(earlier), ObjectsAt(h - 1))
    BY DEF RepeatsOnlyRestore
  <2>2. RestoresAt(history[h].key, h - 1)
    BY <2>1 DEF TraceInv, Restores
  <2>3. \A g \in Generations : g < h <=> g <= h - 1
    BY DEF Generations, IInv, TypeOK
  <2>4. {g \in WithKey(history[h].key) : g < h} = EarlierOf(history[h].key, h - 1)
    BY <2>3 DEF EarlierOf, WithKey
  <2> QED
    BY <2>2, <2>4 DEF RestoresAt
<1> QED
  BY <1>1, Invariance, TraceInvariance, PTL
=================================================================================
