-------------------------- MODULE PilotControllerProofs --------------------------
(* Theorems about PilotController, for every number of controllers, attempts  *)
(* and budgets: what a controller does is accounted for, the record moves as  *)
(* ReviewRecord says, so that every theorem about the record holds of a       *)
(* pilot, and the journal tells all that the record holds.                    *)
EXTENDS PilotController, ReviewRecordProofs, FiniteSetTheorems, WellFoundedInduction

FieldsOfCall == {"pc", "kind", "on", "out", "id", "base", "cursor"}

\* The arguments of a task that the record's own guards do not look at.
Arguments(kind, on) ==
    /\ kind = "aggregate" => on.paper \in Paper /\ on = [claim |-> on.claim, paper |-> on.paper]
    /\ kind = "validate_final" => on \in Claim
    /\ kind = "propositions" => on \subseteq Claim
    /\ kind = "audit_proposition" =>
           on.draft \in propositionDrafts /\ on.item \in on.draft.items
    /\ kind = "audit_sentence" =>
           on.draft \in sentenceDrafts /\ on.item \in on.draft.items

AttemptRecord == {"open", "technical", "refused"}
TaskDirectory == [attempts : Seq(AttemptRecord), since : Nat]

\* A call is idle, a control event, or a task with or without a directory.
CallShape(call) ==
    /\ DOMAIN call = FieldsOfCall
    /\ call.base \in 0..Len(journal) /\ call.id \in 0..Len(work)
    /\ \/ call = Idle
       \/ call.pc = "ready" /\ call.kind \in Control /\ call.id = 0
       \/ call.pc = "checked" /\ call.kind \in Kind \ Control
       \/ call.pc \in {"answered", "failed"} /\ call.kind \in Kind \ Control /\ call.id # 0

Shaped ==
    /\ DOMAIN job = Controller
    /\ \A k \in Controller :
           CallShape(job[k]) /\ (job[k] # Idle => Arguments(job[k].kind, job[k].on))
    /\ journal \in Seq({journal[i] : i \in DOMAIN journal})
    /\ work \in Seq(TaskDirectory)

\* A task directory is one call's, and no longer once an event names it.
Owned ==
    \A k \in Controller : job[k].id # 0 =>
        /\ \A j \in Controller : job[j].id = job[k].id => j = k
        /\ \A i \in DOMAIN journal : journal[i].id # job[k].id

\* An event names a task that there is, and accounts for all its attempts; no
\* task is accounted for twice.
EventsAccountForTheirTasks ==
    \A i \in DOMAIN journal :
        /\ journal[i].id \in 0..Len(work)
        /\ journal[i].id # 0 =>
               /\ Len(journal[i].usage) = Len(work[journal[i].id].attempts)
               /\ \A j \in DOMAIN journal : journal[j].id = journal[i].id => i = j

Stray(id) == \A i \in DOMAIN journal : journal[i].id # id

\* A call that is under way was begun when no task was stray: those that are
\* have been made since then.
StraysAreNewer ==
    \A k \in Controller : job[k] # Idle =>
        \A id \in DOMAIN work : Stray(id) => job[k].base <= work[id].since

-------------------------------------------------------------------------------
(* Sequences of anything                                                     *)

LEMMA SequenceOfItsElements ==
    ASSUME NEW T, NEW t \in Seq(T)
    PROVE  t \in Seq({t[i] : i \in DOMAIN t})
<1>1. Len(t) \in Nat /\ DOMAIN t = 1..Len(t) /\ t \in [1..Len(t) -> T]
  OBVIOUS
<1>2. t \in [1..Len(t) -> {t[i] : i \in DOMAIN t}]
  BY <1>1
<1> QED
  BY <1>1, <1>2, SeqDef

LEMMA AppendToAny ==
    ASSUME NEW s, NEW e, s \in Seq({s[i] : i \in DOMAIN s})
    PROVE  LET t == Append(s, e)
           IN /\ t \in Seq({t[i] : i \in DOMAIN t})
              /\ Len(s) \in Nat /\ DOMAIN s = 1..Len(s)
              /\ Len(t) = Len(s) + 1 /\ DOMAIN t = 1..(Len(s) + 1)
              /\ \A i \in 1..Len(s) : t[i] = s[i]
              /\ t[Len(s) + 1] = e
<1>1. PICK T : s \in Seq(T) /\ e \in T
  <2>1. s \in Seq({s[i] : i \in DOMAIN s} \cup {e})
    BY SeqMonotonic
  <2> QED
    BY <2>1
<1>2. Append(s, e) \in Seq(T)
  BY <1>1
<1>3. Append(s, e) \in Seq({Append(s, e)[i] : i \in DOMAIN Append(s, e)})
  BY <1>2, SequenceOfItsElements
<1> QED
  BY <1>1, <1>3

-------------------------------------------------------------------------------
(* What a step does                                                          *)

Starts(k) ==
    /\ job[k] = Idle /\ Reconciled
    /\ \E call :
           /\ DOMAIN call = FieldsOfCall /\ call.id = 0 /\ call.base = Len(journal)
           /\ \/ call.pc = "ready" /\ call.kind \in Control
              \/ call.pc = "checked" /\ call.kind \in Kind \ Control
           /\ Arguments(call.kind, call.on)
           /\ job' = [job EXCEPT ![k] = call]
    /\ UNCHANGED <<vars, journal, work>>

Commits(k) ==
    /\ job[k] # Idle /\ job[k].base = Len(journal)
    /\ \E event :
           /\ event.id = job[k].id /\ (event.id = 0 <=> job[k].pc = "ready")
           /\ event.id # 0 => Len(event.usage) = Len(work[event.id].attempts)
           /\ journal' = Append(journal, event)
    /\ job' = [job EXCEPT ![k] = Idle]
    /\ UNCHANGED work

Ends(k) ==
    /\ job[k] # Idle
    /\ job' = [job EXCEPT ![k] = Idle]
    /\ UNCHANGED <<vars, journal, work>>

LEMMA TaskStarts ==
    ASSUME NEW k, NEW kind \in Kind \ Control, NEW on, Arguments(kind, on),
           Begin(k, kind, on)
    PROVE  Starts(k)
<1> DEFINE call == [Idle EXCEPT !.pc = "checked", !.kind = kind, !.on = on,
                                !.base = Len(journal), !.cursor = CallsOf(kind)]
<1>1. /\ DOMAIN call = FieldsOfCall /\ call.pc = "checked" /\ call.kind = kind
      /\ call.on = on /\ call.id = 0 /\ call.base = Len(journal)
  BY DEF Idle, FieldsOfCall
<1>2. job' = [job EXCEPT ![k] = call]
  BY DEF Begin
<1> HIDE DEF call
<1> QED
  BY <1>1, <1>2 DEF Starts, Begin

LEMMA ControlStarts ==
    ASSUME NEW k, NEW kind \in Control, NEW out, BeginControl(k, kind, out)
    PROVE  Starts(k)
<1> DEFINE call == [Idle EXCEPT !.pc = "ready", !.kind = kind, !.out = out,
                                !.base = Len(journal)]
<1>1. /\ DOMAIN call = FieldsOfCall /\ call.pc = "ready" /\ call.kind = kind
      /\ call.id = 0 /\ call.base = Len(journal)
  BY DEF Idle, FieldsOfCall
<1>2. job' = [job EXCEPT ![k] = call]
  BY DEF BeginControl
<1>3. Arguments(call.kind, call.on)
  BY <1>1 DEF Arguments, Control
<1> HIDE DEF call
<1> QED
  BY <1>1, <1>2, <1>3 DEF Starts, BeginControl

LEMMA KindOfTask ==
    Kind \ Control = {"parse", "challenge", "claims", "queries", "assess_evidence",
        "aggregate", "assess_claim", "revise", "validate_final", "propositions",
        "audit_proposition", "render", "audit_sentence"}
  BY DEF Kind, Phase, Control

LEMMA CallsStart ==
    ASSUME TypeOK, NEW k, Call(k) \/ CallControl(k)
    PROVE  Starts(k)
<1> USE KindOfTask
<1>1. claims \subseteq Claim
  BY DEF TypeOK
<1>2. CASE CallParse(k)
  BY <1>2, TaskStarts DEF CallParse, Arguments
<1>3. CASE CallChallenger(k)
  BY <1>3, TaskStarts DEF CallChallenger, Arguments
<1>4. CASE CallClaims(k)
  BY <1>4, TaskStarts DEF CallClaims, Arguments
<1>5. CASE CallQueries(k)
  BY <1>5, TaskStarts DEF CallQueries, Arguments
<1>6. CASE CallEvidence(k)
  BY <1>6, TaskStarts DEF CallEvidence, Arguments
<1>7. CASE CallAggregate(k)
  BY <1>7, TaskStarts DEF CallAggregate, Arguments
<1>8. CASE CallAssessment(k)
  BY <1>8, TaskStarts DEF CallAssessment, Arguments
<1>9. CASE CallRevision(k)
  BY <1>9, TaskStarts DEF CallRevision, Arguments
<1>10. CASE CallFinalValidation(k)
  BY <1>1, <1>10, TaskStarts DEF CallFinalValidation, Arguments
<1>11. CASE CallPropositions(k)
  BY <1>11, TaskStarts DEF CallPropositions, Arguments
<1>12. CASE CallPropositionAudit(k)
  BY <1>12, TaskStarts DEF CallPropositionAudit, Arguments
<1>13. CASE CallRendering(k)
  BY <1>13, TaskStarts DEF CallRendering, Arguments
<1>14. CASE CallSentenceAudit(k)
  BY <1>14, TaskStarts DEF CallSentenceAudit, Arguments
<1>15. CASE CallControl(k)
  <2>1. \E kind \in Control : \E out : BeginControl(k, kind, out)
    BY <1>15 DEF CallControl, RecordPrerequisites, RecordRetrieval, ExactAssembly,
                 ValidationReport, Control
  <2> QED
    BY <2>1, ControlStarts
<1> QED
  BY <1>2, <1>3, <1>4, <1>5, <1>6, <1>7, <1>8, <1>9, <1>10, <1>11, <1>12, <1>13,
     <1>14, <1>15 DEF Call

\* The promotion of a task is one step of the record, or none.
LEMMA PromotionIsARecordStep ==
    ASSUME TypeOK, NEW kind, NEW on, Arguments(kind, on), Promote(kind, on)
    PROVE  [Next]_vars
<1>1. claims \subseteq Claim /\ queries \subseteq Query
  BY DEF TypeOK
<1>2. CASE UNCHANGED vars
  BY <1>2
<1>3. CASE \E S \in (SUBSET Claim) \ {{}} : GenerateCandidateClaims(S)
  BY <1>3 DEF Next
<1>4. CASE GenerateRetrievalQueries(on)
  <2>1. on \subseteq Claim
    BY <1>1, <1>4 DEF GenerateRetrievalQueries
  <2>2. CASE on = {}
    <3>1. UNCHANGED vars
      BY <1>4, <2>2 DEF GenerateRetrievalQueries, vars, discoveryVars
    <3> QED
      BY <3>1
  <2>3. CASE on # {}
    <3>1. on \in (SUBSET Claim) \ {{}}
      <4>1. on \in SUBSET Claim
        BY <2>1
      <4> QED
        BY <2>3, <4>1, Zenon
    <3> QED
      BY <1>4, <3>1, Zenon DEF Next
  <2> QED
    BY <2>2, <2>3
<1>5. CASE AssessEvidence(on)
  <2>1. on \in Query
    BY <1>1, <1>5 DEF AssessEvidence
  <2> QED
    BY <1>5, <2>1 DEF Next
<1>6. CASE kind = "aggregate" /\ AggregatePaperEvidence(on.claim, on.paper)
  <2>1. on.claim \in Claim /\ on.paper \in Paper
    BY <1>1, <1>6 DEF AggregatePaperEvidence, Arguments
  <2> QED
    BY <1>6, <2>1 DEF Next
<1>7. CASE \E decision \in ClaimDecision : AssessClaim(on, decision)
  <2>1. on \in Claim
    BY <1>1, <1>7 DEF AssessClaim
  <2> QED
    BY <1>7, <2>1 DEF Next
<1>8. CASE /\ kind = "validate_final"
           /\ \E status \in {"valid", "invalid"} :
                  ValidateFinalClaim(on, FinalText(on), status)
  <2>1. on \in Claim /\ FinalText(on) \in ClaimText
    BY <1>8, SequenceAssumption DEF Arguments, FinalText
  <2> QED
    BY <1>8, <2>1 DEF Next
<1>9. CASE kind = "propositions" /\ GeneratePropositions(on)
  BY <1>9 DEF Next, Arguments
<1>10. CASE RenderProse(on)
  <2>1. on \in SUBSET Passing
    BY <1>10 DEF RenderProse
  <2> QED
    BY <1>10, <2>1 DEF Next
<1>11. CASE PromoteAudit(kind, on)
  BY <1>11 DEF PromoteAudit, Arguments, Next
<1> QED
  BY <1>2, <1>3, <1>4, <1>5, <1>6, <1>7, <1>8, <1>9, <1>10, <1>11
     DEF Promote, PromoteEvidence

\* Every attempt of the task is in what its event records.
LEMMA UsageIsComplete ==
    ASSUME Shaped, NEW id \in 1..Len(work)
    PROVE  Len(Usage(id)) = Len(work[id].attempts)
<1>1. work[id] \in TaskDirectory
  BY DEF Shaped
<1>2. work[id].attempts \in Seq(AttemptRecord)
  BY <1>1 DEF TaskDirectory
<1> DEFINE n == Len(work[id].attempts)
<1>3. n \in Nat /\ DOMAIN work[id].attempts = 1..n
  BY <1>2
<1>4. DOMAIN Usage(id) = 1..n
  BY <1>3 DEF Usage
<1> QED
  BY <1>3, <1>4

\* A step of a controller, and what the record does meanwhile.
LEMMA Moves ==
    ASSUME TypeOK, Shaped, PilotNext
    PROVE  /\ [Next]_vars
           /\ \E k \in Controller :
                  \/ Starts(k) \/ Commits(k) \/ Ends(k)
                  \/ Attempt(k) /\ UNCHANGED vars
                  \/ Refuse(k) /\ UNCHANGED vars
<1>1. PICK k \in Controller :
          \/ Call(k) \/ Attempt(k) \/ Accept(k) \/ Refuse(k) \/ Fail(k)
          \/ CallControl(k) \/ RecordControl(k) \/ ReuseControl(k)
          \/ Leave(k)
  BY DEF PilotNext
<1>2. CallShape(job[k]) /\ job[k].id \in 0..Len(work)
  BY DEF Shaped, CallShape
<1>3. CASE Call(k) \/ CallControl(k)
  BY <1>3, CallsStart DEF Starts
<1>4. CASE Attempt(k)
  BY <1>4 DEF Attempt
<1>5. CASE Refuse(k)
  BY <1>5 DEF Refuse
<1>6. CASE Accept(k)
  <2>1. job[k].pc = "answered" /\ job[k] # Idle /\ job[k].id # 0 /\ job[k].id \in 1..Len(work)
    BY <1>2, <1>6 DEF Accept, CallShape, Idle, Shaped
  <2>2. Arguments(job[k].kind, job[k].on)
    BY <2>1 DEF Shaped
  <2>3. [Next]_vars
    BY <1>6, <2>2, PromotionIsARecordStep DEF Accept
  <2>4. Commits(k)
    BY <1>6, <2>1, UsageIsComplete DEF Accept, Commit, TaskEvent, Commits
  <2> QED
    BY <2>3, <2>4
<1>7. CASE Fail(k)
  <2>1. job[k].pc = "failed" /\ job[k] # Idle /\ job[k].id # 0 /\ job[k].id \in 1..Len(work)
    BY <1>2, <1>7 DEF Fail, CallShape, Idle, Shaped
  <2>2. Commits(k)
    BY <1>7, <2>1, UsageIsComplete DEF Fail, Commit, TaskEvent, Commits
  <2> QED
    BY <1>7, <2>2 DEF Fail
<1>8. CASE RecordControl(k)
  <2>1. job[k].pc = "ready" /\ job[k] # Idle /\ job[k].id = 0
    BY <1>2, <1>8 DEF RecordControl, CallShape, Idle
  <2>2. Commits(k)
    BY <1>8, <2>1 DEF RecordControl, Commit, ControlEvent, Commits
  <2> QED
    BY <1>8, <2>2 DEF RecordControl
<1>9. CASE ReuseControl(k) \/ Leave(k)
  BY <1>9 DEF ReuseControl, Leave, Ends, Idle
<1> QED
  BY <1>1, <1>3, <1>4, <1>5, <1>6, <1>7, <1>8, <1>9

-------------------------------------------------------------------------------
(* The invariant                                                             *)

PilotInv ==
    /\ IInv /\ Shaped /\ Owned /\ EventsAccountForTheirTasks
    /\ StraysAreNewer /\ StrayCallsStopTheRun

LEMMA PilotInitial == PilotInit => PilotInv
<1> SUFFICES ASSUME PilotInit PROVE PilotInv
  OBVIOUS
<1>1. IInv
  BY RecordInit DEF PilotInit
<1>2. \A k \in Controller : job[k] = Idle
  BY DEF PilotInit
<1>3. \A k \in Controller : CallShape(job[k])
  <2>1. DOMAIN Idle = FieldsOfCall /\ Idle.base = 0 /\ Idle.id = 0
    BY DEF Idle, FieldsOfCall
  <2>2. Len(journal) = 0 /\ Len(work) = 0
    BY DEF PilotInit
  <2> QED
    BY <1>2, <2>1, <2>2 DEF CallShape
<1>4. Shaped
  BY <1>2, <1>3 DEF PilotInit, Shaped
<1>5. Owned /\ StraysAreNewer
  BY <1>2 DEF Owned, StraysAreNewer, Idle
<1>6. EventsAccountForTheirTasks /\ StrayCallsStopTheRun
  BY DEF PilotInit, EventsAccountForTheirTasks, StrayCallsStopTheRun
<1> QED
  BY <1>1, <1>4, <1>5, <1>6 DEF PilotInv

\* Drafts are never taken back: the arguments of a call stay what they were.
LEMMA ArgumentsStay ==
    ASSUME [Next]_vars, NEW kind, NEW on, Arguments(kind, on)
    PROVE  Arguments(kind, on)'
<1>1. propositionDrafts \subseteq propositionDrafts'
  BY WhoWrites DEF GeneratePropositions
<1>2. sentenceDrafts \subseteq sentenceDrafts'
  BY WhoWrites DEF RenderProse
<1> QED
  BY <1>1, <1>2 DEF Arguments

\* The job of a step's own controller, and those of the others.
LEMMA OtherCalls ==
    ASSUME Shaped, NEW k \in Controller, NEW call, job' = [job EXCEPT ![k] = call]
    PROVE  /\ DOMAIN job' = Controller /\ job'[k] = call
           /\ \A j \in Controller : j # k => job'[j] = job[j]
  BY DEF Shaped

\* A step of the engine: it goes on in the call's directory, or in a new one.
EngineStep(k) ==
    /\ \E call : \E id \in Nat :
           /\ job' = [job EXCEPT ![k] = call]
           /\ DOMAIN call = FieldsOfCall /\ call.id = id
           /\ call.kind = job[k].kind /\ call.on = job[k].on /\ call.base = job[k].base
           /\ call.pc \in {"checked", "answered", "failed"}
           /\ \/ /\ job[k].id = 0 /\ id = Len(work) + 1 /\ Len(work') = id
                 /\ work'[id].since = Len(journal)
                 /\ \A other \in 1..Len(work) : work'[other] = work[other]
              \/ /\ job[k].id # 0 /\ id = job[k].id /\ Len(work') = Len(work)
                 /\ work'[id].since = work[id].since
                 /\ \A other \in (1..Len(work)) \ {id} : work'[other] = work[other]
    /\ job[k].pc \in {"checked", "answered"}
    /\ work' \in Seq(TaskDirectory) /\ Len(work') \in Nat
    /\ UNCHANGED journal

LEMMA AttemptLeaves ==
    ASSUME Shaped, NEW k \in Controller, Attempt(k)
    PROVE  EngineStep(k)
<1> DEFINE new == job[k].id = 0
           id == IF new THEN Len(work) + 1 ELSE job[k].id
<1>1. PICK outcome \in AttemptRecord, pc \in {"checked", "answered", "failed"} :
          /\ work' = IF new
                     THEN Append(work, [attempts |-> <<outcome>>, since |-> Len(journal)])
                     ELSE [work EXCEPT ![id].attempts = Append(@, outcome)]
          /\ job' = [job EXCEPT ![k].pc = pc, ![k].id = id, ![k].cursor = @ + 1]
  BY DEF Attempt, AttemptRecord
<1> DEFINE call == [job[k] EXCEPT !.pc = pc, !.id = id, !.cursor = @ + 1]
<1>2. DOMAIN job[k] = FieldsOfCall /\ DOMAIN job = Controller
      /\ job[k].id \in 0..Len(work)
  BY DEF Shaped, CallShape
<1>3. job' = [job EXCEPT ![k] = call]
  BY <1>1, <1>2
<1>4. /\ DOMAIN call = FieldsOfCall /\ call.id = id /\ call.pc = pc
      /\ call.kind = job[k].kind /\ call.on = job[k].on /\ call.base = job[k].base
  BY <1>2 DEF FieldsOfCall
<1>5. /\ work \in Seq(TaskDirectory) /\ Len(work) \in Nat /\ Len(journal) \in Nat
      /\ UNCHANGED journal /\ job[k].pc \in {"checked", "answered"}
  BY DEF Shaped, Attempt
<1>6. CASE new
  <2>1. [attempts |-> <<outcome>>, since |-> Len(journal)] \in TaskDirectory
    BY <1>5 DEF TaskDirectory
  <2>2. work' = Append(work, [attempts |-> <<outcome>>, since |-> Len(journal)])
    BY <1>1, <1>6
  <2>3. /\ work' \in Seq(TaskDirectory) /\ Len(work') = Len(work) + 1
        /\ work'[Len(work) + 1].since = Len(journal)
        /\ \A other \in 1..Len(work) : work'[other] = work[other]
    BY <1>5, <2>1, <2>2
  <2>4. id \in Nat /\ id = Len(work) + 1 /\ Len(work') \in Nat
    BY <1>5, <1>6, <2>3
  <2> HIDE DEF call, id
  <2> QED
    BY <1>3, <1>4, <1>5, <1>6, <2>3, <2>4 DEF EngineStep
<1>7. CASE ~new
  <2>1. id \in 1..Len(work) /\ id = job[k].id
    BY <1>2, <1>5, <1>7
  <2>2. work[id] \in TaskDirectory
    BY <1>5, <2>1
  <2>3. [work[id] EXCEPT !.attempts = Append(@, outcome)] \in TaskDirectory
        /\ [work[id] EXCEPT !.attempts = Append(@, outcome)].since = work[id].since
    <3>1. Append(work[id].attempts, outcome) \in Seq(AttemptRecord)
      BY <2>2 DEF TaskDirectory
    <3> QED
      BY <2>2, <3>1 DEF TaskDirectory
  <2>4. work' = [work EXCEPT ![id] = [work[id] EXCEPT !.attempts = Append(@, outcome)]]
    BY <1>1, <1>7
  <2>5. /\ work' \in Seq(TaskDirectory) /\ Len(work') = Len(work)
        /\ work'[id].since = work[id].since
        /\ \A other \in (1..Len(work)) \ {id} : work'[other] = work[other]
    BY <1>5, <2>1, <2>3, <2>4
  <2>6. id \in Nat /\ Len(work') \in Nat
    BY <1>5, <2>1, <2>5
  <2> HIDE DEF call, id
  <2> QED
    BY <1>3, <1>4, <1>5, <1>7, <2>1, <2>5, <2>6 DEF EngineStep
<1> QED
  BY <1>6, <1>7

LEMMA RefuseLeaves ==
    ASSUME Shaped, NEW k \in Controller, Refuse(k)
    PROVE  EngineStep(k)
<1> DEFINE id == job[k].id
           n == Len(work[id].attempts)
           call == [job[k] EXCEPT !.pc = "failed"]
           directory == [work[id] EXCEPT !.attempts[n] = "refused"]
<1>1. /\ DOMAIN job[k] = FieldsOfCall /\ job[k].pc = "answered"
      /\ id \in 0..Len(work) /\ id # 0
  BY DEF Shaped, CallShape, Refuse, Idle
<1>2. /\ job' = [job EXCEPT ![k] = call] /\ work' = [work EXCEPT ![id] = directory]
      /\ UNCHANGED journal
  BY DEF Refuse
<1>3. /\ DOMAIN call = FieldsOfCall /\ call.id = id /\ call.pc = "failed"
      /\ call.kind = job[k].kind /\ call.on = job[k].on /\ call.base = job[k].base
  BY <1>1 DEF FieldsOfCall
<1>4. work \in Seq(TaskDirectory) /\ Len(work) \in Nat /\ id \in 1..Len(work)
  BY <1>1 DEF Shaped
<1>5. directory \in TaskDirectory /\ directory.since = work[id].since
  <2>1. work[id] \in TaskDirectory
    BY <1>4
  <2>2. [work[id].attempts EXCEPT ![n] = "refused"] \in Seq(AttemptRecord)
    <3>1. work[id].attempts \in Seq(AttemptRecord) /\ "refused" \in AttemptRecord
      BY <2>1 DEF TaskDirectory, AttemptRecord
    <3>2. /\ Len(work[id].attempts) \in Nat
          /\ work[id].attempts \in [1..Len(work[id].attempts) -> AttemptRecord]
      BY <3>1
    <3>3. [work[id].attempts EXCEPT ![n] = "refused"]
              \in [1..Len(work[id].attempts) -> AttemptRecord]
      BY <3>1, <3>2
    <3> QED
      BY <3>2, <3>3, SeqDef
  <2> QED
    BY <2>1, <2>2 DEF TaskDirectory
<1>6. /\ work' \in Seq(TaskDirectory) /\ Len(work') = Len(work)
      /\ work'[id].since = work[id].since
      /\ \A other \in (1..Len(work)) \ {id} : work'[other] = work[other]
  BY <1>2, <1>4, <1>5
<1>7. id \in Nat /\ Len(work') \in Nat
  BY <1>4, <1>6
<1> HIDE DEF call, id
<1> QED
  BY <1>1, <1>2, <1>3, <1>6, <1>7 DEF EngineStep, id

\* The journal with one more event.
LEMMA CommitLeaves ==
    ASSUME Shaped, NEW k \in Controller, Commits(k)
    PROVE  /\ journal' \in Seq({journal'[i] : i \in DOMAIN journal'})
           /\ Len(journal) \in Nat /\ Len(journal') = Len(journal) + 1
           /\ DOMAIN journal = 1..Len(journal) /\ DOMAIN journal' = 1..(Len(journal) + 1)
           /\ \A i \in 1..Len(journal) : journal'[i] = journal[i]
           /\ journal'[Len(journal) + 1].id = job[k].id
           /\ job[k].id # 0 =>
                  Len(journal'[Len(journal) + 1].usage) = Len(work[job[k].id].attempts)
<1>1. PICK event :
          /\ event.id = job[k].id
          /\ event.id # 0 => Len(event.usage) = Len(work[event.id].attempts)
          /\ journal' = Append(journal, event)
  BY DEF Commits
<1>2. journal \in Seq({journal[i] : i \in DOMAIN journal})
  BY DEF Shaped
<1> QED
  BY <1>1, <1>2, AppendToAny

LEMMA ShapedStep ==
    ASSUME TypeOK, Shaped, PilotNext
    PROVE  Shaped'
<1>1. [Next]_vars
  BY Moves
<1>2. Len(journal) \in Nat /\ Len(work) \in Nat
  BY DEF Shaped
<1>3. ASSUME NEW kind, NEW on, Arguments(kind, on)
      PROVE  Arguments(kind, on)'
  BY <1>1, <1>3, ArgumentsStay
<1>4. ASSUME NEW call, CallShape(call),
             Len(journal') \in Nat, Len(work') \in Nat,
             Len(journal) <= Len(journal'), Len(work) <= Len(work')
      PROVE  CallShape(call)'
  BY <1>2, <1>4 DEF CallShape, Idle, Control, Kind, Phase
<1>5. ASSUME NEW k \in Controller, NEW call, job' = [job EXCEPT ![k] = call],
             Len(journal') \in Nat, Len(work') \in Nat,
             Len(journal) <= Len(journal'), Len(work) <= Len(work'),
             journal' \in Seq({journal'[i] : i \in DOMAIN journal'}),
             work' \in Seq(TaskDirectory),
             CallShape(call)', call # Idle => Arguments(call.kind, call.on)'
      PROVE  Shaped'
  <2>1. /\ DOMAIN job' = Controller /\ job'[k] = call
        /\ \A j \in Controller : j # k => job'[j] = job[j]
    BY <1>5, OtherCalls
  <2>2. ASSUME NEW j \in Controller
        PROVE  (CallShape(job[j]) /\ (job[j] # Idle => Arguments(job[j].kind, job[j].on)))'
    <3>1. CASE j = k
      BY <1>5, <2>1, <3>1 DEF CallShape, Arguments, Idle
    <3>2. CASE j # k
      <4>1. PICK c : c = job[j]
        OBVIOUS
      <4>2. CallShape(c) /\ (c # Idle => Arguments(c.kind, c.on))
        BY <4>1 DEF Shaped
      <4>3. CallShape(c)'
        BY <1>4, <1>5, <4>2
      <4>4. c # Idle => Arguments(c.kind, c.on)'
        BY <1>3, <4>2
      <4>5. job'[j] = c
        BY <2>1, <3>2, <4>1
      <4> QED
        BY <4>3, <4>4, <4>5 DEF CallShape, Arguments, Idle
    <3> QED
      BY <3>1, <3>2
  <2> QED
    BY <1>5, <2>1, <2>2 DEF Shaped
<1>6. CallShape(Idle)
  BY <1>2 DEF CallShape, Idle, FieldsOfCall
<1>7. PICK k \in Controller :
          \/ Starts(k) \/ Commits(k) \/ Ends(k)
          \/ Attempt(k) /\ UNCHANGED vars
          \/ Refuse(k) /\ UNCHANGED vars
  BY Moves
<1>8. CASE Starts(k)
  <2>1. PICK call :
            /\ DOMAIN call = FieldsOfCall /\ call.id = 0 /\ call.base = Len(journal)
            /\ \/ call.pc = "ready" /\ call.kind \in Control
               \/ call.pc = "checked" /\ call.kind \in Kind \ Control
            /\ Arguments(call.kind, call.on)
            /\ job' = [job EXCEPT ![k] = call]
    BY <1>8 DEF Starts
  <2>2. UNCHANGED <<journal, work>>
    BY <1>8 DEF Starts
  <2>3. CallShape(call)
    BY <1>2, <2>1 DEF CallShape
  <2>4. CallShape(call)'
    BY <1>2, <1>4, <2>2, <2>3
  <2>5. Arguments(call.kind, call.on)'
    BY <1>3, <2>1
  <2>6. /\ journal' \in Seq({journal'[i] : i \in DOMAIN journal'}) /\ work' \in Seq(TaskDirectory)
        /\ Len(journal') \in Nat /\ Len(work') \in Nat
        /\ Len(journal) <= Len(journal') /\ Len(work) <= Len(work')
    BY <1>2, <2>2 DEF Shaped
  <2> QED
    BY <1>5, <2>1, <2>4, <2>5, <2>6
<1>9. CASE Commits(k)
  <2>1. UNCHANGED work /\ job' = [job EXCEPT ![k] = Idle]
    BY <1>9 DEF Commits
  <2>2. /\ journal' \in Seq({journal'[i] : i \in DOMAIN journal'})
        /\ Len(journal') = Len(journal) + 1
    BY <1>9, CommitLeaves
  <2>3. Len(journal') \in Nat /\ Len(journal) <= Len(journal')
    BY <1>2, <2>2
  <2>4. CallShape(Idle)'
    BY <1>2, <1>4, <1>6, <2>1, <2>3
  <2>5. /\ work' \in Seq(TaskDirectory) /\ Len(work') \in Nat /\ Len(work) <= Len(work')
    BY <1>2, <2>1 DEF Shaped
  <2> QED
    BY <1>5, <2>1, <2>2, <2>3, <2>4, <2>5
<1>10. CASE Ends(k)
  <2>1. UNCHANGED <<journal, work>> /\ job' = [job EXCEPT ![k] = Idle]
    BY <1>10 DEF Ends
  <2>2. CallShape(Idle)'
    BY <1>2, <1>4, <1>6, <2>1
  <2>3. /\ journal' \in Seq({journal'[i] : i \in DOMAIN journal'}) /\ work' \in Seq(TaskDirectory)
        /\ Len(journal') \in Nat /\ Len(work') \in Nat
        /\ Len(journal) <= Len(journal') /\ Len(work) <= Len(work')
    BY <1>2, <2>1 DEF Shaped
  <2> QED
    BY <1>5, <2>1, <2>2, <2>3
<1>11. CASE EngineStep(k)
  <2>1. PICK call : \E id \in Nat :
            /\ job' = [job EXCEPT ![k] = call]
            /\ DOMAIN call = FieldsOfCall /\ call.id = id
            /\ call.kind = job[k].kind /\ call.on = job[k].on /\ call.base = job[k].base
            /\ call.pc \in {"checked", "answered", "failed"}
            /\ \/ job[k].id = 0 /\ id = Len(work) + 1 /\ Len(work') = id
               \/ job[k].id # 0 /\ id = job[k].id /\ Len(work') = Len(work)
    BY <1>11 DEF EngineStep
  <2>2. /\ UNCHANGED journal /\ work' \in Seq(TaskDirectory) /\ Len(work') \in Nat
        /\ job[k].pc \in {"checked", "answered"}
    BY <1>11 DEF EngineStep
  <2>3. /\ job[k].kind \in Kind \ Control /\ job[k] # Idle
        /\ job[k].base \in 0..Len(journal) /\ job[k].id \in 0..Len(work)
    BY <2>2 DEF Shaped, CallShape, Idle
  <2>4. Len(work) <= Len(work') /\ call.id \in 1..Len(work')
    BY <1>2, <2>1, <2>3
  <2>5. CallShape(call)'
    BY <1>2, <2>1, <2>2, <2>3, <2>4 DEF CallShape
  <2>6. Arguments(call.kind, call.on)'
    <3>1. Arguments(call.kind, call.on)
      BY <2>1, <2>3 DEF Shaped
    <3> QED
      BY <1>3, <3>1
  <2>7. /\ journal' \in Seq({journal'[i] : i \in DOMAIN journal'}) /\ work' \in Seq(TaskDirectory)
        /\ Len(journal') \in Nat /\ Len(work') \in Nat
        /\ Len(journal) <= Len(journal') /\ Len(work) <= Len(work')
    BY <1>2, <2>2, <2>4 DEF Shaped
  <2> QED
    BY <1>5, <2>1, <2>5, <2>6, <2>7
<1> QED
  BY <1>7, <1>8, <1>9, <1>10, <1>11, AttemptLeaves, RefuseLeaves

\* One lemma for the shapes that the steps below are about.
LEMMA StepShapes ==
    ASSUME TypeOK, Shaped, PilotNext
    PROVE  /\ Len(journal) \in Nat /\ DOMAIN journal = 1..Len(journal)
           /\ Len(work) \in Nat /\ DOMAIN work = 1..Len(work)
           /\ \A k \in Controller : job[k].id \in 0..Len(work) /\ job[k].base \in 0..Len(journal)
           /\ \E k \in Controller : Starts(k) \/ Commits(k) \/ Ends(k) \/ EngineStep(k)
<1>1. /\ Len(journal) \in Nat /\ DOMAIN journal = 1..Len(journal)
      /\ Len(work) \in Nat /\ DOMAIN work = 1..Len(work)
      /\ \A k \in Controller : job[k].id \in 0..Len(work) /\ job[k].base \in 0..Len(journal)
  BY DEF Shaped, CallShape
<1>2. \E k \in Controller : Starts(k) \/ Commits(k) \/ Ends(k) \/ EngineStep(k)
  BY Moves, AttemptLeaves, RefuseLeaves
<1> QED
  BY <1>1, <1>2

\* The call of a step's controller when it starts or ends one.
LEMMA StartsAndEnds ==
    ASSUME Shaped, NEW k \in Controller, Starts(k) \/ Ends(k)
    PROVE  /\ UNCHANGED <<journal, work>>
           /\ job'[k].id = 0
           /\ \A j \in Controller : j # k => job'[j] = job[j]
           /\ job'[k] = Idle \/ (Reconciled /\ job'[k].base = Len(journal))
<1>1. CASE Starts(k)
  BY <1>1, OtherCalls DEF Starts
<1>2. CASE Ends(k)
  BY <1>2, OtherCalls DEF Ends, Idle
<1> QED
  BY <1>1, <1>2

LEMMA OwnedStep ==
    ASSUME TypeOK, Shaped, Owned, EventsAccountForTheirTasks, PilotNext
    PROVE  Owned' /\ EventsAccountForTheirTasks'
<1>1. PICK k \in Controller : Starts(k) \/ Commits(k) \/ Ends(k) \/ EngineStep(k)
  BY StepShapes
<1>2. CASE Starts(k) \/ Ends(k)
  <2>1. /\ UNCHANGED <<journal, work>> /\ job'[k].id = 0
        /\ \A j \in Controller : j # k => job'[j] = job[j]
    BY <1>2, StartsAndEnds
  <2>2. Owned'
    BY <2>1 DEF Owned
  <2>3. EventsAccountForTheirTasks'
    BY <2>1 DEF EventsAccountForTheirTasks
  <2> QED
    BY <2>2, <2>3
<1>3. CASE Commits(k)
  <2> DEFINE n == Len(journal)
  <2>1. /\ n \in Nat /\ DOMAIN journal = 1..n /\ DOMAIN journal' = 1..(n + 1)
        /\ \A i \in 1..n : journal'[i] = journal[i]
        /\ journal'[n + 1].id = job[k].id
        /\ job[k].id # 0 => Len(journal'[n + 1].usage) = Len(work[job[k].id].attempts)
    BY <1>3, CommitLeaves
  <2>2. /\ UNCHANGED work /\ job'[k].id = 0
        /\ \A j \in Controller : j # k => job'[j] = job[j]
    BY <1>3, OtherCalls DEF Commits, Idle
  <2>3. \A i \in 1..(n + 1) : i \in 1..n \/ i = n + 1
    BY <2>1
  <2>4. Owned'
    <3>1. SUFFICES ASSUME NEW j \in Controller, j # k, job[j].id # 0
                   PROVE  /\ \A l \in Controller : job'[l].id = job[j].id => l = j
                          /\ \A i \in 1..(n + 1) : journal'[i].id # job[j].id
      BY <2>1, <2>2 DEF Owned
    <3>2. job[k].id # job[j].id
      BY <3>1 DEF Owned
    <3> QED
      BY <2>1, <2>2, <2>3, <3>1, <3>2 DEF Owned
  <2>5. ASSUME NEW i \in 1..(n + 1)
        PROVE  /\ journal'[i].id \in 0..Len(work)
               /\ journal'[i].id # 0 =>
                      /\ Len(journal'[i].usage) = Len(work[journal'[i].id].attempts)
                      /\ \A j \in 1..(n + 1) : journal'[j].id = journal'[i].id => i = j
    <3>1. job[k].id \in 0..Len(work)
      BY StepShapes
    <3>2. job[k].id # 0 => \A j \in 1..n : journal'[j].id # job[k].id
      BY <2>1 DEF Owned
    <3>3. CASE i \in 1..n
      <4>1. journal'[i].id # 0 => \A j \in 1..(n + 1) : journal'[j].id = journal'[i].id => i = j
        BY <2>1, <2>3, <3>2, <3>3 DEF EventsAccountForTheirTasks
      <4> QED
        BY <2>1, <3>3, <4>1 DEF EventsAccountForTheirTasks
    <3>4. CASE i = n + 1
      BY <2>1, <2>3, <3>1, <3>2, <3>4
    <3> QED
      BY <2>3, <3>3, <3>4
  <2>6. EventsAccountForTheirTasks'
    BY <2>1, <2>2, <2>5 DEF EventsAccountForTheirTasks
  <2> QED
    BY <2>4, <2>6
<1>4. CASE EngineStep(k)
  <2>1. PICK call : \E id \in Nat :
            /\ job' = [job EXCEPT ![k] = call] /\ call.id = id
            /\ \/ /\ job[k].id = 0 /\ id = Len(work) + 1 /\ Len(work') = id
                  /\ \A other \in 1..Len(work) : work'[other] = work[other]
               \/ /\ job[k].id # 0 /\ id = job[k].id /\ Len(work') = Len(work)
                  /\ \A other \in (1..Len(work)) \ {id} : work'[other] = work[other]
    BY <1>4 DEF EngineStep
  <2>2. /\ UNCHANGED journal /\ Len(work') \in Nat
        /\ job'[k] = call /\ \A j \in Controller : j # k => job'[j] = job[j]
    BY <1>4, <2>1, OtherCalls DEF EngineStep
  <2>3. /\ Len(work) \in Nat /\ Len(work) <= Len(work') /\ DOMAIN journal = 1..Len(journal)
        /\ \A j \in Controller : job[j].id \in 0..Len(work)
    BY <2>1, <2>2, StepShapes
  <2>4. \/ job[k].id = 0 /\ call.id = Len(work) + 1
        \/ job[k].id # 0 /\ call.id = job[k].id
    BY <2>1
  <2>5. ASSUME NEW i \in DOMAIN journal, journal[i].id # 0
        PROVE  /\ journal[i].id \in 1..Len(work) /\ journal[i].id # call.id
               /\ work'[journal[i].id] = work[journal[i].id]
    <3>1. journal[i].id \in 1..Len(work)
      BY <2>3, <2>5 DEF EventsAccountForTheirTasks
    <3>2. journal[i].id # call.id
      BY <2>3, <2>4, <3>1 DEF Owned
    <3> QED
      BY <2>1, <3>1, <3>2
  <2>6. Owned'
    <3>1. ASSUME NEW j \in Controller, job'[j].id # 0,
                 NEW l \in Controller, job'[l].id = job'[j].id
          PROVE  l = j
      BY <2>2, <2>3, <2>4, <3>1 DEF Owned
    <3>2. ASSUME NEW j \in Controller, job'[j].id # 0, NEW i \in DOMAIN journal
          PROVE  journal[i].id # job'[j].id
      <4>1. CASE j = k
        BY <2>2, <2>4, <2>5, <3>2, <4>1
      <4>2. CASE j # k
        BY <2>2, <3>2, <4>2 DEF Owned
      <4> QED
        BY <4>1, <4>2
    <3> QED
      BY <2>2, <3>1, <3>2 DEF Owned
  <2>7. EventsAccountForTheirTasks'
    BY <2>2, <2>3, <2>5 DEF EventsAccountForTheirTasks
  <2> QED
    BY <2>6, <2>7
<1> QED
  BY <1>1, <1>2, <1>3, <1>4

\* Commits are made on the base of the call: no stray task is older than the
\* last event but one.
LEMMA StraysStep ==
    ASSUME TypeOK, Shaped, StraysAreNewer, StrayCallsStopTheRun, PilotNext
    PROVE  StraysAreNewer' /\ StrayCallsStopTheRun'
<1>1. PICK k \in Controller : Starts(k) \/ Commits(k) \/ Ends(k) \/ EngineStep(k)
  BY StepShapes
<1>2. /\ Len(journal) \in Nat /\ DOMAIN journal = 1..Len(journal)
      /\ Len(work) \in Nat /\ DOMAIN work = 1..Len(work)
      /\ \A j \in Controller : job[j].base \in 0..Len(journal)
      /\ \A id \in DOMAIN work : work[id].since \in Nat
  <2>1. /\ Len(journal) \in Nat /\ DOMAIN journal = 1..Len(journal)
        /\ Len(work) \in Nat /\ DOMAIN work = 1..Len(work)
        /\ \A j \in Controller : job[j].base \in 0..Len(journal)
    BY StepShapes
  <2>2. ASSUME NEW id \in DOMAIN work
        PROVE  work[id].since \in Nat
    <3>1. work[id] \in TaskDirectory
      BY <2>1 DEF Shaped
    <3> QED
      BY <3>1 DEF TaskDirectory
  <2> QED
    BY <2>1, <2>2
<1>3. CASE Starts(k) \/ Ends(k)
  <2>1. /\ UNCHANGED <<journal, work>>
        /\ \A j \in Controller : j # k => job'[j] = job[j]
        /\ job'[k] = Idle \/ (Reconciled /\ job'[k].base = Len(journal))
    BY <1>3, StartsAndEnds
  <2>2. Reconciled => \A id \in DOMAIN work : ~Stray(id)
    BY DEF Reconciled, Accounted, Stray
  <2>3. StraysAreNewer'
    BY <2>1, <2>2 DEF StraysAreNewer, Stray
  <2>4. StrayCallsStopTheRun'
    BY <2>1 DEF StrayCallsStopTheRun
  <2> QED
    BY <2>3, <2>4
<1>4. CASE Commits(k)
  <2>1. /\ Len(journal') = Len(journal) + 1 /\ DOMAIN journal' = 1..(Len(journal) + 1)
        /\ \A i \in 1..Len(journal) : journal'[i] = journal[i]
    BY <1>4, CommitLeaves
  <2>2. /\ UNCHANGED work /\ job'[k] = Idle
        /\ \A j \in Controller : j # k => job'[j] = job[j]
    BY <1>4, OtherCalls DEF Commits
  <2>3. \A id \in DOMAIN work : Stray(id)' => Stray(id)
    BY <1>2, <2>1 DEF Stray
  <2>4. StraysAreNewer'
    BY <2>2, <2>3 DEF StraysAreNewer, Stray
  <2>5. ASSUME NEW id \in DOMAIN work, Stray(id)
        PROVE  Len(journal) <= work[id].since
    BY <1>4, <2>5 DEF StraysAreNewer, Commits
  <2>6. StrayCallsStopTheRun'
    BY <1>2, <2>1, <2>2, <2>3, <2>5 DEF StrayCallsStopTheRun, Stray
  <2> QED
    BY <2>4, <2>6
<1>5. CASE EngineStep(k)
  <2>0. PICK call : \E id \in Nat :
            /\ job' = [job EXCEPT ![k] = call]
            /\ call.id = id /\ call.base = job[k].base
            /\ \/ /\ job[k].id = 0 /\ id = Len(work) + 1 /\ Len(work') = id
                  /\ work'[id].since = Len(journal)
                  /\ \A other \in 1..Len(work) : work'[other] = work[other]
               \/ /\ job[k].id # 0 /\ id = job[k].id /\ Len(work') = Len(work)
                  /\ work'[id].since = work[id].since
                  /\ \A other \in (1..Len(work)) \ {id} : work'[other] = work[other]
    BY <1>5 DEF EngineStep
  <2>1. PICK new \in Nat :
            /\ job' = [job EXCEPT ![k] = call]
            /\ call.id = new /\ call.base = job[k].base
            /\ \/ /\ job[k].id = 0 /\ new = Len(work) + 1 /\ Len(work') = new
                  /\ work'[new].since = Len(journal)
                  /\ \A other \in 1..Len(work) : work'[other] = work[other]
               \/ /\ job[k].id # 0 /\ new = job[k].id /\ Len(work') = Len(work)
                  /\ work'[new].since = work[new].since
                  /\ \A other \in (1..Len(work)) \ {new} : work'[other] = work[other]
    BY <2>0
  <2>2. /\ UNCHANGED journal /\ work' \in Seq(TaskDirectory) /\ job[k] # Idle
        /\ job'[k] = call /\ \A j \in Controller : j # k => job'[j] = job[j]
    <3>1. UNCHANGED journal /\ work' \in Seq(TaskDirectory) /\ job[k] # Idle
      BY <1>5 DEF EngineStep, Idle
    <3> QED
      BY <2>1, <3>1, OtherCalls
  <2>3. DOMAIN work' = 1..Len(work') /\ Len(work') \in Nat
    BY <2>2
  <2>4. ASSUME NEW id \in DOMAIN work'
        PROVE  \/ id \in DOMAIN work /\ work'[id].since = work[id].since
               \/ work'[id].since = Len(journal)
    <3>1. CASE /\ new = Len(work) + 1 /\ Len(work') = new
               /\ work'[new].since = Len(journal)
               /\ \A other \in 1..Len(work) : work'[other] = work[other]
      <4>1. id \in 1..Len(work) \/ id = new
        BY <1>2, <2>3, <3>1
      <4> QED
        BY <1>2, <3>1, <4>1
    <3>2. CASE /\ Len(work') = Len(work) /\ work'[new].since = work[new].since
               /\ \A other \in (1..Len(work)) \ {new} : work'[other] = work[other]
      BY <1>2, <2>3, <3>2
    <3> QED
      BY <2>1, <3>1, <3>2
  <2>5. StraysAreNewer'
    <3>1. SUFFICES ASSUME NEW j \in Controller, job'[j] # Idle,
                          NEW id \in DOMAIN work', Stray(id)
                   PROVE  job'[j].base <= work'[id].since
      BY <2>2 DEF StraysAreNewer, Stray
    <3>2. job'[j].base = job[j].base /\ job[j] # Idle
      BY <2>1, <2>2, <3>1
    <3> QED
      BY <1>2, <2>4, <3>1, <3>2 DEF StraysAreNewer
  <2>6. StrayCallsStopTheRun'
    <3>1. SUFFICES ASSUME NEW id \in DOMAIN work', Stray(id)
                   PROVE  Len(journal) <= work'[id].since + 1
      BY <2>2 DEF StrayCallsStopTheRun, Stray
    <3>2. CASE id \in DOMAIN work /\ work'[id].since = work[id].since
      BY <3>1, <3>2 DEF StrayCallsStopTheRun, Stray
    <3>3. CASE work'[id].since = Len(journal)
      BY <1>2, <3>3
    <3> QED
      BY <2>4, <3>2, <3>3
  <2> QED
    BY <2>5, <2>6
<1> QED
  BY <1>1, <1>3, <1>4, <1>5

-------------------------------------------------------------------------------
(* The run as a whole                                                        *)

LEMMA PilotStep == PilotInv /\ [PilotNext]_pilotVars => PilotInv'
<1>1. CASE PilotInv /\ PilotNext
  <2>1. TypeOK /\ [Next]_vars
    BY <1>1, Moves DEF PilotInv, IInv
  <2>2. IInv'
    BY <1>1, <2>1, RecordStep DEF PilotInv
  <2>3. Shaped'
    BY <1>1, <2>1, ShapedStep DEF PilotInv
  <2>4. Owned' /\ EventsAccountForTheirTasks'
    BY <1>1, <2>1, OwnedStep DEF PilotInv
  <2>5. StraysAreNewer' /\ StrayCallsStopTheRun'
    BY <1>1, <2>1, StraysStep DEF PilotInv
  <2> QED
    BY <2>2, <2>3, <2>4, <2>5 DEF PilotInv
<1>2. CASE PilotInv /\ UNCHANGED pilotVars
  <2>1. UNCHANGED vars /\ UNCHANGED <<journal, work, job>>
    BY <1>2 DEF pilotVars
  <2>2. IInv'
    BY <1>2, <2>1, RecordStep DEF PilotInv
  <2>3. UNCHANGED <<propositionDrafts, sentenceDrafts>>
    BY <2>1 DEF vars, propositionVars, sentenceVars
  <2>4. Shaped' /\ Owned' /\ EventsAccountForTheirTasks'
    BY <1>2, <2>1, <2>3 DEF PilotInv, Shaped, CallShape, Arguments, Owned,
       EventsAccountForTheirTasks
  <2>5. StraysAreNewer' /\ StrayCallsStopTheRun'
    BY <1>2, <2>1 DEF PilotInv, StraysAreNewer, Stray, StrayCallsStopTheRun
  <2> QED
    BY <2>2, <2>4, <2>5 DEF PilotInv
<1> QED
  BY <1>1, <1>2

\* The invariant of a pilot run: the record's, and who owns which attempts.
THEOREM PilotInvariant == PilotSpec => []PilotInv
  BY PilotInitial, PilotStep, PTL DEF PilotSpec

\* A controller whose process died after an engine call, or whose commit came too
\* late, leaves a task that at most one more event can follow.
THEOREM StrayCallsStop == PilotSpec => []StrayCallsStopTheRun
<1>1. PilotInv => StrayCallsStopTheRun
  BY DEF PilotInv
<1> QED
  BY <1>1, PilotInvariant, PTL

\* Every event accounts for all the attempts its task will ever have.
THEOREM EventsAccount == PilotSpec => []EventsAccountForTheirTasks
<1>1. PilotInv => EventsAccountForTheirTasks
  BY DEF PilotInv
<1> QED
  BY <1>1, PilotInvariant, PTL

\* Controllers that race, fail and die move the record by accepted tasks only.
LEMMA RecordSteps == PilotSpec => Spec
<1>1. PilotInit => Init
  BY DEF PilotInit
<1>2. PilotInv /\ [PilotNext]_pilotVars => [Next]_vars
  <2>1. ASSUME PilotInv, PilotNext PROVE [Next]_vars
    BY <2>1, Moves DEF PilotInv, IInv
  <2>2. ASSUME UNCHANGED pilotVars PROVE UNCHANGED vars
    BY <2>2 DEF pilotVars
  <2> QED
    BY <2>1, <2>2
<1> QED
  BY <1>1, <1>2, PilotInvariant, PTL DEF PilotSpec, Spec

\* So what is proved of the record holds in every pilot.
THEOREM PilotSentencesTrace == PilotSpec => []SentencesTraceToEvidence
  BY RecordSteps, SentencesTrace, PTL

-------------------------------------------------------------------------------
(* Sums over finite sets.  Induction is by a least counterexample: the        *)
(* natural numbers are well founded.                                          *)

LEMMA LeastNumber ==
    ASSUME NEW T \in SUBSET Nat, T # {}
    PROVE  \E n \in T : \A m \in T : n <= m
<1> DEFINE R == {pair \in Nat \X Nat : pair[1] < pair[2]}
<1>1. IsWellFoundedOn(R, Nat)
  BY NatLessThanWellFounded DEF OpToRel
<1>2. PICK n \in T : \A m \in T : ~(<<m, n>> \in R)
  <2> HIDE DEF R
  <2> QED
    BY <1>1, WFMin
<1>3. ASSUME NEW m \in T PROVE n <= m
  <2>1. ~(m < n)
    BY <1>2
  <2> QED
    BY <2>1
<1> QED
  BY <1>3

\* The element that a fold takes next.
Pick(s) == CHOOSE x \in s : TRUE

LEMMA SmallerSubset ==
    ASSUME NEW S, IsFiniteSet(S), NEW s \in SUBSET S, NEW x \in s
    PROVE  /\ s \ {x} \in SUBSET S /\ IsFiniteSet(s)
           /\ Cardinality(s) \in Nat \ {0}
           /\ Cardinality(s \ {x}) \in Nat /\ Cardinality(s \ {x}) = Cardinality(s) - 1
           /\ Pick(s) \in s
<1>1. IsFiniteSet(s)
  BY FS_Subset
<1>2. Cardinality(s) \in Nat /\ IsFiniteSet(s \ {x})
  BY <1>1, FS_CardinalityType, FS_RemoveElement
<1>3. Cardinality(s \ {x}) = Cardinality(s) - 1
  BY <1>1, FS_RemoveElement
<1>4. Cardinality(s \ {x}) \in Nat
  BY <1>2, FS_CardinalityType
<1> QED
  BY <1>1, <1>2, <1>3, <1>4 DEF Pick

\* g is the fold of + over the subsets of S, with the weights f.
IsSum(g, f, S) ==
    g = [s \in SUBSET S |-> IF s = {} THEN 0 ELSE f[Pick(s)] + g[s \ {Pick(s)}]]

\* The definition of the fold is sound: there is such a function.
LEMMA SumExists ==
    ASSUME NEW S, IsFiniteSet(S), NEW f
    PROVE  \E g : IsSum(g, f, S)
<1> DEFINE Body(g, s) == IF s = {} THEN 0 ELSE f[Pick(s)] + g[s \ {Pick(s)}]
           UpTo(g, n) == /\ g = [s \in SUBSET S |-> g[s]]
                         /\ \A s \in SUBSET S : Cardinality(s) <= n => g[s] = Body(g, s)
           Bad == {n \in Nat : ~ \E g : UpTo(g, n)}
<1>1. Cardinality(S) \in Nat
  BY FS_CardinalityType
<1>2. \A s \in SUBSET S : Cardinality(s) \in Nat /\ Cardinality(s) <= Cardinality(S)
  BY FS_Subset, FS_CardinalityType
<1>3. Bad = {}
  <2>1. SUFFICES ASSUME Bad # {} PROVE FALSE
    OBVIOUS
  <2>2. PICK n \in Bad : \A m \in Bad : n <= m
    BY <2>1, LeastNumber
  <2>3. PICK h : n # 0 => UpTo(h, n - 1)
    <3>1. n # 0 => n - 1 \in Nat /\ ~(n <= n - 1)
      BY <2>2
    <3>2. n # 0 => n - 1 \notin Bad
      <4> HIDE DEF Bad
      <4> QED
        BY <2>2, <3>1
    <3> HIDE DEF UpTo
    <3> QED
      BY <3>1, <3>2
  <2> DEFINE g == [s \in SUBSET S |-> Body(h, s)]
  <2>4. ASSUME NEW s \in SUBSET S, Cardinality(s) <= n
        PROVE  g[s] = Body(g, s)
    <3>1. CASE s = {}
      BY <3>1
    <3>2. CASE s # {}
      <4>1. /\ Pick(s) \in s /\ s \ {Pick(s)} \in SUBSET S /\ Cardinality(s) \in Nat \ {0}
            /\ Cardinality(s \ {Pick(s)}) = Cardinality(s) - 1
        <5>1. Pick(s) \in s
          BY <3>2 DEF Pick
        <5> QED
          BY <5>1, SmallerSubset
      <4>2. n # 0 /\ Cardinality(s \ {Pick(s)}) <= n - 1
        BY <2>4, <4>1
      <4>3. h[s \ {Pick(s)}] = Body(h, s \ {Pick(s)})
        BY <2>3, <4>1, <4>2
      <4>4. g[s \ {Pick(s)}] = h[s \ {Pick(s)}]
        BY <4>1, <4>3
      <4> QED
        BY <3>2, <4>4
    <3> QED
      BY <3>1, <3>2
  <2>5. UpTo(g, n)
    BY <2>4
  <2> QED
    BY <2>2, <2>5
<1>4. PICK g : UpTo(g, Cardinality(S))
  BY <1>1, <1>3
<1>5. \A s \in SUBSET S : g[s] = Body(g, s)
  BY <1>2, <1>4
<1>6. g = [s \in SUBSET S |-> Body(g, s)]
  BY <1>4, <1>5
<1> QED
  BY <1>6 DEF IsSum

\* A property of the subsets of a finite set holds if it passes from the smaller
\* ones to the larger: Bad are its counterexamples.
LEMMA NoLeastSubset ==
    ASSUME NEW S, IsFiniteSet(S), NEW Bad \in SUBSET (SUBSET S),
           \A s \in Bad : \E t \in Bad : Cardinality(t) < Cardinality(s)
    PROVE  Bad = {}
<1> DEFINE Sizes == {Cardinality(s) : s \in Bad}
<1>1. \A s \in Bad : Cardinality(s) \in Nat
  BY FS_Subset, FS_CardinalityType
<1>2. SUFFICES ASSUME Bad # {} PROVE FALSE
  OBVIOUS
<1>3. Sizes \in SUBSET Nat /\ Sizes # {}
  BY <1>1, <1>2
<1>4. PICK n \in Sizes : \A m \in Sizes : n <= m
  <2> HIDE DEF Sizes
  <2> QED
    BY <1>3, LeastNumber
<1>5. PICK s \in Bad : n = Cardinality(s)
  OBVIOUS
<1>6. PICK t \in Bad : Cardinality(t) < Cardinality(s)
  OBVIOUS
<1> QED
  BY <1>1, <1>4, <1>5, <1>6

LEMMA SumType ==
    ASSUME NEW S, IsFiniteSet(S), NEW f, NEW g, IsSum(g, f, S),
           \A x \in S : f[x] \in Nat
    PROVE  \A s \in SUBSET S : g[s] \in Nat
<1> DEFINE Bad == {s \in SUBSET S : g[s] \notin Nat}
<1>1. ASSUME NEW s \in Bad
      PROVE  \E t \in Bad : Cardinality(t) < Cardinality(s)
  <2>1. g[s] = IF s = {} THEN 0 ELSE f[Pick(s)] + g[s \ {Pick(s)}]
    BY DEF IsSum
  <2>2. s # {}
    BY <2>1
  <2>3. Pick(s) \in s
    BY <2>2 DEF Pick
  <2>4. /\ s \ {Pick(s)} \in SUBSET S /\ Cardinality(s) \in Nat
        /\ Cardinality(s \ {Pick(s)}) = Cardinality(s) - 1
    BY <2>3, SmallerSubset
  <2>5. s \ {Pick(s)} \in Bad
    BY <2>1, <2>2, <2>3, <2>4
  <2> QED
    BY <2>4, <2>5
<1>2. Bad = {}
  <2> HIDE DEF Bad
  <2>1. Bad \in SUBSET (SUBSET S)
    BY DEF Bad
  <2> QED
    BY <1>1, <2>1, NoLeastSubset
<1> QED
  BY <1>2

\* It does not matter which element is taken first.
LEMMA SumTakes ==
    ASSUME NEW S, IsFiniteSet(S), NEW f, NEW g, IsSum(g, f, S),
           \A x \in S : f[x] \in Nat, NEW t \in SUBSET S, NEW z \in t
    PROVE  g[t] = f[z] + g[t \ {z}]
<1> DEFINE Bad == {s \in SUBSET S : \E x \in s : g[s] # f[x] + g[s \ {x}]}
<1>1. \A s \in SUBSET S : g[s] \in Nat
  BY SumType
<1>2. ASSUME NEW s \in Bad
      PROVE  \E smaller \in Bad : Cardinality(smaller) < Cardinality(s)
  <2>1. PICK x \in s : g[s] # f[x] + g[s \ {x}]
    OBVIOUS
  <2> DEFINE y == Pick(s)
  <2>2. y \in s
    BY <2>1 DEF Pick
  <2>3. g[s] = f[y] + g[s \ {y}]
    BY <2>1 DEF IsSum
  <2>4. x # y
    BY <2>1, <2>3
  <2>5. /\ s \ {x} \in SUBSET S /\ s \ {y} \in SUBSET S /\ Cardinality(s) \in Nat
        /\ Cardinality(s \ {x}) = Cardinality(s) - 1
        /\ Cardinality(s \ {y}) = Cardinality(s) - 1
    BY <2>2, SmallerSubset
  <2>6. x \in s \ {y} /\ y \in s \ {x} /\ (s \ {x}) \ {y} = (s \ {y}) \ {x}
    BY <2>2, <2>4
  <2>7. PICK rest \in SUBSET S : rest = (s \ {x}) \ {y}
    BY <2>5
  <2> HIDE DEF y
  <2>8. /\ f[x] \in Nat /\ f[y] \in Nat /\ g[rest] \in Nat
        /\ g[s \ {x}] \in Nat /\ g[s \ {y}] \in Nat
    BY <1>1, <2>2, <2>5
  <2>9. ~ (g[s \ {y}] = f[x] + g[rest] /\ g[s \ {x}] = f[y] + g[rest])
    BY <2>1, <2>3, <2>8
  <2>10. s \ {y} \in Bad \/ s \ {x} \in Bad
    BY <2>5, <2>6, <2>7, <2>9
  <2>11. Cardinality(s) - 1 < Cardinality(s)
    BY <2>5
  <2> QED
    BY <2>5, <2>10, <2>11
<1>3. Bad = {}
  <2> HIDE DEF Bad
  <2>1. Bad \in SUBSET (SUBSET S)
    BY DEF Bad
  <2> QED
    BY <1>2, <2>1, NoLeastSubset
<1> QED
  BY <1>3

\* Nor what else could have been added.
LEMMA SumAgrees ==
    ASSUME NEW S, IsFiniteSet(S), NEW T, NEW f, NEW g, IsSum(g, f, S),
           NEW e, NEW h, IsSum(h, e, T), S \subseteq T, \A x \in S : f[x] = e[x]
    PROVE  \A s \in SUBSET S : g[s] = h[s]
<1> DEFINE Bad == {s \in SUBSET S : g[s] # h[s]}
<1>1. ASSUME NEW s \in Bad
      PROVE  \E t \in Bad : Cardinality(t) < Cardinality(s)
  <2>1. /\ g[s] = IF s = {} THEN 0 ELSE f[Pick(s)] + g[s \ {Pick(s)}]
        /\ h[s] = IF s = {} THEN 0 ELSE e[Pick(s)] + h[s \ {Pick(s)}]
    BY DEF IsSum
  <2>2. s # {}
    BY <2>1
  <2>3. Pick(s) \in s /\ f[Pick(s)] = e[Pick(s)]
    BY <2>2 DEF Pick
  <2>4. /\ s \ {Pick(s)} \in SUBSET S /\ Cardinality(s) \in Nat
        /\ Cardinality(s \ {Pick(s)}) = Cardinality(s) - 1
    BY <2>3, SmallerSubset
  <2>5. s \ {Pick(s)} \in Bad
    BY <2>1, <2>2, <2>3, <2>4
  <2> QED
    BY <2>4, <2>5
<1>2. Bad = {}
  <2> HIDE DEF Bad
  <2>1. Bad \in SUBSET (SUBSET S)
    BY DEF Bad
  <2> QED
    BY <1>1, <2>1, NoLeastSubset
<1> QED
  BY <1>2

\* The invocations that events of J add up to.
CallsIn(J, S) == MapThenSumSet(LAMBDA x : Len(J[x].usage), S)

LEMMA CallsAreASum ==
    ASSUME NEW J, NEW S, IsFiniteSet(S)
    PROVE  \E g : /\ IsSum(g, [i \in S |-> Len(J[i].usage)], S)
                  /\ CallsIn(J, S) = g[S]
<1> DEFINE f == [i \in S |-> Len(J[i].usage)]
           Fold(g) == g = [s \in SUBSET S |->
                              IF s = {} THEN 0
                              ELSE Len(J[Pick(s)].usage) + g[s \ {Pick(s)}]]
<1>1. CallsIn(J, S) = (CHOOSE g : Fold(g))[S]
  BY DEF CallsIn, MapThenSumSet, MapThenFoldSet, Pick
<1>2. \A s \in SUBSET S : s # {} => Pick(s) \in S
  BY DEF Pick
<1>3. ASSUME NEW g
      PROVE  Fold(g) <=> IsSum(g, f, S)
  <2>1. \A s \in SUBSET S :
            (IF s = {} THEN 0 ELSE Len(J[Pick(s)].usage) + g[s \ {Pick(s)}])
                = (IF s = {} THEN 0 ELSE f[Pick(s)] + g[s \ {Pick(s)}])
    BY <1>2
  <2> HIDE DEF f
  <2> QED
    BY <2>1 DEF IsSum
<1> HIDE DEF Fold, f
<1>4. \E g : IsSum(g, f, S)
  BY SumExists
<1>5. \E g : Fold(g)
  BY <1>3, <1>4
<1>6. Fold(CHOOSE g : Fold(g))
  BY <1>5
<1>7. IsSum(CHOOSE g : Fold(g), f, S)
  BY <1>3, <1>6
<1> QED
  BY <1>1, <1>7 DEF f

LEMMA NoCalls == \A J : CallsIn(J, {}) = 0
<1> SUFFICES ASSUME NEW J PROVE CallsIn(J, {}) = 0
  OBVIOUS
<1>1. PICK g : IsSum(g, [i \in {} |-> Len(J[i].usage)], {}) /\ CallsIn(J, {}) = g[{}]
  BY FS_EmptySet, CallsAreASum
<1> QED
  BY <1>1 DEF IsSum

LEMMA CallsAreNatural ==
    ASSUME NEW J, NEW S, IsFiniteSet(S), \A i \in S : Len(J[i].usage) \in Nat
    PROVE  CallsIn(J, S) \in Nat
<1> DEFINE f == [i \in S |-> Len(J[i].usage)]
<1>1. PICK g : IsSum(g, f, S) /\ CallsIn(J, S) = g[S]
  BY CallsAreASum
<1>2. \A i \in S : f[i] \in Nat
  OBVIOUS
<1> HIDE DEF f
<1> QED
  BY <1>1, <1>2, SumType

\* The events of J1 are among those of J2.
LEMMA CallsAgree ==
    ASSUME NEW J1, NEW J2, NEW S, IsFiniteSet(S), \A i \in S : J2[i] = J1[i]
    PROVE  CallsIn(J2, S) = CallsIn(J1, S)
<1> DEFINE f1 == [i \in S |-> Len(J1[i].usage)]
           f2 == [i \in S |-> Len(J2[i].usage)]
<1>1. PICK g1 : IsSum(g1, f1, S) /\ CallsIn(J1, S) = g1[S]
  BY CallsAreASum
<1>2. PICK g2 : IsSum(g2, f2, S) /\ CallsIn(J2, S) = g2[S]
  BY CallsAreASum
<1>3. \A i \in S : f1[i] = f2[i]
  OBVIOUS
<1> HIDE DEF f1, f2
<1> QED
  BY <1>1, <1>2, <1>3, SumAgrees

LEMMA CallsGrow ==
    ASSUME NEW J, NEW S, IsFiniteSet(S), NEW x, x \notin S,
           \A i \in S \cup {x} : Len(J[i].usage) \in Nat
    PROVE  CallsIn(J, S \cup {x}) = CallsIn(J, S) + Len(J[x].usage)
<1>1. PICK U : U = S \cup {x}
  OBVIOUS
<1>2. IsFiniteSet(U) /\ S \in SUBSET U /\ U \in SUBSET U /\ x \in U /\ U \ {x} = S
  BY <1>1, FS_AddElement
<1>3. PICK e : e = [i \in U |-> Len(J[i].usage)]
  OBVIOUS
<1>4. PICK f : f = [i \in S |-> Len(J[i].usage)]
  OBVIOUS
<1>5. PICK h : IsSum(h, e, U) /\ CallsIn(J, U) = h[U]
  BY <1>2, <1>3, CallsAreASum
<1>6. PICK g : IsSum(g, f, S) /\ CallsIn(J, S) = g[S]
  BY <1>4, CallsAreASum
<1>7. (\A i \in U : e[i] \in Nat) /\ (\A i \in S : f[i] = e[i] /\ f[i] \in Nat)
      /\ e[x] = Len(J[x].usage)
  BY <1>1, <1>3, <1>4
<1>8. h[U] = e[x] + h[S]
  <2>1. IsFiniteSet(U)
    BY <1>2
  <2>2. IsSum(h, e, U)
    BY <1>5
  <2>3. \A i \in U : e[i] \in Nat
    BY <1>7
  <2>4. h[U] = e[x] + h[U \ {x}]
    BY <1>2, <2>1, <2>2, <2>3, SumTakes
  <2> QED
    BY <1>2, <2>4
<1>9. g[S] = h[S] /\ g[S] \in Nat
  BY <1>2, <1>5, <1>6, <1>7, SumAgrees, SumType
<1>10. e[x] \in Nat
  BY <1>2, <1>7
<1>11. h[U] = g[S] + e[x]
  BY <1>8, <1>9, <1>10
<1> QED
  BY <1>1, <1>5, <1>6, <1>7, <1>11

-------------------------------------------------------------------------------
(* What is counted                                                           *)

InTask(k) == job[k].pc \in {"checked", "answered", "failed"}

\* The attempts that a call has made so far.
Tries(k) == IF job[k].id = 0 THEN 0 ELSE Len(work[job[k].id].attempts)

\* A call that may try again has an attempt left.
RoomLeft == \A k \in Controller : job[k].pc = "checked" => Tries(k) < Attempts

\* The budget was enough for all the attempts of a call when it was checked.
Budgeted == \A k \in Controller :
    InTask(k) => SpentBy(job[k].base) + Attempts <= MaxInvocations

SpentIsCounted ==
    Spent = CallsIn(journal, DOMAIN journal) /\ Spent <= MaxInvocations

\* The events of one kind among the first n.
OfKind(kind, n) == {j \in 1..n : journal[j].kind = kind}

\* An engine's cursor goes on from the journal that its call was checked against.
CursorsFollow == \A k \in Controller :
    InTask(k) => job[k].cursor = CallsIn(journal, OfKind(job[k].kind, job[k].base)) + Tries(k)

ScriptFollows == \A i \in DOMAIN journal :
    journal[i].id # 0 => journal[i].answer = CallsIn(journal, OfKind(journal[i].kind, i))

CountInv ==
    /\ PilotTypeOK /\ RoomLeft /\ Budgeted /\ SpentIsCounted
    /\ CursorsFollow /\ ScriptFollows

-------------------------------------------------------------------------------
(* The steps, with what they count                                           *)

\* Which call a controller begins.
Begins(k) ==
    \/ \E kind \in Kind \ Control : \E on : Begin(k, kind, on)
    \/ \E kind \in Control : \E out :
           BeginControl(k, kind, out) /\ (kind = "retrieval" => out = RetrievalPayload)

LEMMA CallsBegin ==
    ASSUME NEW k, Call(k) \/ CallControl(k)
    PROVE  Begins(k)
<1> USE KindOfTask
<1>1. CASE CallControl(k)
  <2>1. \E kind \in Control : \E out :
            BeginControl(k, kind, out) /\ (kind = "retrieval" => out = RetrievalPayload)
    BY <1>1 DEF CallControl, RecordPrerequisites, RecordRetrieval, ExactAssembly,
                ValidationReport, Control
  <2> QED
    BY <2>1 DEF Begins
<1>2. CASE Call(k)
  <2>1. \E kind \in Kind \ Control : \E on : Begin(k, kind, on)
    <3>1. CASE CallParse(k) \/ CallChallenger(k) \/ CallClaims(k) \/ CallQueries(k)
      BY <3>1 DEF CallParse, CallChallenger, CallClaims, CallQueries
    <3>2. CASE CallEvidence(k) \/ CallAggregate(k)
      BY <3>2 DEF CallEvidence, CallAggregate
    <3>3. CASE CallAssessment(k) \/ CallRevision(k) \/ CallFinalValidation(k)
      BY <3>3 DEF CallAssessment, CallRevision, CallFinalValidation
    <3>4. CASE CallPropositions(k) \/ CallPropositionAudit(k)
      BY <3>4 DEF CallPropositions, CallPropositionAudit
    <3>5. CASE CallRendering(k) \/ CallSentenceAudit(k)
      BY <3>5 DEF CallRendering, CallSentenceAudit
    <3> QED
      BY <1>2, <3>1, <3>2, <3>3, <3>4, <3>5 DEF Call
  <2> QED
    BY <2>1 DEF Begins
<1> QED
  BY <1>1, <1>2

LEMMA BeginsAre ==
    ASSUME Shaped, NEW k \in Controller, Begins(k)
    PROVE  /\ UNCHANGED <<journal, work, vars>> /\ ~Terminal /\ job[k] = Idle
           /\ \A j \in Controller : j # k => job'[j] = job[j]
           /\ job'[k].base = Len(journal) /\ job'[k].id = 0 /\ job'[k] # Idle
           /\ \/ /\ job'[k].pc = "checked" /\ job'[k].kind \in Kind \ Control
                 /\ Spent + Attempts <= MaxInvocations
                 /\ job'[k].cursor = CallsOf(job'[k].kind) /\ job'[k].out = {}
              \/ /\ job'[k].pc = "ready" /\ job'[k].kind \in Control
                 /\ job'[k].kind = "retrieval" => job'[k].out = RetrievalPayload
<1>1. CASE \E kind \in Kind \ Control : \E on : Begin(k, kind, on)
  <2>0. PICK kind \in Kind \ Control : \E on : Begin(k, kind, on)
    BY <1>1
  <2>1. PICK on : Begin(k, kind, on)
    BY <2>0
  <2>2. PICK call : call = [Idle EXCEPT !.pc = "checked", !.kind = kind, !.on = on,
                                        !.base = Len(journal), !.cursor = CallsOf(kind)]
    OBVIOUS
  <2>3. /\ call.pc = "checked" /\ call.kind = kind /\ call.out = {} /\ call.id = 0
        /\ call.base = Len(journal) /\ call.cursor = CallsOf(kind) /\ call # Idle
    BY <2>2 DEF Idle
  <2>4. job' = [job EXCEPT ![k] = call]
    BY <2>1, <2>2 DEF Begin
  <2>5. job'[k] = call /\ \A j \in Controller : j # k => job'[j] = job[j]
    BY <2>4, OtherCalls
  <2>6. /\ UNCHANGED <<journal, work, vars>> /\ ~Terminal /\ job[k] = Idle
        /\ Spent + Attempts <= MaxInvocations
    BY <2>1 DEF Begin
  <2> QED
    BY <2>3, <2>5, <2>6
<1>2. CASE \E kind \in Control : \E out :
               BeginControl(k, kind, out) /\ (kind = "retrieval" => out = RetrievalPayload)
  <2>0. PICK kind \in Control : \E out :
            BeginControl(k, kind, out) /\ (kind = "retrieval" => out = RetrievalPayload)
    BY <1>2
  <2>1. PICK out :
            BeginControl(k, kind, out) /\ (kind = "retrieval" => out = RetrievalPayload)
    BY <2>0
  <2>2. PICK call : call = [Idle EXCEPT !.pc = "ready", !.kind = kind, !.out = out,
                                        !.base = Len(journal)]
    OBVIOUS
  <2>3. /\ call.pc = "ready" /\ call.kind = kind /\ call.out = out /\ call.id = 0
        /\ call.base = Len(journal) /\ call # Idle
    BY <2>2 DEF Idle
  <2>4. job' = [job EXCEPT ![k] = call]
    BY <2>1, <2>2 DEF BeginControl
  <2>5. job'[k] = call /\ \A j \in Controller : j # k => job'[j] = job[j]
    BY <2>4, OtherCalls
  <2>6. UNCHANGED <<journal, work, vars>> /\ ~Terminal /\ job[k] = Idle
    BY <2>1 DEF BeginControl
  <2> QED
    BY <2>1, <2>3, <2>5, <2>6
<1> QED
  BY <1>1, <1>2 DEF Begins

\* What a step of the engine counts: one attempt more, or one that is refused.
EngineCounts(k, id) ==
    /\ UNCHANGED <<vars, journal>>
    /\ \A j \in Controller : j # k => job'[j] = job[j]
    /\ InTask(k) /\ job'[k].pc \in {"checked", "answered", "failed"}
    /\ job'[k].kind = job[k].kind /\ job'[k].base = job[k].base /\ job'[k].out = job[k].out
    /\ job'[k].id = id /\ DOMAIN work' = 1..Len(work') /\ Len(work') \in Nat
    /\ \A other \in 1..Len(work) : other # id => work'[other] = work[other]
    /\ \/ /\ job[k].id = 0 /\ id = Len(work) + 1 /\ Len(work') = id
          /\ work'[id].since = Len(journal)
       \/ /\ job[k].id = id /\ id \in 1..Len(work) /\ Len(work') = Len(work)
          /\ work'[id].since = work[id].since
    /\ Len(work'[id].attempts) \in 1..Attempts
    /\ job'[k].pc = "checked" => Len(work'[id].attempts) < Attempts
    /\ \/ /\ Len(work'[id].attempts) = Tries(k) + 1
          /\ job'[k].cursor = job[k].cursor + 1
       \/ Len(work'[id].attempts) = Tries(k) /\ job'[k].cursor = job[k].cursor

LEMMA AttemptCounts ==
    ASSUME Shaped, PilotTypeOK, RoomLeft, NEW k \in Controller, Attempt(k)
    PROVE  \E id : EngineCounts(k, id)
<1>1. PICK id : id = IF job[k].id = 0 THEN Len(work) + 1 ELSE job[k].id
  OBVIOUS
<1>2. PICK calls : calls = IF job[k].id = 0 THEN 1 ELSE Len(work[id].attempts) + 1
  OBVIOUS
<1>3. PICK outcome \in AttemptRecord, pc \in {"checked", "answered", "failed"} :
          /\ work' = IF job[k].id = 0
                     THEN Append(work, [attempts |-> <<outcome>>, since |-> Len(journal)])
                     ELSE [work EXCEPT ![id].attempts = Append(@, outcome)]
          /\ job' = [job EXCEPT ![k].pc = pc, ![k].id = id, ![k].cursor = @ + 1]
          /\ pc = "checked" => calls < Attempts
  BY <1>1, <1>2 DEF Attempt, AttemptRecord, AttemptsLeft
<1>4. PICK call : call = [job[k] EXCEPT !.pc = pc, !.id = id, !.cursor = @ + 1]
  OBVIOUS
<1>5. DOMAIN job[k] = FieldsOfCall /\ DOMAIN job = Controller
      /\ job[k].id \in 0..Len(work)
  BY DEF Shaped, CallShape
<1>6. job' = [job EXCEPT ![k] = call]
  BY <1>3, <1>4, <1>5
<1>7. /\ call.id = id /\ call.pc = pc /\ call.cursor = job[k].cursor + 1
      /\ call.kind = job[k].kind /\ call.base = job[k].base /\ call.out = job[k].out
  BY <1>4, <1>5 DEF FieldsOfCall
<1>8. job'[k] = call /\ \A j \in Controller : j # k => job'[j] = job[j]
  BY <1>6, OtherCalls
<1>9. job'[k].pc = "checked" => calls < Attempts
  BY <1>3, <1>7, <1>8
<1>10. UNCHANGED <<vars, journal>> /\ InTask(k) /\ job[k].pc = "checked"
  BY DEF Attempt, InTask
<1>11. /\ work \in Seq(TaskDirectory) /\ Len(work) \in Nat /\ Tries(k) < Attempts
       /\ Attempts \in Nat \ {0}
  BY <1>10, ControllerAssumption DEF Shaped, RoomLeft
<1>12. CASE job[k].id = 0
  <2>1. PICK directory : directory = [attempts |-> <<outcome>>, since |-> Len(journal)]
    OBVIOUS
  <2>2. /\ directory \in TaskDirectory /\ Len(directory.attempts) = 1
        /\ directory.since = Len(journal)
    <3>1. <<outcome>> \in Seq(AttemptRecord) /\ Len(<<outcome>>) = 1 /\ Len(journal) \in Nat
      BY DEF Shaped
    <3> QED
      BY <2>1, <3>1 DEF TaskDirectory
  <2>3. work' = Append(work, directory) /\ id = Len(work) + 1
    BY <1>1, <1>3, <1>12, <2>1
  <2>4. /\ Len(work') = Len(work) + 1 /\ DOMAIN work' = 1..Len(work') /\ Len(work') \in Nat
        /\ work'[Len(work) + 1] = directory
        /\ \A other \in 1..Len(work) : work'[other] = work[other]
    BY <1>11, <2>2, <2>3
  <2>5. Tries(k) = 0 /\ calls = 1
    BY <1>2, <1>12 DEF Tries
  <2>6. work'[id] = directory /\ Len(work') = id
    BY <2>3, <2>4
  <2>7. Len(work'[id].attempts) = Tries(k) + 1 /\ Tries(k) + 1 \in 1..Attempts
    BY <1>11, <2>2, <2>5, <2>6
  <2>8. job'[k].pc = "checked" => Len(work'[id].attempts) < Attempts
    BY <1>9, <2>5, <2>7
  <2> QED
    BY <1>7, <1>8, <1>10, <1>12, <2>2, <2>3, <2>4, <2>6, <2>7, <2>8 DEF EngineCounts
<1>13. CASE job[k].id # 0
  <2>1. id = job[k].id /\ id \in 1..Len(work)
    BY <1>1, <1>5, <1>11, <1>13
  <2>2. work[id] \in TaskDirectory /\ Len(work[id].attempts) \in 1..Attempts
    <3>1. DOMAIN work = 1..Len(work)
      BY <1>11
    <3> QED
      BY <1>11, <2>1, <3>1 DEF PilotTypeOK
  <2>3. PICK directory : directory = [work[id] EXCEPT !.attempts = Append(@, outcome)]
    OBVIOUS
  <2>4. /\ directory \in TaskDirectory /\ directory.since = work[id].since
        /\ Len(directory.attempts) = Len(work[id].attempts) + 1
    <3>1. work[id].attempts \in Seq(AttemptRecord)
      BY <2>2 DEF TaskDirectory
    <3>2. /\ Append(work[id].attempts, outcome) \in Seq(AttemptRecord)
          /\ Len(Append(work[id].attempts, outcome)) = Len(work[id].attempts) + 1
      BY <3>1
    <3>3. directory.attempts = Append(work[id].attempts, outcome)
      BY <2>2, <2>3 DEF TaskDirectory
    <3> QED
      BY <2>2, <2>3, <3>2, <3>3 DEF TaskDirectory
  <2>5. work' = [work EXCEPT ![id] = directory]
    BY <1>3, <1>13, <2>3
  <2>6. /\ Len(work') = Len(work) /\ DOMAIN work' = 1..Len(work')
        /\ work'[id] = directory
        /\ \A other \in 1..Len(work) : other # id => work'[other] = work[other]
    BY <1>11, <2>1, <2>4, <2>5
  <2>7. Tries(k) = Len(work[id].attempts) /\ calls = Tries(k) + 1
    BY <1>2, <1>13, <2>1 DEF Tries
  <2>8. Len(work'[id].attempts) = Tries(k) + 1 /\ Tries(k) + 1 \in 1..Attempts
    BY <1>11, <2>2, <2>4, <2>6, <2>7
  <2>9. job'[k].pc = "checked" => Len(work'[id].attempts) < Attempts
    BY <1>9, <2>7, <2>8
  <2> QED
    BY <1>7, <1>8, <1>10, <1>11, <2>1, <2>4, <2>6, <2>8, <2>9 DEF EngineCounts
<1> QED
  BY <1>12, <1>13

LEMMA RefuseCounts ==
    ASSUME Shaped, PilotTypeOK, NEW k \in Controller, Refuse(k)
    PROVE  \E id : EngineCounts(k, id)
<1>1. PICK id : id = job[k].id
  OBVIOUS
<1>2. /\ DOMAIN job[k] = FieldsOfCall /\ job[k].pc = "answered"
      /\ id \in 0..Len(work) /\ id # 0
  BY <1>1 DEF Shaped, CallShape, Refuse, Idle
<1>3. PICK call : call = [job[k] EXCEPT !.pc = "failed"]
  OBVIOUS
<1>4. /\ call.id = id /\ call.pc = "failed" /\ call.cursor = job[k].cursor
      /\ call.kind = job[k].kind /\ call.base = job[k].base /\ call.out = job[k].out
  BY <1>1, <1>2, <1>3 DEF FieldsOfCall
<1>5. job' = [job EXCEPT ![k] = call]
  BY <1>3 DEF Refuse
<1>6. job'[k] = call /\ \A j \in Controller : j # k => job'[j] = job[j]
  BY <1>5, OtherCalls
<1>7. UNCHANGED <<vars, journal>> /\ InTask(k)
  BY <1>2 DEF Refuse, InTask
<1>8. /\ work \in Seq(TaskDirectory) /\ Len(work) \in Nat /\ DOMAIN work = 1..Len(work)
      /\ id \in 1..Len(work)
  BY <1>2 DEF Shaped
<1>9. work[id] \in TaskDirectory /\ Len(work[id].attempts) \in 1..Attempts
  BY <1>8 DEF PilotTypeOK
<1>10. PICK attempts : attempts = [work[id].attempts EXCEPT ![Len(work[id].attempts)] = "refused"]
  OBVIOUS
<1>11. attempts \in Seq(AttemptRecord) /\ Len(attempts) = Len(work[id].attempts)
  <2>1. work[id].attempts \in Seq(AttemptRecord) /\ "refused" \in AttemptRecord
    BY <1>9 DEF TaskDirectory, AttemptRecord
  <2>2. /\ Len(work[id].attempts) \in Nat
        /\ work[id].attempts \in [1..Len(work[id].attempts) -> AttemptRecord]
    BY <2>1
  <2>3. attempts \in [1..Len(work[id].attempts) -> AttemptRecord]
    BY <1>10, <2>1, <2>2
  <2> QED
    BY <2>2, <2>3, SeqDef
<1>12. PICK directory : directory = [work[id] EXCEPT !.attempts = attempts]
  OBVIOUS
<1>13. /\ directory \in TaskDirectory /\ directory.since = work[id].since
       /\ Len(directory.attempts) = Len(work[id].attempts)
  BY <1>9, <1>11, <1>12 DEF TaskDirectory
<1>14. work' = [work EXCEPT ![id] = directory]
  BY <1>1, <1>10, <1>12 DEF Refuse
<1>15. /\ Len(work') = Len(work) /\ DOMAIN work' = 1..Len(work')
       /\ work'[id] = directory
       /\ \A other \in 1..Len(work) : other # id => work'[other] = work[other]
  BY <1>8, <1>13, <1>14
<1>16. Tries(k) = Len(work[id].attempts)
  BY <1>1, <1>2 DEF Tries
<1> QED
  BY <1>1, <1>4, <1>6, <1>7, <1>8, <1>9, <1>13, <1>15, <1>16 DEF EngineCounts

\* The event that a commit adds, what it accounts for, and what it did.
EventCounts(k, event) ==
    /\ journal' = Append(journal, event) /\ ValidSequence'
    /\ job[k] # Idle /\ job[k].base = Len(journal) /\ UNCHANGED work
    /\ job'[k] = Idle /\ \A j \in Controller : j # k => job'[j] = job[j]
    /\ event.kind = job[k].kind /\ event.on = job[k].on /\ event.id = job[k].id
    /\ event.status \in {"completed", "failed", "blocked"}
    /\ \/ /\ job[k].pc = "ready" /\ event.kind \in Control /\ event.id = 0
          /\ event.usage = <<>> /\ event.spent = Spent
       \/ /\ InTask(k) /\ event.kind \in Kind \ Control /\ event.id \in 1..Len(work)
          /\ event.usage = Usage(event.id) /\ event.answer = job[k].cursor
          /\ \/ /\ event.spent = Spent + Len(event.usage)
                /\ event.spent <= MaxInvocations
             \/ event.spent = FailedBudget(event.usage)
    /\ \/ /\ UNCHANGED vars
          /\ event.status = "completed" => event.kind \in Control /\ event.out = job[k].out
       \/ /\ event.kind \in Kind \ Control /\ event.status = "completed"
          /\ Promote(event.kind, event.on) /\ event.out = NewItems(event.kind)

LEMMA CommitCounts ==
    ASSUME Shaped, NEW k \in Controller, Accept(k) \/ Fail(k) \/ RecordControl(k)
    PROVE  \E event : EventCounts(k, event)
<1>1. CallShape(job[k]) /\ Len(work) \in Nat
  BY DEF Shaped
<1>2. CASE Accept(k)
  <2>1. PICK event :
            event = TaskEvent(k, "completed", Usage(job[k].id), NewItems(job[k].kind),
                              AcceptedBudget(Usage(job[k].id)))
    OBVIOUS
  <2>2. /\ event.kind = job[k].kind /\ event.on = job[k].on /\ event.id = job[k].id
        /\ event.status = "completed" /\ event.usage = Usage(job[k].id)
        /\ event.out = NewItems(job[k].kind) /\ event.answer = job[k].cursor
        /\ event.spent = AcceptedBudget(Usage(job[k].id))
    BY <2>1 DEF TaskEvent
  <2>3. /\ job[k].pc = "answered" /\ job[k] # Idle /\ job[k].id \in 1..Len(work)
        /\ job[k].kind \in Kind \ Control
    BY <1>1, <1>2 DEF Accept, CallShape, Idle
  <2>4. /\ AcceptedBudget(Usage(job[k].id)) <= MaxInvocations
        /\ Promote(job[k].kind, job[k].on) /\ Commit(k, event) /\ UNCHANGED work
    BY <1>2, <2>1 DEF Accept
  <2>5. /\ job[k].base = Len(journal) /\ journal' = Append(journal, event) /\ ValidSequence'
        /\ job' = [job EXCEPT ![k] = Idle]
    BY <2>4 DEF Commit
  <2>6. job'[k] = Idle /\ \A j \in Controller : j # k => job'[j] = job[j]
    BY <2>5, OtherCalls
  <2>7. event.spent = Spent + Len(event.usage) /\ event.spent <= MaxInvocations
    BY <2>2, <2>4 DEF AcceptedBudget
  <2> QED
    BY <2>2, <2>3, <2>4, <2>5, <2>6, <2>7 DEF EventCounts, InTask
<1>3. CASE Fail(k)
  <2>1. PICK event :
            event = TaskEvent(k, "failed", Usage(job[k].id), {},
                              FailedBudget(Usage(job[k].id)))
    OBVIOUS
  <2>2. /\ event.kind = job[k].kind /\ event.on = job[k].on /\ event.id = job[k].id
        /\ event.status = "failed" /\ event.usage = Usage(job[k].id)
        /\ event.answer = job[k].cursor
        /\ event.spent = FailedBudget(Usage(job[k].id))
    BY <2>1 DEF TaskEvent
  <2>3. /\ job[k].pc = "failed" /\ job[k] # Idle /\ job[k].id \in 1..Len(work)
        /\ job[k].kind \in Kind \ Control
    BY <1>1, <1>3 DEF Fail, CallShape, Idle
  <2>4. Commit(k, event) /\ UNCHANGED work /\ UNCHANGED vars
    BY <1>3, <2>1 DEF Fail
  <2>5. /\ job[k].base = Len(journal) /\ journal' = Append(journal, event) /\ ValidSequence'
        /\ job' = [job EXCEPT ![k] = Idle]
    BY <2>4 DEF Commit
  <2>6. job'[k] = Idle /\ \A j \in Controller : j # k => job'[j] = job[j]
    BY <2>5, OtherCalls
  <2> QED
    BY <2>2, <2>3, <2>4, <2>5, <2>6 DEF EventCounts, InTask
<1>4. CASE RecordControl(k)
  <2>1. PICK event : event = ControlEvent(k)
    OBVIOUS
  <2>2. /\ event.kind = job[k].kind /\ event.on = job[k].on /\ event.id = 0
        /\ event.status \in {"completed", "blocked"} /\ event.usage = <<>>
        /\ event.out = job[k].out /\ event.spent = SpentBy(job[k].base)
    BY <2>1 DEF ControlEvent
  <2>3. /\ job[k].pc = "ready" /\ job[k] # Idle /\ job[k].id = 0 /\ job[k].kind \in Control
    BY <1>1, <1>4 DEF RecordControl, CallShape, Idle
  <2>4. Commit(k, event) /\ UNCHANGED work /\ UNCHANGED vars
    BY <1>4, <2>1 DEF RecordControl
  <2>5. /\ job[k].base = Len(journal) /\ journal' = Append(journal, event) /\ ValidSequence'
        /\ job' = [job EXCEPT ![k] = Idle]
    BY <2>4 DEF Commit
  <2>6. job'[k] = Idle /\ \A j \in Controller : j # k => job'[j] = job[j]
    BY <2>5, OtherCalls
  <2>7. event.spent = Spent
    BY <2>2, <2>5 DEF Spent
  <2> QED
    BY <2>2, <2>3, <2>4, <2>5, <2>6, <2>7 DEF EventCounts
<1> QED
  BY <1>2, <1>3, <1>4

\* The calls that end without an event.
LEMMA LeavesAre ==
    ASSUME Shaped, NEW k \in Controller, ReuseControl(k) \/ Leave(k)
    PROVE  /\ UNCHANGED <<journal, work, vars>>
           /\ job'[k] = Idle /\ \A j \in Controller : j # k => job'[j] = job[j]
<1>1. job' = [job EXCEPT ![k] = Idle] /\ UNCHANGED <<journal, work, vars>>
  BY DEF ReuseControl, Leave
<1> QED
  BY <1>1, OtherCalls

\* Every step is one of these.
LEMMA Counts ==
    ASSUME Shaped, PilotTypeOK, RoomLeft, PilotNext
    PROVE  \E k \in Controller :
               \/ Begins(k) \/ ReuseControl(k) \/ Leave(k)
               \/ \E id : EngineCounts(k, id)
               \/ \E event : EventCounts(k, event)
<1>1. PICK k \in Controller :
          \/ Call(k) \/ Attempt(k) \/ Accept(k) \/ Refuse(k) \/ Fail(k)
          \/ CallControl(k) \/ RecordControl(k) \/ ReuseControl(k)
          \/ Leave(k)
  BY DEF PilotNext
<1>2. Call(k) \/ CallControl(k) => Begins(k)
  BY CallsBegin
<1>3. Attempt(k) \/ Refuse(k) => \E id : EngineCounts(k, id)
  BY AttemptCounts, RefuseCounts
<1>4. Accept(k) \/ Fail(k) \/ RecordControl(k) => \E event : EventCounts(k, event)
  BY CommitCounts
<1> QED
  BY <1>1, <1>2, <1>3, <1>4

\* The journal with an event more.
LEMMA JournalGrows ==
    ASSUME Shaped, NEW event, journal' = Append(journal, event)
    PROVE  /\ Len(journal) \in Nat /\ DOMAIN journal = 1..Len(journal)
           /\ Len(journal') = Len(journal) + 1 /\ DOMAIN journal' = 1..(Len(journal) + 1)
           /\ \A i \in 1..Len(journal) : journal'[i] = journal[i]
           /\ journal'[Len(journal) + 1] = event
  BY AppendToAny DEF Shaped

LEMMA UsageTyped ==
    ASSUME Shaped, PilotTypeOK, NEW id \in 1..Len(work)
    PROVE  /\ Len(Usage(id)) = Len(work[id].attempts) /\ Len(Usage(id)) \in 1..Attempts
           /\ \A n \in DOMAIN Usage(id) : Usage(id)[n] \in AttemptOutcome
<1>1. DOMAIN work = 1..Len(work) /\ work[id] \in TaskDirectory
  BY DEF Shaped
<1>2. work[id].attempts \in Seq(AttemptRecord) /\ Len(work[id].attempts) \in 1..Attempts
  BY <1>1 DEF PilotTypeOK, TaskDirectory
<1>3. ASSUME NEW n \in DOMAIN Usage(id)
      PROVE  Usage(id)[n] \in AttemptOutcome
  <2>1. n \in DOMAIN work[id].attempts
    BY DEF Usage
  <2>2. work[id].attempts[n] \in AttemptRecord
    BY <1>2, <2>1
  <2>3. Usage(id)[n] = IF n \in Open(id) THEN "accepted" ELSE work[id].attempts[n]
    BY <2>1 DEF Usage
  <2>4. n \notin Open(id) => work[id].attempts[n] # "open"
    BY <2>1 DEF Open
  <2> QED
    BY <2>2, <2>3, <2>4 DEF AttemptRecord, AttemptOutcome
<1> QED
  BY <1>2, <1>3, UsageIsComplete

\* Nobody else is in the directory of a call.
LEMMA OthersKeepTheirTries ==
    ASSUME Shaped, Owned, NEW k \in Controller, NEW id, EngineCounts(k, id),
           NEW j \in Controller, j # k
    PROVE  Tries(j)' = Tries(j)
<1>1. job[j].id \in 0..Len(work) /\ Len(work) \in Nat
  BY DEF Shaped, CallShape
<1>2. job[j].id # 0 => job[j].id # id
  BY <1>1 DEF Owned, EngineCounts
<1>3. job'[j] = job[j] /\ \A other \in 1..Len(work) : other # id => work'[other] = work[other]
  BY DEF EngineCounts
<1>4. job[j].id # 0 => work'[job[j].id] = work[job[j].id]
  BY <1>1, <1>2, <1>3
<1> QED
  BY <1>3, <1>4 DEF Tries

LEMMA TypesStep ==
    ASSUME Shaped, Owned, PilotTypeOK, RoomLeft, PilotNext
    PROVE  PilotTypeOK' /\ RoomLeft'
<1>1. PICK k \in Controller :
          \/ Begins(k) \/ ReuseControl(k) \/ Leave(k)
          \/ \E id : EngineCounts(k, id)
          \/ \E event : EventCounts(k, event)
  BY Counts
<1>2. /\ Len(journal) \in Nat /\ DOMAIN journal = 1..Len(journal)
      /\ Len(work) \in Nat /\ DOMAIN work = 1..Len(work) /\ Attempts \in Nat \ {0}
  BY ControllerAssumption DEF Shaped
<1>3. CASE Begins(k) \/ ReuseControl(k) \/ Leave(k)
  <2>1. /\ UNCHANGED <<journal, work>> /\ \A j \in Controller : j # k => job'[j] = job[j]
        /\ job'[k].pc \in {"idle", "ready", "checked"} /\ job'[k].id = 0
        /\ job'[k].base \in 0..Len(journal)
    <3>1. CASE Begins(k)
      BY <1>2, <3>1, BeginsAre
    <3>2. CASE ReuseControl(k) \/ Leave(k)
      BY <1>2, <3>2, LeavesAre DEF Idle
    <3> QED
      BY <1>3, <3>1, <3>2
  <2>2. PilotTypeOK'
    BY <2>1 DEF PilotTypeOK
  <2>3. RoomLeft'
    BY <1>2, <2>1 DEF RoomLeft, Tries
  <2> QED
    BY <2>2, <2>3
<1>4. CASE \E id : EngineCounts(k, id)
  <2>1. PICK id : EngineCounts(k, id)
    BY <1>4
  <2>2. /\ UNCHANGED journal /\ \A j \in Controller : j # k => job'[j] = job[j]
        /\ job'[k].pc \in {"checked", "answered", "failed"} /\ job'[k].base = job[k].base
        /\ job'[k].id = id /\ DOMAIN work' = 1..Len(work') /\ Len(work') \in Nat
        /\ Len(work'[id].attempts) \in 1..Attempts
        /\ \A other \in 1..Len(work) : other # id => work'[other] = work[other]
        /\ job'[k].pc = "checked" => Len(work'[id].attempts) < Attempts
    BY <2>1 DEF EngineCounts
  <2>3. /\ Len(work) <= Len(work') /\ id \in 1..Len(work')
        /\ work'[id].since \in 0..Len(journal)
        /\ \A other \in 1..Len(work') : other # id => other \in 1..Len(work)
    <3>1. CASE /\ job[k].id = 0 /\ id = Len(work) + 1 /\ Len(work') = id
               /\ work'[id].since = Len(journal)
      BY <1>2, <3>1
    <3>2. CASE /\ job[k].id = id /\ id \in 1..Len(work) /\ Len(work') = Len(work)
               /\ work'[id].since = work[id].since
      BY <1>2, <3>2 DEF PilotTypeOK
    <3> QED
      BY <2>1, <3>1, <3>2 DEF EngineCounts
  <2>4. \A i \in DOMAIN journal : journal[i].id \in 0..Len(work')
    BY <1>2, <2>2, <2>3 DEF PilotTypeOK
  <2>5. \A other \in 1..Len(work') : /\ Len(work'[other].attempts) \in 1..Attempts
                                     /\ work'[other].since \in 0..Len(journal)
    BY <1>2, <2>2, <2>3 DEF PilotTypeOK
  <2>6. \A j \in Controller : /\ job'[j].pc \in {"idle", "ready", "checked", "answered", "failed"}
                              /\ job'[j].id \in 0..Len(work') /\ job'[j].base \in 0..Len(journal)
    BY <1>2, <2>2, <2>3 DEF PilotTypeOK
  <2>7. PilotTypeOK'
    BY <2>2, <2>4, <2>5, <2>6 DEF PilotTypeOK
  <2>8. ASSUME NEW j \in Controller, job'[j].pc = "checked"
        PROVE  Tries(j)' < Attempts
    <3>1. CASE j = k
      BY <1>2, <2>2, <2>3, <2>8, <3>1 DEF Tries
    <3>2. CASE j # k
      BY <2>1, <2>2, <2>8, <3>2, OthersKeepTheirTries DEF RoomLeft
    <3> QED
      BY <3>1, <3>2
  <2> QED
    BY <2>7, <2>8 DEF RoomLeft
<1>5. CASE \E event : EventCounts(k, event)
  <2>1. PICK event : EventCounts(k, event)
    BY <1>5
  <2>2. /\ journal' = Append(journal, event) /\ UNCHANGED work
        /\ job'[k] = Idle /\ \A j \in Controller : j # k => job'[j] = job[j]
    BY <2>1 DEF EventCounts
  <2>3. /\ DOMAIN journal' = 1..(Len(journal) + 1) /\ Len(journal') = Len(journal) + 1
        /\ \A i \in 1..Len(journal) : journal'[i] = journal[i]
        /\ journal'[Len(journal) + 1] = event
    BY <2>2, JournalGrows
  <2>4. /\ event.kind \in Kind /\ event.status \in {"completed", "failed", "blocked"}
        /\ event.id \in 0..Len(work) /\ Len(event.usage) \in 0..Attempts
        /\ (event.id = 0) <=> (event.kind \in Control)
        /\ \A n \in DOMAIN event.usage : event.usage[n] \in AttemptOutcome
    <3>1. event.status \in {"completed", "failed", "blocked"}
      BY <2>1 DEF EventCounts
    <3>2. CASE /\ job[k].pc = "ready" /\ event.kind \in Control /\ event.id = 0
               /\ event.usage = <<>> /\ event.spent = Spent
      <4>1. Control \subseteq Kind
        BY DEF Control, Kind, Phase
      <4> QED
        BY <1>2, <3>1, <3>2, <4>1
    <3>3. CASE /\ InTask(k) /\ event.kind \in Kind \ Control /\ event.id \in 1..Len(work)
               /\ event.usage = Usage(event.id)
      BY <1>2, <3>1, <3>3, UsageTyped
    <3> QED
      BY <2>1, <3>2, <3>3 DEF EventCounts
  <2>5. ASSUME NEW i \in DOMAIN journal'
        PROVE  /\ journal'[i].kind \in Kind
               /\ journal'[i].status \in {"completed", "failed", "blocked"}
               /\ journal'[i].id \in 0..Len(work) /\ Len(journal'[i].usage) \in 0..Attempts
               /\ (journal'[i].id = 0) <=> (journal'[i].kind \in Control)
               /\ \A n \in DOMAIN journal'[i].usage : journal'[i].usage[n] \in AttemptOutcome
    <3>1. CASE i \in 1..Len(journal)
      BY <1>2, <2>3, <3>1 DEF PilotTypeOK
    <3>2. CASE i = Len(journal) + 1
      BY <2>3, <2>4, <3>2
    <3> QED
      BY <1>2, <2>3, <3>1, <3>2
  <2>6. \A id \in DOMAIN work : work[id].since \in 0..(Len(journal) + 1)
    BY <1>2 DEF PilotTypeOK
  <2>7. \A j \in Controller : /\ job'[j].pc \in {"idle", "ready", "checked", "answered", "failed"}
                              /\ job'[j].id \in 0..Len(work) /\ job'[j].base \in 0..(Len(journal) + 1)
    BY <1>2, <2>2 DEF PilotTypeOK, Idle
  <2>8. PilotTypeOK'
    BY <2>2, <2>3, <2>5, <2>6, <2>7 DEF PilotTypeOK
  <2>9. RoomLeft'
    BY <1>2, <2>2 DEF RoomLeft, Tries, Idle
  <2> QED
    BY <2>8, <2>9
<1> QED
  BY <1>1, <1>3, <1>4, <1>5

\* The properties in these terms.
LEMMA ScriptIs == ScriptIsConsumedOnce <=> ScriptFollows
  BY DEF ScriptIsConsumedOnce, ScriptFollows, CallsIn, OfKind

LEMMA CallsOfIs ==
    ASSUME Shaped, NEW kind
    PROVE  CallsOf(kind) = CallsIn(journal, OfKind(kind, Len(journal)))
<1>1. {i \in DOMAIN journal : journal[i].kind = kind} = OfKind(kind, Len(journal))
  BY DEF Shaped, OfKind
<1>2. CallsOf(kind) = CallsIn(journal, {i \in DOMAIN journal : journal[i].kind = kind})
  BY DEF CallsOf, CallsIn
<1> QED
  BY <1>1, <1>2

LEMMA AccountsAre ==
    CallsAreAccounted <=>
        /\ \A i \in DOMAIN journal : journal[i].id # 0 =>
               /\ Len(journal[i].usage) = Len(work[journal[i].id].attempts)
               /\ \A j \in DOMAIN journal : journal[j].id = journal[i].id => i = j
        /\ SpentIsCounted
  BY DEF CallsAreAccounted, SpentIsCounted, CallsIn

\* What an event does not change: all that was counted before it.
LEMMA CountsStay ==
    ASSUME Shaped, PilotTypeOK, NEW k \in Controller, NEW event, EventCounts(k, event),
           NEW n \in 0..Len(journal)
    PROVE  /\ SpentBy(n)' = SpentBy(n)
           /\ \A kind : /\ IsFiniteSet(OfKind(kind, n)) /\ OfKind(kind, n)' = OfKind(kind, n)
                        /\ CallsIn(journal', OfKind(kind, n)) = CallsIn(journal, OfKind(kind, n))
                        /\ \A i \in OfKind(kind, n) : Len(journal'[i].usage) \in Nat
<1>1. /\ Len(journal) \in Nat /\ DOMAIN journal = 1..Len(journal)
      /\ \A i \in 1..Len(journal) : journal'[i] = journal[i]
  BY JournalGrows DEF EventCounts
<1>2. SpentBy(n)' = SpentBy(n)
  BY <1>1 DEF SpentBy
<1>3. ASSUME NEW kind
      PROVE  /\ IsFiniteSet(OfKind(kind, n)) /\ OfKind(kind, n)' = OfKind(kind, n)
             /\ CallsIn(journal', OfKind(kind, n)) = CallsIn(journal, OfKind(kind, n))
             /\ \A i \in OfKind(kind, n) : Len(journal'[i].usage) \in Nat
  <2>1. OfKind(kind, n)' = OfKind(kind, n)
    BY <1>1 DEF OfKind
  <2>2. PICK S : S = OfKind(kind, n)
    OBVIOUS
  <2>3. S \in SUBSET (1..n) /\ \A i \in S : journal'[i] = journal[i] /\ i \in 1..Len(journal)
    BY <1>1, <2>2 DEF OfKind
  <2>4. IsFiniteSet(S)
    <3>1. IsFiniteSet(1..n)
      BY <1>1, FS_Interval
    <3> QED
      BY <2>3, <3>1, FS_Subset
  <2>5. CallsIn(journal', S) = CallsIn(journal, S)
    BY <2>3, <2>4, CallsAgree
  <2>6. \A i \in S : Len(journal'[i].usage) \in Nat
    BY <1>1, <2>3, ControllerAssumption DEF PilotTypeOK
  <2> QED
    BY <2>1, <2>2, <2>4, <2>5, <2>6
<1> QED
  BY <1>2, <1>3

\* The same counts in the next state.
LEMMA CountsPrimed ==
    /\ CallsIn(journal, DOMAIN journal)' = CallsIn(journal', DOMAIN journal')
    /\ \A k : CallsIn(journal, OfKind(job[k].kind, job[k].base))'
                  = CallsIn(journal', OfKind(job[k].kind, job[k].base)')
    /\ \A i : CallsIn(journal, OfKind(journal[i].kind, i))'
                  = CallsIn(journal', OfKind(journal[i].kind, i)')
  BY DEF CallsIn, MapThenSumSet, MapThenFoldSet

LEMMA SpentIsNatural ==
    ASSUME Shaped, PilotTypeOK, SpentIsCounted
    PROVE  Spent \in Nat /\ IsFiniteSet(DOMAIN journal)
<1>1. Len(journal) \in Nat /\ DOMAIN journal = 1..Len(journal)
  BY DEF Shaped
<1>2. \A i \in DOMAIN journal : Len(journal[i].usage) \in Nat
  BY ControllerAssumption DEF PilotTypeOK
<1>3. IsFiniteSet(DOMAIN journal)
  BY <1>1, FS_Interval
<1> QED
  BY <1>2, <1>3, CallsAreNatural DEF SpentIsCounted

\* An event is counted in full: a budget that was enough when its call was checked
\* still is, since CURRENT has not moved.
LEMMA EventSpends ==
    ASSUME Shaped, PilotTypeOK, Budgeted, SpentIsCounted,
           NEW k \in Controller, NEW event, EventCounts(k, event)
    PROVE  /\ event.spent = Spent + Len(event.usage) /\ event.spent <= MaxInvocations
           /\ Len(event.usage) \in Nat
<1>1. Spent \in Nat /\ MaxInvocations \in Nat /\ Attempts \in Nat
  BY SpentIsNatural, ControllerAssumption
<1>2. CASE event.usage = <<>> /\ event.spent = Spent
  BY <1>1, <1>2 DEF SpentIsCounted
<1>3. CASE /\ InTask(k) /\ event.id \in 1..Len(work) /\ event.usage = Usage(event.id)
           /\ \/ event.spent = Spent + Len(event.usage) /\ event.spent <= MaxInvocations
              \/ event.spent = FailedBudget(event.usage)
  <2>1. Len(event.usage) \in 1..Attempts
    BY <1>3, UsageTyped
  <2>2. Spent + Attempts <= MaxInvocations
    BY <1>3 DEF Budgeted, EventCounts, Spent
  <2>3. Spent + Len(event.usage) <= MaxInvocations /\ Spent + Len(event.usage) \in Nat
    BY <1>1, <2>1, <2>2
  <2>4. FailedBudget(event.usage) = Spent + Len(event.usage)
    <3>1. PICK n \in Nat : n = Spent + Len(event.usage)
      BY <2>3
    <3>2. Min({n, MaxInvocations}) = n
      <4>1. n <= MaxInvocations
        BY <2>3, <3>1
      <4>2. \A m \in {n, MaxInvocations} : (\A y \in {n, MaxInvocations} : m <= y) => m = n
        BY <1>1, <4>1
      <4>3. \A y \in {n, MaxInvocations} : n <= y
        BY <1>1, <4>1
      <4> QED
        BY <4>2, <4>3 DEF Min
    <3> QED
      BY <3>1, <3>2 DEF FailedBudget
  <2> QED
    BY <1>1, <1>3, <2>1, <2>3, <2>4
<1> QED
  BY <1>2, <1>3 DEF EventCounts

LEMMA SpentStep ==
    ASSUME Shaped, Owned, PilotTypeOK, RoomLeft, Budgeted, SpentIsCounted, PilotNext
    PROVE  SpentIsCounted' /\ Budgeted'
<1>1. PICK k \in Controller :
          \/ Begins(k) \/ ReuseControl(k) \/ Leave(k)
          \/ \E id : EngineCounts(k, id)
          \/ \E event : EventCounts(k, event)
  BY Counts
<1>2. Len(journal) \in Nat /\ DOMAIN journal = 1..Len(journal)
  BY DEF Shaped
<1>3. CASE Begins(k) \/ ReuseControl(k) \/ Leave(k)
  <2>1. /\ UNCHANGED journal /\ \A j \in Controller : j # k => job'[j] = job[j]
        /\ InTask(k)' => /\ job'[k].base = Len(journal)
                         /\ Spent + Attempts <= MaxInvocations
    <3>1. CASE Begins(k)
      BY <3>1, BeginsAre DEF InTask
    <3>2. CASE ReuseControl(k) \/ Leave(k)
      BY <3>2, LeavesAre DEF Idle, InTask
    <3> QED
      BY <1>3, <3>1, <3>2
  <2>2. Spent' = Spent /\ SpentIsCounted'
    <3>1. Spent' = Spent
      BY <2>1 DEF Spent, SpentBy
    <3> QED
      BY <2>1, <3>1, CountsPrimed DEF SpentIsCounted
  <2>3. Budgeted'
    BY <2>1 DEF Budgeted, InTask, Spent, SpentBy
  <2> QED
    BY <2>2, <2>3
<1>4. CASE \E id : EngineCounts(k, id)
  <2>1. /\ UNCHANGED journal /\ \A j \in Controller : j # k => job'[j] = job[j]
        /\ InTask(k) /\ job'[k].base = job[k].base
    BY <1>4 DEF EngineCounts
  <2>2. SpentIsCounted'
    <3>1. Spent' = Spent
      BY <2>1 DEF Spent, SpentBy
    <3> QED
      BY <2>1, <3>1, CountsPrimed DEF SpentIsCounted
  <2>3. Budgeted'
    BY <2>1 DEF Budgeted, InTask, SpentBy
  <2> QED
    BY <2>2, <2>3
<1>5. CASE \E event : EventCounts(k, event)
  <2>1. PICK event : EventCounts(k, event)
    BY <1>5
  <2>2. /\ Len(journal') = Len(journal) + 1 /\ DOMAIN journal' = 1..(Len(journal) + 1)
        /\ \A i \in 1..Len(journal) : journal'[i] = journal[i]
        /\ journal'[Len(journal) + 1] = event
    BY <2>1, JournalGrows DEF EventCounts
  <2>3. /\ event.spent = Spent + Len(event.usage) /\ event.spent <= MaxInvocations
        /\ Len(event.usage) \in Nat
    BY <2>1, EventSpends
  <2>4. Spent' = event.spent
    BY <1>2, <2>2 DEF Spent, SpentBy
  <2>5. CallsIn(journal', DOMAIN journal') = CallsIn(journal, DOMAIN journal) + Len(event.usage)
    <3>1. PICK S : S = DOMAIN journal
      OBVIOUS
    <3>2. PICK x : x = Len(journal) + 1
      OBVIOUS
    <3>3. IsFiniteSet(S) /\ x \notin S /\ DOMAIN journal' = S \cup {x}
      <4>1. IsFiniteSet(1..Len(journal))
        BY <1>2, FS_Interval
      <4> QED
        BY <1>2, <2>2, <3>1, <3>2, <4>1
    <3>4. \A i \in S : journal'[i] = journal[i] /\ Len(journal'[i].usage) \in Nat
      BY <1>2, <2>2, <3>1, ControllerAssumption DEF PilotTypeOK
    <3>5. journal'[x] = event
      BY <2>2, <3>2
    <3>6. CallsIn(journal', S) = CallsIn(journal, S)
      BY <3>3, <3>4, CallsAgree
    <3>7. \A i \in S \cup {x} : Len(journal'[i].usage) \in Nat
      BY <2>3, <3>4, <3>5
    <3>8. CallsIn(journal', S \cup {x}) = CallsIn(journal', S) + Len(journal'[x].usage)
      BY <3>3, <3>7, CallsGrow
    <3> QED
      BY <3>1, <3>3, <3>5, <3>6, <3>8
  <2>6. SpentIsCounted'
    <3>1. Spent' = CallsIn(journal', DOMAIN journal')
      BY <2>3, <2>4, <2>5 DEF SpentIsCounted
    <3> QED
      BY <2>3, <2>4, <3>1, CountsPrimed DEF SpentIsCounted
  <2>7. Budgeted'
    <3>1. SUFFICES ASSUME NEW j \in Controller, InTask(j)'
                   PROVE  SpentBy(job[j].base)' + Attempts <= MaxInvocations /\ job'[j] = job[j]
      BY DEF Budgeted, SpentBy
    <3>2. job'[k] = Idle /\ \A l \in Controller : l # k => job'[l] = job[l]
      BY <2>1 DEF EventCounts
    <3>3. j # k /\ job'[j] = job[j] /\ InTask(j)
      BY <3>1, <3>2 DEF InTask, Idle
    <3>4. PICK n \in 0..Len(journal) : n = job[j].base
      BY DEF Shaped, CallShape
    <3>5. SpentBy(n)' = SpentBy(n)
      BY <2>1, CountsStay
    <3>6. SpentBy(n) + Attempts <= MaxInvocations
      BY <3>3, <3>4 DEF Budgeted
    <3> QED
      BY <3>3, <3>4, <3>5, <3>6 DEF SpentBy
  <2> QED
    BY <2>6, <2>7
<1> QED
  BY <1>1, <1>3, <1>4, <1>5

LEMMA CursorsStep ==
    ASSUME Shaped, Owned, PilotTypeOK, RoomLeft, CursorsFollow, PilotNext
    PROVE  CursorsFollow'
<1>1. PICK k \in Controller :
          \/ Begins(k) \/ ReuseControl(k) \/ Leave(k)
          \/ \E id : EngineCounts(k, id)
          \/ \E event : EventCounts(k, event)
  BY Counts
<1>2. Len(journal) \in Nat /\ DOMAIN journal = 1..Len(journal)
  BY DEF Shaped
<1>3. \A j \in Controller : /\ Tries(j) \in Nat
                            /\ \A kind : IsFiniteSet(OfKind(kind, job[j].base))
                                         /\ CallsIn(journal, OfKind(kind, job[j].base)) \in Nat
  <2>1. SUFFICES ASSUME NEW j \in Controller
                 PROVE  /\ Tries(j) \in Nat
                        /\ \A kind : IsFiniteSet(OfKind(kind, job[j].base))
                                     /\ CallsIn(journal, OfKind(kind, job[j].base)) \in Nat
    OBVIOUS
  <2>2. Tries(j) \in Nat
    <3>1. Len(work) \in Nat /\ DOMAIN work = 1..Len(work) /\ job[j].id \in 0..Len(work)
      BY DEF Shaped, CallShape
    <3> QED
      BY <3>1, ControllerAssumption DEF Tries, PilotTypeOK
  <2>3. ASSUME NEW kind
        PROVE  IsFiniteSet(OfKind(kind, job[j].base))
               /\ CallsIn(journal, OfKind(kind, job[j].base)) \in Nat
    <3>1. PICK n \in 0..Len(journal) : n = job[j].base
      BY DEF Shaped, CallShape
    <3>2. IsFiniteSet(1..n)
      BY <1>2, FS_Interval
    <3>3. OfKind(kind, n) \in SUBSET (1..n)
      BY DEF OfKind
    <3>4. IsFiniteSet(OfKind(kind, n))
      BY <3>2, <3>3, FS_Subset
    <3>5. \A i \in OfKind(kind, n) : Len(journal[i].usage) \in Nat
      BY <1>2, <3>3, ControllerAssumption DEF PilotTypeOK
    <3>6. CallsIn(journal, OfKind(kind, n)) \in Nat
      BY <3>4, <3>5, CallsAreNatural
    <3> QED
      BY <3>1, <3>4, <3>6
  <2> QED
    BY <2>2, <2>3
<1>4. SUFFICES ASSUME NEW j \in Controller, InTask(j)'
               PROVE  job'[j].cursor = CallsIn(journal', OfKind(job[j].kind, job[j].base)')
                                       + Tries(j)'
  BY CountsPrimed DEF CursorsFollow
<1>5. CASE Begins(k) \/ ReuseControl(k) \/ Leave(k)
  <2>1. /\ UNCHANGED <<journal, work>> /\ \A l \in Controller : l # k => job'[l] = job[l]
        /\ InTask(k)' => /\ job'[k].base = Len(journal) /\ job'[k].id = 0
                         /\ job'[k].cursor = CallsOf(job'[k].kind)
    <3>1. CASE Begins(k)
      BY <3>1, BeginsAre DEF InTask
    <3>2. CASE ReuseControl(k) \/ Leave(k)
      BY <3>2, LeavesAre DEF Idle, InTask
    <3> QED
      BY <1>5, <3>1, <3>2
  <2>2. CASE j = k
    <3>1. PICK kind : kind = job'[k].kind
      OBVIOUS
    <3>2. job'[k].cursor = CallsIn(journal, OfKind(kind, Len(journal)))
      BY <1>4, <2>1, <2>2, <3>1, CallsOfIs
    <3>3. OfKind(job[k].kind, job[k].base)' = OfKind(kind, Len(journal))
      BY <1>4, <2>1, <2>2, <3>1 DEF OfKind
    <3>4. Tries(k)' = 0
      BY <1>4, <2>1, <2>2 DEF Tries
    <3>5. CallsIn(journal, OfKind(kind, Len(journal))) \in Nat
      <4>1. IsFiniteSet(1..Len(journal))
        BY <1>2, FS_Interval
      <4>2. OfKind(kind, Len(journal)) \in SUBSET (1..Len(journal))
        BY DEF OfKind
      <4>3. IsFiniteSet(OfKind(kind, Len(journal)))
        BY <4>1, <4>2, FS_Subset
      <4>4. \A i \in OfKind(kind, Len(journal)) : Len(journal[i].usage) \in Nat
        BY <1>2, <4>2, ControllerAssumption DEF PilotTypeOK
      <4> QED
        BY <4>3, <4>4, CallsAreNatural
    <3> QED
      BY <2>1, <2>2, <3>2, <3>3, <3>4, <3>5
  <2>3. CASE j # k
    <3>1. job'[j] = job[j] /\ InTask(j)
      BY <1>4, <2>1, <2>3 DEF InTask
    <3>2. /\ OfKind(job[j].kind, job[j].base)' = OfKind(job[j].kind, job[j].base)
          /\ Tries(j)' = Tries(j)
      BY <2>1, <3>1 DEF OfKind, Tries
    <3> QED
      BY <2>1, <3>1, <3>2 DEF CursorsFollow
  <2> QED
    BY <2>2, <2>3
<1>6. CASE \E id : EngineCounts(k, id)
  <2>1. PICK id : EngineCounts(k, id)
    BY <1>6
  <2>2. CASE j = k
    <3>1. /\ UNCHANGED journal /\ InTask(k) /\ job'[k].id = id /\ id # 0
          /\ job'[k].kind = job[k].kind /\ job'[k].base = job[k].base
          /\ \/ /\ Len(work'[id].attempts) = Tries(k) + 1
                /\ job'[k].cursor = job[k].cursor + 1
             \/ Len(work'[id].attempts) = Tries(k) /\ job'[k].cursor = job[k].cursor
      <4>1. Len(work) \in Nat
        BY DEF Shaped
      <4>2. id # 0
        BY <2>1, <4>1 DEF EngineCounts
      <4> QED
        BY <2>1, <4>2 DEF EngineCounts
    <3>2. OfKind(job[k].kind, job[k].base)' = OfKind(job[k].kind, job[k].base)
      BY <3>1 DEF OfKind
    <3>3. Tries(k)' = Len(work'[id].attempts)
      BY <3>1 DEF Tries
    <3>4. job[k].cursor = CallsIn(journal, OfKind(job[k].kind, job[k].base)) + Tries(k)
      BY <3>1 DEF CursorsFollow
    <3>5. PICK n \in Nat : n = CallsIn(journal, OfKind(job[k].kind, job[k].base))
      BY <1>3
    <3>6. PICK tries \in Nat : tries = Tries(k)
      BY <1>3
    <3>7. CallsIn(journal', OfKind(job[k].kind, job[k].base)') = n
      BY <3>1, <3>2, <3>5
    <3>8. job[k].cursor = n + tries
      BY <3>4, <3>5, <3>6
    <3>9. job'[k].cursor = n + Len(work'[id].attempts)
      BY <3>1, <3>6, <3>8
    <3> QED
      BY <2>2, <3>3, <3>7, <3>9
  <2>3. CASE j # k
    <3>1. UNCHANGED journal /\ job'[j] = job[j] /\ InTask(j) /\ Tries(j)' = Tries(j)
      BY <1>4, <2>1, <2>3, OthersKeepTheirTries DEF EngineCounts, InTask
    <3>2. OfKind(job[j].kind, job[j].base)' = OfKind(job[j].kind, job[j].base)
      BY <3>1 DEF OfKind
    <3> QED
      BY <3>1, <3>2 DEF CursorsFollow
  <2> QED
    BY <2>2, <2>3
<1>7. CASE \E event : EventCounts(k, event)
  <2>1. PICK event : EventCounts(k, event)
    BY <1>7
  <2>2. job'[j] = job[j] /\ InTask(j) /\ UNCHANGED work
    BY <1>4, <2>1 DEF EventCounts, InTask, Idle
  <2>3. PICK n \in 0..Len(journal) : n = job[j].base
    BY DEF Shaped, CallShape
  <2>4. PICK kind : kind = job[j].kind
    OBVIOUS
  <2>5. /\ OfKind(kind, n)' = OfKind(kind, n)
        /\ CallsIn(journal', OfKind(kind, n)) = CallsIn(journal, OfKind(kind, n))
    BY <2>1, CountsStay
  <2>6. OfKind(job[j].kind, job[j].base)' = OfKind(kind, n)
    BY <2>2, <2>3, <2>4, <2>5 DEF OfKind
  <2>7. Tries(j)' = Tries(j)
    BY <2>2 DEF Tries
  <2>8. job[j].cursor = CallsIn(journal, OfKind(kind, n)) + Tries(j)
    BY <2>2, <2>3, <2>4 DEF CursorsFollow
  <2> QED
    BY <2>2, <2>5, <2>6, <2>7, <2>8
<1> QED
  BY <1>1, <1>5, <1>6, <1>7

LEMMA ScriptStep ==
    ASSUME Shaped, Owned, PilotTypeOK, RoomLeft, CursorsFollow, ScriptFollows, PilotNext
    PROVE  ScriptFollows'
<1>1. PICK k \in Controller :
          \/ Begins(k) \/ ReuseControl(k) \/ Leave(k)
          \/ \E id : EngineCounts(k, id)
          \/ \E event : EventCounts(k, event)
  BY Counts
<1>2. Len(journal) \in Nat /\ DOMAIN journal = 1..Len(journal)
  BY DEF Shaped
<1>3. CASE \/ Begins(k) \/ ReuseControl(k) \/ Leave(k)
           \/ \E id : EngineCounts(k, id)
  <2>1. UNCHANGED journal
    BY <1>3, BeginsAre, LeavesAre DEF EngineCounts
  <2>2. \A i \in DOMAIN journal : OfKind(journal[i].kind, i)' = OfKind(journal[i].kind, i)
    BY <2>1 DEF OfKind
  <2> QED
    BY <2>1, <2>2, CountsPrimed DEF ScriptFollows
<1>4. CASE \E event : EventCounts(k, event)
  <2>1. PICK event : EventCounts(k, event)
    BY <1>4
  <2>2. /\ Len(journal') = Len(journal) + 1 /\ DOMAIN journal' = 1..(Len(journal) + 1)
        /\ \A i \in 1..Len(journal) : journal'[i] = journal[i]
        /\ journal'[Len(journal) + 1] = event
    BY <2>1, JournalGrows DEF EventCounts
  <2>3. SUFFICES ASSUME NEW i \in 1..(Len(journal) + 1), journal'[i].id # 0
                 PROVE  journal'[i].answer = CallsIn(journal', OfKind(journal[i].kind, i)')
    BY <2>2, CountsPrimed DEF ScriptFollows
  <2>4. CASE i \in 1..Len(journal)
    <3>1. PICK kind : kind = journal[i].kind
      OBVIOUS
    <3>2. /\ OfKind(kind, i)' = OfKind(kind, i)
          /\ CallsIn(journal', OfKind(kind, i)) = CallsIn(journal, OfKind(kind, i))
      BY <1>2, <2>1, <2>4, CountsStay
    <3>3. OfKind(journal[i].kind, i)' = OfKind(kind, i)'
      BY <2>2, <2>4, <3>1 DEF OfKind
    <3>4. journal[i].answer = CallsIn(journal, OfKind(kind, i))
      BY <1>2, <2>2, <2>3, <2>4, <3>1 DEF ScriptFollows
    <3> QED
      BY <2>2, <2>4, <3>2, <3>3, <3>4
  <2>5. CASE i = Len(journal) + 1
    <3>0. Len(journal) \in 0..Len(journal)
      BY <1>2
    <3>1. PICK n \in 0..Len(journal) : n = Len(journal)
      BY <3>0
    <3>2. /\ InTask(k) /\ event.id \in 1..Len(work) /\ event.usage = Usage(event.id)
          /\ event.answer = job[k].cursor /\ job[k].base = n /\ event.id = job[k].id
          /\ event.kind = job[k].kind
      BY <2>1, <2>2, <2>3, <2>5, <3>1 DEF EventCounts
    <3>3. Len(event.usage) = Tries(k) /\ Len(event.usage) \in Nat
      <4>1. Len(event.usage) = Len(work[event.id].attempts) /\ Len(event.usage) \in 1..Attempts
        BY <3>2, UsageTyped
      <4>2. event.id # 0
        BY <2>2, <2>3, <2>5
      <4> QED
        BY <3>2, <4>1, <4>2, ControllerAssumption DEF Tries
    <3>4. PICK S : S = OfKind(event.kind, n)
      OBVIOUS
    <3>5. /\ IsFiniteSet(S) /\ OfKind(event.kind, n)' = S
          /\ CallsIn(journal', S) = CallsIn(journal, S)
          /\ \A x \in S : Len(journal'[x].usage) \in Nat
      BY <2>1, <3>4, CountsStay
    <3>6. job[k].cursor = CallsIn(journal, S) + Tries(k)
      BY <3>2, <3>4 DEF CursorsFollow
    <3>7. OfKind(journal[i].kind, i)' = S \cup {i}
      <4>1. \A x \in S : x \in 1..n /\ journal'[x].kind = event.kind
        BY <2>2, <3>1, <3>4 DEF OfKind
      <4>2. \A x \in 1..n : journal'[x].kind = event.kind => x \in S
        BY <2>2, <3>1, <3>4 DEF OfKind
      <4>3. OfKind(journal[i].kind, i)' = {x \in 1..i : journal'[x].kind = event.kind}
        BY <2>2, <2>5 DEF OfKind
      <4>4. 1..i = (1..n) \cup {i} /\ journal'[i].kind = event.kind
        BY <1>2, <2>2, <2>5, <3>1
      <4> QED
        BY <4>1, <4>2, <4>3, <4>4
    <3>8. i \notin S /\ journal'[i] = event
      BY <1>2, <2>2, <2>5, <3>1, <3>4 DEF OfKind
    <3>9. \A x \in S \cup {i} : Len(journal'[x].usage) \in Nat
      BY <3>3, <3>5, <3>8
    <3>10. CallsIn(journal', S \cup {i}) = CallsIn(journal', S) + Len(journal'[i].usage)
      BY <3>5, <3>8, <3>9, CallsGrow
    <3> QED
      BY <3>2, <3>3, <3>5, <3>6, <3>7, <3>8, <3>10
  <2> QED
    BY <1>2, <2>4, <2>5
<1> QED
  BY <1>1, <1>3, <1>4

LEMMA CountInit == PilotInit => CountInv
<1> SUFFICES ASSUME PilotInit PROVE CountInv
  OBVIOUS
<1>1. /\ journal = <<>> /\ Len(journal) = 0 /\ DOMAIN journal = {} /\ work = <<>>
      /\ \A k \in Controller : job[k] = Idle
  BY DEF PilotInit
<1>2. /\ PilotTypeOK /\ RoomLeft /\ Budgeted /\ CursorsFollow /\ ScriptFollows
  <2>1. \A k \in Controller : job[k].pc = "idle" /\ job[k].id = 0 /\ job[k].base = 0
    BY <1>1 DEF Idle
  <2>2. PilotTypeOK
    BY <1>1, <2>1 DEF PilotTypeOK
  <2> QED
    BY <1>1, <2>1, <2>2 DEF RoomLeft, Budgeted, CursorsFollow, ScriptFollows, InTask
<1>3. SpentIsCounted
  <2>1. CallsIn(journal, DOMAIN journal) = 0
    BY <1>1, NoCalls
  <2> QED
    BY <1>1, <2>1, ControllerAssumption DEF SpentIsCounted, Spent, SpentBy
<1> QED
  BY <1>2, <1>3 DEF CountInv

LEMMA CountStep == PilotInv /\ CountInv /\ [PilotNext]_pilotVars => CountInv'
<1>1. CASE PilotInv /\ CountInv /\ PilotNext
  <2>1. /\ Shaped /\ Owned /\ PilotTypeOK /\ RoomLeft /\ Budgeted /\ SpentIsCounted
        /\ CursorsFollow /\ ScriptFollows
    BY <1>1 DEF PilotInv, CountInv
  <2>2. PilotTypeOK' /\ RoomLeft'
    BY <1>1, <2>1, TypesStep
  <2>3. SpentIsCounted' /\ Budgeted'
    BY <1>1, <2>1, SpentStep
  <2>4. CursorsFollow' /\ ScriptFollows'
    BY <1>1, <2>1, CursorsStep, ScriptStep
  <2> QED
    BY <2>2, <2>3, <2>4 DEF CountInv
<1>2. CASE PilotInv /\ CountInv /\ UNCHANGED pilotVars
  <2>1. UNCHANGED <<journal, work, job>>
    BY <1>2 DEF pilotVars
  <2>2. PilotTypeOK' /\ RoomLeft' /\ Budgeted'
    BY <1>2, <2>1 DEF CountInv, PilotTypeOK, RoomLeft, Budgeted, Tries, InTask, SpentBy
  <2>3. SpentIsCounted'
    <3>1. Spent' = Spent
      BY <2>1 DEF Spent, SpentBy
    <3> QED
      BY <1>2, <2>1, <3>1, CountsPrimed DEF CountInv, SpentIsCounted
  <2>4. CursorsFollow'
    <3>1. \A k \in Controller :
              /\ OfKind(job[k].kind, job[k].base)' = OfKind(job[k].kind, job[k].base)
              /\ Tries(k)' = Tries(k) /\ (InTask(k)' <=> InTask(k))
      BY <2>1 DEF OfKind, Tries, InTask
    <3> QED
      BY <1>2, <2>1, <3>1, CountsPrimed DEF CountInv, CursorsFollow
  <2>5. ScriptFollows'
    <3>1. \A i \in DOMAIN journal : OfKind(journal[i].kind, i)' = OfKind(journal[i].kind, i)
      BY <2>1 DEF OfKind
    <3> QED
      BY <1>2, <2>1, <3>1, CountsPrimed DEF CountInv, ScriptFollows
  <2> QED
    BY <2>2, <2>3, <2>4, <2>5 DEF CountInv
<1> QED
  BY <1>1, <1>2

LEMMA CountInvariant == PilotSpec => [](PilotInv /\ CountInv)
  BY PilotInitial, PilotStep, CountInit, CountStep, PTL DEF PilotSpec

\* The types of the controllers, their journal and the task directories.
THEOREM PilotTypes == PilotSpec => []PilotTypeOK
<1>1. CountInv => PilotTypeOK
  BY DEF CountInv
<1> QED
  BY <1>1, CountInvariant, PTL

\* What the journal says a run has spent is what its tasks took, attempt by
\* attempt, and within the budget: _append_task checks it as it commits, and
\* what was left when a call was begun is not spent by another before that.
THEOREM CallsAccounted == PilotSpec => []CallsAreAccounted
<1>1. PilotInv /\ CountInv => CallsAreAccounted
  <2>1. ASSUME PilotInv, CountInv PROVE CallsAreAccounted
    <3>1. EventsAccountForTheirTasks /\ SpentIsCounted
      BY <2>1 DEF PilotInv, CountInv
    <3> QED
      BY <3>1, AccountsAre DEF EventsAccountForTheirTasks
  <2> QED
    BY <2>1
<1> QED
  BY <1>1, CountInvariant, PTL

\* The answer that an accepted task rests on is the one where the journal says
\* the script is: cursors are taken from the journal and go on attempt by attempt.
THEOREM ScriptConsumedOnce == PilotSpec => []ScriptIsConsumedOnce
<1>1. CountInv => ScriptIsConsumedOnce
  BY ScriptIs DEF CountInv
<1> QED
  BY <1>1, CountInvariant, PTL

-------------------------------------------------------------------------------
(* What a closed run rests on                                                *)

\* A ledger that is retrieved, or about to be, selects what the corpus holds.
LedgersAreHits ==
    /\ \A i \in DOMAIN journal :
           journal[i].kind = "retrieval" /\ journal[i].status = "completed" =>
               \A l \in journal[i].out : l.selected = Hits[l.query]
    /\ \A k \in Controller :
           job[k].kind = "retrieval" => \A l \in job[k].out : l.selected = Hits[l.query]

SpansOf(q) == {i \in DOMAIN spans : spans[i].query = q}

\* The spans of a query are those of the one event that decided its candidates.
SpansPerDecision ==
    \A q \in Query :
        IF \E i \in DOMAIN journal : /\ journal[i].kind = "assess_evidence"
                                     /\ journal[i].status = "completed"
                                     /\ journal[i].on = q
        THEN \E b \in Nat : SpansOf(q) = (b + 1)..(b + Len(Hits[q]))
        ELSE SpansOf(q) = {}

\* The items of a draft are in the event of the task that drafted them.
DraftsRecorded ==
    /\ \A d \in propositionDrafts : \E i \in DOMAIN journal :
           /\ journal[i].kind = "propositions" /\ journal[i].status = "completed"
           /\ d.items \subseteq journal[i].out
    /\ \A d \in sentenceDrafts : \E i \in DOMAIN journal :
           /\ journal[i].kind = "render" /\ journal[i].status = "completed"
           /\ d.items \subseteq journal[i].out

\* An item that an event audits has its verdict in the record.
AuditsRecorded ==
    \A i \in DOMAIN journal : journal[i].status = "completed" =>
        /\ journal[i].kind = "audit_proposition" =>
               \E r \in propositions : /\ r.claims = journal[i].on.item.claims
                                       /\ r.text = journal[i].on.item.text
        /\ journal[i].kind = "audit_sentence" =>
               \E a \in sentenceAudits : /\ a.sources = journal[i].on.item.sources
                                         /\ a.text = journal[i].on.item.text

\* No claim is judged again once propositions are drafted from it.
DraftsAreCurrent == \A d \in propositionDrafts : d.deps = SourcesOf(d.sources)

ClosureInv ==
    /\ LedgersAreHits /\ SpansPerDecision /\ DraftsRecorded /\ AuditsRecorded
    /\ DraftsAreCurrent /\ ClosedRunsAreComplete

-------------------------------------------------------------------------------
(* The journal as it stands                                                  *)

\* What is known of every state, for the lemmas below.
Journalled ==
    /\ Len(journal) \in Nat /\ DOMAIN journal = 1..Len(journal)
    /\ \A i \in DOMAIN journal : journal[i].kind \in Kind

LEMMA PhasesAre == Phase \in [Kind -> 0..12]
  BY DEF Kind, Phase

\* The furthest phase is no less than that of any completed event.
LEMMA PhaseReached ==
    ASSUME Journalled, NEW i \in DOMAIN journal, journal[i].status = "completed"
    PROVE  CompletedPhase \in 0..12 /\ Phase[journal[i].kind] <= CompletedPhase
<1>1. PICK S : S = {0} \cup {Phase[journal[j].kind] :
                        j \in {l \in DOMAIN journal : journal[l].status = "completed"}}
  OBVIOUS
<1>2. S \in SUBSET (0..12) /\ Phase[journal[i].kind] \in S
  BY <1>1, PhasesAre DEF Journalled
<1>3. PICK m \in S : \A y \in S : y <= m
  <2>1. PICK T : T = {n \in Nat : \E y \in S : n = 12 - y}
    OBVIOUS
  <2>2. T # {} /\ T \in SUBSET Nat
    <3>1. PICK y \in S : TRUE
      BY <1>2
    <3>2. 12 - y \in Nat
      BY <1>2, <3>1
    <3> QED
      BY <2>1, <3>1, <3>2
  <2>3. PICK n \in T : \A l \in T : n <= l
    BY <2>2, LeastNumber
  <2>4. PICK m \in S : n = 12 - m
    BY <2>1, <2>3
  <2>5. \A y \in S : y \in 0..12 /\ 12 - y \in T
    BY <1>2, <2>1
  <2> QED
    BY <1>2, <2>3, <2>4, <2>5
<1>4. CompletedPhase = Max(S)
  BY <1>1 DEF CompletedPhase
<1>5. Max(S) \in S /\ \A y \in S : Max(S) >= y
  BY <1>2, <1>3 DEF Max
<1> QED
  BY <1>2, <1>4, <1>5

\* The last event before n in a set of them.
LEMMA LastIs ==
    ASSUME NEW S \in SUBSET Nat, NEW i \in S, \A j \in S : j <= i
    PROVE  Max(S) = i
<1>1. \A x \in S : (\A y \in S : x >= y) => x = i
  OBVIOUS
<1> QED
  BY <1>1 DEF Max

\* The candidates of a query are decided by one event.
AssessedOnce ==
    \A i, j \in DOMAIN journal :
        /\ journal[i].kind = "assess_evidence" /\ journal[i].status = "completed"
        /\ journal[j].kind = "assess_evidence" /\ journal[j].status = "completed"
        /\ journal[i].on = journal[j].on
        => i = j

LEMMA EvidenceOnce == Journalled /\ ValidSequence => AssessedOnce
<1> SUFFICES ASSUME Journalled, ValidSequence,
                    NEW i \in DOMAIN journal, NEW j \in DOMAIN journal,
                    journal[i].kind = "assess_evidence", journal[i].status = "completed",
                    journal[j].kind = "assess_evidence", journal[j].status = "completed",
                    journal[i].on = journal[j].on
             PROVE  i = j
  BY DEF AssessedOnce
<1>1. CompletedPhase \in 0..12 /\ 6 <= CompletedPhase
  BY PhaseReached DEF Phase
<1>2. RetrievalProgress
  BY <1>1 DEF ValidSequence, PhasesGrounded
<1>3. i \in Completed("assess_evidence") /\ j \in Completed("assess_evidence")
  BY DEF Completed
<1> QED
  BY <1>2, <1>3 DEF RetrievalProgress

\* The items of every draft are audited, not only those of the latest: the next
\* draft could not have been accepted before.
LEMMA DraftsAudited ==
    ASSUME Journalled, NEW producer, NEW auditor,
           AuditsFollowDrafts(producer, auditor), AuditsComplete(producer, auditor),
           NEW i \in Completed(producer), NEW item \in journal[i].out
    PROVE  \E j \in Completed(auditor) : journal[j].on.item = item
<1>1. Completed(producer) \in SUBSET (1..Len(journal)) /\ Len(journal) \in Nat
  BY DEF Journalled, Completed
<1>2. PICK n \in Nat : /\ i < n /\ Outstanding(producer, auditor, n) = {}
                      /\ \A l \in Completed(producer) : l < n => l <= i
  <2>1. PICK later : later = {l \in Completed(producer) : i < l}
    OBVIOUS
  <2>2. CASE later = {}
    <3>1. Len(journal) + 1 \in Nat /\ i < Len(journal) + 1
      BY <1>1
    <3>2. \A l \in Completed(producer) : l <= i
      BY <1>1, <2>1, <2>2
    <3> QED
      BY <3>1, <3>2 DEF AuditsComplete
  <2>3. CASE later # {}
    <3>1. later \in SUBSET Nat
      BY <1>1, <2>1
    <3>2. PICK n \in later : \A l \in later : n <= l
      BY <2>3, <3>1, LeastNumber
    <3>3. n \in Nat /\ i < n /\ n \in Completed(producer)
      BY <2>1, <3>1, <3>2
    <3>4. \A l \in Completed(producer) : l < n => l <= i
      BY <1>1, <2>1, <3>2, <3>3
    <3> QED
      BY <3>3, <3>4 DEF AuditsFollowDrafts
  <2> QED
    BY <2>2, <2>3
<1>3. PICK drafts : drafts = {l \in Completed(producer) : l < n}
  OBVIOUS
<1>4. Max(drafts) = i /\ drafts # {}
  <2>1. drafts \in SUBSET Nat /\ i \in drafts /\ \A l \in drafts : l <= i
    BY <1>1, <1>2, <1>3
  <2> QED
    BY <2>1, LastIs
<1>5. Outstanding(producer, auditor, n) =
          journal[i].out \ {journal[j].on.item : j \in {l \in Completed(auditor) : i < l /\ l < n}}
  BY <1>3, <1>4 DEF Outstanding
<1> QED
  BY <1>2, <1>5

\* What the report's own validation finds, of everything that the run has made.
LEMMA ClosureShows ==
    /\ Journalled /\ ValidSequence /\ IInv /\ LedgersAreHits /\ SpansPerDecision
    /\ DraftsRecorded /\ AuditsRecorded /\ DraftsAreCurrent
    => ClosedRunsAreComplete
<1> SUFFICES ASSUME Journalled, ValidSequence, IInv, LedgersAreHits, SpansPerDecision,
                    DraftsRecorded, AuditsRecorded, DraftsAreCurrent, Closed
             PROVE  ClosedRunsAreComplete
  BY DEF ClosedRunsAreComplete
<1>1. CompletedPhase \in 0..12 /\ 12 <= CompletedPhase
  <2>1. Len(journal) \in DOMAIN journal
    BY DEF Journalled, Closed
  <2> QED
    BY <2>1, PhaseReached DEF Closed, Newest, Phase
<1>2. /\ RetrievalProgress /\ EvidenceDecided /\ EvidencePartition
      /\ \A c \in claims : Paired(c)
      /\ ClaimsTerminal
      /\ AuditsComplete("propositions", "audit_proposition")
      /\ AuditsComplete("render", "audit_sentence")
      /\ \A i \in Completed("assembly") : {x.sentence : x \in journal[i].out} = Sentences
  BY <1>1 DEF ValidSequence, PhasesGrounded
<1>3. DraftsInOrder /\ PacketsCited
  BY DEF ValidSequence, ClosureComplete
<1>4. TypeOK /\ claims \subseteq Claim /\ queries \subseteq Query
  BY DEF IInv, TypeOK
<1>5. ASSUME NEW q \in Query, ClaimOf[q] \in claims
      PROVE  Cardinality(SpansOf(q)) = Len(Hits[q])
  <2>1. q \in queries
    BY <1>2, <1>5 DEF RetrievalProgress
  <2>2. PICK l \in Ledgers : l.query = q
    BY <1>2, <2>1 DEF RetrievalProgress
  <2>3. \A x \in Ledgers : x.selected = Hits[x.query]
    BY DEF Ledgers, Completed, LedgersAreHits
  <2>4. Len(Hits[q]) \in Nat /\ (Hits[q] = <<>> <=> Len(Hits[q]) = 0)
    <3>1. Hits[q] \in Seq(Source)
      BY HitsAssumption
    <3> QED
      BY <3>1
  <2>5. CASE Hits[q] # <<>>
    <3>1. q \in SelectedQueries
      BY <2>2, <2>3, <2>5 DEF SelectedQueries
    <3>2. \E i \in DOMAIN journal : /\ journal[i].kind = "assess_evidence"
                                    /\ journal[i].status = "completed" /\ journal[i].on = q
      BY <1>2, <3>1 DEF EvidenceDecided, Completed
    <3>3. PICK b \in Nat : SpansOf(q) = (b + 1)..(b + Len(Hits[q]))
      BY <3>2 DEF SpansPerDecision
    <3>4. PICK low \in Int, high \in Int :
              low = b + 1 /\ high = b + Len(Hits[q]) /\ low <= high
      BY <2>4, <2>5
    <3>5. Cardinality(low..high) = high - low + 1
      BY <3>4, FS_Interval
    <3> QED
      BY <2>4, <3>3, <3>4, <3>5
  <2>6. CASE Hits[q] = <<>>
    <3>1. q \notin SelectedQueries
      BY <2>3, <2>6 DEF SelectedQueries
    <3>2. ~\E i \in DOMAIN journal : /\ journal[i].kind = "assess_evidence"
                                     /\ journal[i].status = "completed" /\ journal[i].on = q
      BY <1>2, <3>1 DEF EvidenceDecided, Completed
    <3>3. SpansOf(q) = {}
      BY <3>2 DEF SpansPerDecision
    <3> QED
      BY <2>4, <2>6, <3>3, FS_EmptySet
  <2> QED
    BY <2>5, <2>6
<1>6. ASSUME NEW c \in claims
      PROVE  /\ Assessed(c) /\ (Validated(c) <=> assessment[c].decision # "reject")
             /\ \A p \in Paper : cpe[c][p] = Evidence(c, p)
             /\ Published(c) => Cited(c)
  <2>1. Assessed(c) /\ (assessment[c].decision = "reject" => ~Validated(c))
    BY <1>2 DEF Paired
  <2>2. assessment[c].decision # "reject" => Validated(c)
    BY <1>2 DEF ClaimsTerminal
  <2>3. \A p \in Paper : cpe[c][p] = Evidence(c, p)
    BY <1>2, <1>4 DEF EvidencePartition
  <2>4. Published(c) => Cited(c)
    BY <1>3, <1>4 DEF PacketsCited, Cited
  <2> QED
    BY <2>1, <2>2, <2>3, <2>4
<1>7. ASSUME NEW d \in propositionDrafts, NEW item \in d.items
      PROVE  AuditedProposition(d, item)
  <2>1. PICK i \in Completed("propositions") : item \in journal[i].out
    BY DEF DraftsRecorded, Completed
  <2>2. PICK j \in Completed("audit_proposition") : journal[j].on.item = item
    BY <1>2, <1>3, <2>1, DraftsAudited DEF DraftsInOrder
  <2>3. PICK r \in propositions : r.claims = item.claims /\ r.text = item.text
    BY <2>2 DEF Completed, AuditsRecorded
  <2>4. r.deps = SourcesOf(item.claims) /\ d.deps = SourcesOf(d.sources)
    BY <2>3 DEF IInv, PropositionsStandOnTheirSources, DraftsAreCurrent
  <2>5. item.claims \subseteq d.sources
    BY DEF IInv, ItemsCiteTheirDraft
  <2>6. Projected(d.deps, item.claims) = SourcesOf(item.claims)
    BY <2>4, <2>5 DEF Projected, SourcesOf
  <2> QED
    BY <2>3, <2>4, <2>6 DEF AuditedProposition
<1>8. ASSUME NEW d \in sentenceDrafts, NEW item \in d.items
      PROVE  AuditedSentence(item)
  <2>1. PICK i \in Completed("render") : item \in journal[i].out
    BY DEF DraftsRecorded, Completed
  <2>2. PICK j \in Completed("audit_sentence") : journal[j].on.item = item
    BY <1>2, <1>3, <2>1, DraftsAudited DEF DraftsInOrder
  <2> QED
    BY <2>2 DEF Completed, AuditsRecorded, AuditedSentence
<1> QED
  BY <1>2, <1>5, <1>6, <1>7, <1>8 DEF ClosedRunsAreComplete, SpansOf

-------------------------------------------------------------------------------
(* How a closed run comes about                                              *)

LEMMA InitiallyOpen == PilotInit => ClosureInv
<1> SUFFICES ASSUME PilotInit PROVE ClosureInv
  OBVIOUS
<1>1. /\ journal = <<>> /\ DOMAIN journal = {} /\ spans = <<>> /\ DOMAIN spans = {}
      /\ propositionDrafts = {} /\ sentenceDrafts = {}
      /\ \A k \in Controller : job[k].kind = "none"
  BY DEF PilotInit, Init, Idle
<1>2. LedgersAreHits /\ DraftsRecorded /\ AuditsRecorded /\ DraftsAreCurrent
  BY <1>1 DEF LedgersAreHits, DraftsRecorded, AuditsRecorded, DraftsAreCurrent
<1>3. SpansPerDecision
  BY <1>1 DEF SpansPerDecision, SpansOf
<1>4. ClosedRunsAreComplete
  BY <1>1 DEF ClosedRunsAreComplete, Closed
<1> QED
  BY <1>2, <1>3, <1>4 DEF ClosureInv

\* A step that commits nothing: a call begins, runs its engine, or ends.
LEMMA NothingCommitted ==
    ASSUME ClosureInv, UNCHANGED <<journal, vars>>,
           \A k \in Controller : job'[k].kind = "retrieval" =>
               \/ job[k].kind = "retrieval" /\ job'[k].out = job[k].out
               \/ job'[k].out = RetrievalPayload
    PROVE  ClosureInv'
<1>1. /\ UNCHANGED <<journal, claims, queries, spans, cpe, assessment, final, packet>>
      /\ UNCHANGED <<propositionDrafts, propositions, sentenceDrafts, sentenceAudits>>
  BY DEF vars, discoveryVars, evidenceVars, judgementVars, propositionVars, sentenceVars
<1>2. LedgersAreHits'
  <2>1. \A l \in RetrievalPayload : l.selected = Hits[l.query]
    BY DEF RetrievalPayload
  <2> QED
    BY <1>1, <2>1 DEF ClosureInv, LedgersAreHits
<1>3. SpansPerDecision'
  BY <1>1 DEF ClosureInv, SpansPerDecision, SpansOf
<1>4. DraftsRecorded' /\ AuditsRecorded'
  BY <1>1 DEF ClosureInv, DraftsRecorded, AuditsRecorded
<1>5. DraftsAreCurrent'
  BY <1>1 DEF ClosureInv, DraftsAreCurrent, SourcesOf
<1>6. ClosedRunsAreComplete'
  BY <1>1 DEF ClosureInv, ClosedRunsAreComplete, Closed, Newest, Assessed, Validated,
     Evidence, Published, Cited, AuditedProposition, Projected, AuditedSentence,
     Completed, Sentences
<1> QED
  BY <1>2, <1>3, <1>4, <1>5, <1>6 DEF ClosureInv

\* Which part of the record the promotion of a task writes.
LEMMA PromotionWrites ==
    ASSUME NEW kind, NEW on, Promote(kind, on)
    PROVE  /\ UNCHANGED spans \/ (kind = "assess_evidence" /\ AssessEvidence(on))
           /\ UNCHANGED <<assessment, packet>> \/ kind \in {"assess_claim", "validate_final"}
           /\ UNCHANGED propositionDrafts
                 \/ (kind = "propositions" /\ GeneratePropositions(on))
           /\ UNCHANGED sentenceDrafts \/ kind = "render"
           /\ kind = "assess_evidence" => AssessEvidence(on)
           /\ kind = "audit_proposition" =>
                  \E verdict : AuditProposition(on.draft, on.item, verdict)
           /\ kind = "audit_sentence" =>
                  \E verdict : AuditRenderedSentence(on.draft, on.item, verdict)
<1> USE DEF vars, discoveryVars, evidenceVars, judgementVars, propositionVars, sentenceVars
<1>1. CASE kind \in {"parse", "challenge", "revise"} /\ UNCHANGED vars
  BY <1>1
<1>2. CASE kind = "claims" /\ \E S \in (SUBSET Claim) \ {{}} : GenerateCandidateClaims(S)
  BY <1>2 DEF GenerateCandidateClaims
<1>3. CASE kind = "queries" /\ GenerateRetrievalQueries(on)
  BY <1>3 DEF GenerateRetrievalQueries
<1>4. CASE kind = "assess_evidence" /\ AssessEvidence(on)
  BY <1>4 DEF AssessEvidence, PromoteCandidates
<1>5. CASE kind = "aggregate" /\ AggregatePaperEvidence(on.claim, on.paper)
  BY <1>5 DEF AggregatePaperEvidence
<1>6. CASE kind = "assess_claim" /\ \E decision \in ClaimDecision : AssessClaim(on, decision)
  BY <1>6 DEF AssessClaim
<1>7. CASE /\ kind = "validate_final"
           /\ \E status \in {"valid", "invalid"} :
                  ValidateFinalClaim(on, FinalText(on), status)
  BY <1>7 DEF ValidateFinalClaim
<1>8. CASE kind = "propositions" /\ GeneratePropositions(on)
  BY <1>8 DEF GeneratePropositions
<1>9. CASE kind = "render" /\ RenderProse(on)
  BY <1>9 DEF RenderProse
<1>10. CASE PromoteAudit(kind, on)
  <2>1. CASE \E verdict \in {"pass", "fail"} :
                 kind = "audit_proposition" /\ AuditProposition(on.draft, on.item, verdict)
    BY <2>1 DEF AuditProposition
  <2>2. CASE \E verdict \in {"pass", "fail"} :
                 kind = "audit_sentence" /\ AuditRenderedSentence(on.draft, on.item, verdict)
    BY <2>2 DEF AuditRenderedSentence
  <2> QED
    BY <1>10, <2>1, <2>2 DEF PromoteAudit
<1> QED
  BY <1>1, <1>2, <1>3, <1>4, <1>5, <1>6, <1>7, <1>8, <1>9, <1>10
     DEF Promote, PromoteEvidence

\* What a commit adds to the journal and to the record.
CommitAdds(event) ==
    /\ Len(journal') = Len(journal) + 1 /\ DOMAIN journal' = 1..(Len(journal) + 1)
    /\ Len(journal) \in Nat /\ DOMAIN journal = 1..Len(journal)
    /\ \A i \in 1..Len(journal) : journal'[i] = journal[i]
    /\ journal'[Len(journal) + 1] = event
    /\ \/ /\ UNCHANGED vars
          /\ event.status = "completed" => event.kind \in Control
       \/ /\ event.kind \in Kind \ Control /\ event.status = "completed"
          /\ Promote(event.kind, event.on) /\ event.out = NewItems(event.kind)

LEMMA LedgersStep ==
    ASSUME Shaped, LedgersAreHits, NEW k \in Controller, NEW event, EventCounts(k, event)
    PROVE  LedgersAreHits'
<1>1. /\ DOMAIN journal' = 1..(Len(journal) + 1) /\ DOMAIN journal = 1..Len(journal)
      /\ Len(journal) \in Nat /\ journal'[Len(journal) + 1] = event
      /\ \A i \in 1..Len(journal) : journal'[i] = journal[i]
  BY JournalGrows DEF EventCounts
<1>2. \A j \in Controller : job'[j].kind = "retrieval" => job'[j] = job[j]
  BY DEF EventCounts, Idle
<1>3. event.kind = "retrieval" /\ event.status = "completed" =>
          job[k].kind = "retrieval" /\ event.out = job[k].out
  BY DEF EventCounts, Control
<1>4. ASSUME NEW i \in DOMAIN journal', journal'[i].kind = "retrieval",
             journal'[i].status = "completed"
      PROVE  \A l \in journal'[i].out : l.selected = Hits[l.query]
  <2>1. CASE i \in 1..Len(journal)
    BY <1>1, <1>4, <2>1 DEF LedgersAreHits
  <2>2. CASE i = Len(journal) + 1
    BY <1>1, <1>3, <1>4, <2>2 DEF LedgersAreHits
  <2> QED
    BY <1>1, <2>1, <2>2
<1> QED
  BY <1>2, <1>4 DEF LedgersAreHits

LEMMA SpansStep ==
    ASSUME TypeOK, SpansPerDecision, AssessedOnce', NEW event, CommitAdds(event)
    PROVE  SpansPerDecision'
<1>1. PICK n \in Nat : n = Len(journal)
  BY DEF CommitAdds
<1>2. /\ DOMAIN journal = 1..n /\ DOMAIN journal' = 1..(n + 1)
      /\ \A i \in 1..n : journal'[i] = journal[i]
      /\ journal'[n + 1] = event
  BY <1>1 DEF CommitAdds
<1>3. Control \cap {"assess_evidence"} = {}
  BY DEF Control
<1>4. SUFFICES ASSUME NEW q \in Query
               PROVE  IF \E i \in 1..(n + 1) : /\ journal'[i].kind = "assess_evidence"
                                               /\ journal'[i].status = "completed"
                                               /\ journal'[i].on = q
                      THEN \E b \in Nat : SpansOf(q)' = (b + 1)..(b + Len(Hits[q]))
                      ELSE SpansOf(q)' = {}
  BY <1>2 DEF SpansPerDecision, SpansOf
<1>5. CASE event.kind = "assess_evidence" /\ event.status = "completed"
  <2>1. AssessEvidence(event.on)
    BY <1>3, <1>5, PromotionWrites DEF CommitAdds
  <2>2. PICK r \in Query : r = event.on
    BY <2>1 DEF AssessEvidence, TypeOK
  <2>3. PICK decided \in [DOMAIN Hits[r] -> Decisions] : PromoteCandidates(r, decided)
    BY <2>1, <2>2 DEF AssessEvidence
  <2>4. PICK length \in Nat : length = Len(spans) /\ DOMAIN spans = 1..length
    BY DEF TypeOK
  <2>5. PICK hits \in Nat : hits = Len(Hits[r]) /\ DOMAIN Hits[r] = 1..hits
    <3>1. Hits[r] \in Seq(Source)
      BY HitsAssumption
    <3> QED
      BY <3>1
  <2>6. /\ Len(spans') = length + hits /\ DOMAIN spans' = 1..(length + hits)
        /\ \A i \in 1..length : spans'[i] = spans[i]
        /\ \A i \in 1..hits : spans'[length + i].query = r
    <3>1. Len(spans) + Len(Hits[r]) <= MaxSpans
      BY <2>1, <2>2 DEF AssessEvidence
    <3>2. /\ spans' \in Seq(Span) /\ Len(spans') = Len(spans) + Len(Hits[r])
          /\ \A i \in 1..Len(spans) : spans'[i] = spans[i]
          /\ \A i \in 1..Len(Hits[r]) : spans'[Len(spans) + i].query = r
      BY <2>3, <3>1, Promotion
    <3> QED
      BY <2>4, <2>5, <3>2
  <2>7. \A i \in 1..(length + hits) : i > length => spans'[i].query = r
    <3>1. \A i \in 1..(length + hits) : i > length => i - length \in 1..hits /\ length + (i - length) = i
      OBVIOUS
    <3> QED
      BY <2>6, <3>1
  <2>8. CASE q = r
    <3>1. ~\E i \in DOMAIN journal : /\ journal[i].kind = "assess_evidence"
                                     /\ journal[i].status = "completed" /\ journal[i].on = q
      <4>1. SUFFICES ASSUME NEW i \in 1..n, journal[i].kind = "assess_evidence",
                            journal[i].status = "completed", journal[i].on = q
                     PROVE  FALSE
        BY <1>2
      <4>2. i \in DOMAIN journal' /\ n + 1 \in DOMAIN journal' /\ i # n + 1
        BY <1>2
      <4>3. /\ journal'[i].kind = "assess_evidence" /\ journal'[i].status = "completed"
            /\ journal'[n + 1].kind = "assess_evidence" /\ journal'[n + 1].status = "completed"
            /\ journal'[i].on = journal'[n + 1].on
        BY <1>2, <1>5, <2>2, <2>8, <4>1
      <4> QED
        BY <4>2, <4>3 DEF AssessedOnce
    <3>2. SpansOf(q) = {}
      BY <3>1 DEF SpansPerDecision
    <3>3. \A i \in 1..length : spans'[i].query # q
      BY <2>4, <2>6, <3>2 DEF SpansOf
    <3>4. SpansOf(q)' = {i \in 1..(length + hits) : spans'[i].query = q}
      BY <2>6 DEF SpansOf
    <3>5. SpansOf(q)' = (length + 1)..(length + hits)
      BY <2>7, <2>8, <3>3, <3>4
    <3>6. n + 1 \in 1..(n + 1) /\ journal'[n + 1].on = q
      BY <1>2, <2>2, <2>8
    <3> QED
      BY <1>2, <1>5, <2>5, <2>8, <3>5, <3>6
  <2>9. CASE q # r
    <3>1. SpansOf(q)' = {i \in 1..(length + hits) : spans'[i].query = q}
      BY <2>6 DEF SpansOf
    <3>2. SpansOf(q) = {i \in 1..length : spans[i].query = q}
      BY <2>4 DEF SpansOf
    <3>3. SpansOf(q)' = SpansOf(q)
      BY <2>6, <2>7, <2>9, <3>1, <3>2
    <3>4. journal'[n + 1].on # q
      BY <1>2, <2>2, <2>9
    <3> QED
      BY <1>2, <3>3, <3>4 DEF SpansPerDecision
  <2> QED
    BY <2>8, <2>9
<1>6. CASE ~(event.kind = "assess_evidence" /\ event.status = "completed")
  <2>1. UNCHANGED spans
    BY <1>6, PromotionWrites DEF CommitAdds, vars, evidenceVars
  <2>2. SpansOf(q)' = SpansOf(q)
    BY <2>1 DEF SpansOf
  <2> QED
    BY <1>2, <1>6, <2>2 DEF SpansPerDecision
<1> QED
  BY <1>5, <1>6

LEMMA DraftsStep ==
    ASSUME DraftsRecorded, NEW event, CommitAdds(event)
    PROVE  DraftsRecorded'
<1>1. /\ DOMAIN journal = 1..Len(journal) /\ DOMAIN journal' = 1..(Len(journal) + 1)
      /\ \A i \in 1..Len(journal) : journal'[i] = journal[i] /\ i \in DOMAIN journal'
      /\ journal'[Len(journal) + 1] = event /\ Len(journal) + 1 \in DOMAIN journal'
  BY DEF CommitAdds
<1>2. ASSUME NEW d \in propositionDrafts'
      PROVE  \E i \in DOMAIN journal' :
                 /\ journal'[i].kind = "propositions" /\ journal'[i].status = "completed"
                 /\ d.items \subseteq journal'[i].out
  <2>1. CASE d \in propositionDrafts
    BY <1>1, <2>1 DEF DraftsRecorded
  <2>2. CASE d \notin propositionDrafts
    <3>1. /\ event.kind = "propositions" /\ event.status = "completed"
          /\ event.out = NewItems("propositions")
      BY <1>2, <2>2, PromotionWrites DEF CommitAdds, vars, propositionVars
    <3>2. d.items \subseteq event.out
      BY <1>2, <2>2, <3>1 DEF NewItems
    <3> QED
      BY <1>1, <3>1, <3>2
  <2> QED
    BY <2>1, <2>2
<1>3. ASSUME NEW d \in sentenceDrafts'
      PROVE  \E i \in DOMAIN journal' :
                 /\ journal'[i].kind = "render" /\ journal'[i].status = "completed"
                 /\ d.items \subseteq journal'[i].out
  <2>1. CASE d \in sentenceDrafts
    BY <1>1, <2>1 DEF DraftsRecorded
  <2>2. CASE d \notin sentenceDrafts
    <3>1. /\ event.kind = "render" /\ event.status = "completed"
          /\ event.out = NewItems("render")
      BY <1>3, <2>2, PromotionWrites DEF CommitAdds, vars, sentenceVars
    <3>2. d.items \subseteq event.out
      BY <1>3, <2>2, <3>1 DEF NewItems
    <3> QED
      BY <1>1, <3>1, <3>2
  <2> QED
    BY <2>1, <2>2
<1> QED
  BY <1>2, <1>3 DEF DraftsRecorded

LEMMA VerdictsStep ==
    ASSUME AuditsRecorded, [Next]_vars, NEW event, CommitAdds(event)
    PROVE  AuditsRecorded'
<1>1. /\ DOMAIN journal = 1..Len(journal) /\ DOMAIN journal' = 1..(Len(journal) + 1)
      /\ Len(journal) \in Nat /\ \A i \in 1..Len(journal) : journal'[i] = journal[i]
      /\ journal'[Len(journal) + 1] = event
  BY DEF CommitAdds
<1>2. propositions \subseteq propositions' /\ sentenceAudits \subseteq sentenceAudits'
  BY WhoWrites DEF AuditProposition, AuditRenderedSentence
<1>3. SUFFICES ASSUME NEW i \in DOMAIN journal', journal'[i].status = "completed"
               PROVE  /\ journal'[i].kind = "audit_proposition" =>
                             \E r \in propositions' :
                                 /\ r.claims = journal'[i].on.item.claims
                                 /\ r.text = journal'[i].on.item.text
                      /\ journal'[i].kind = "audit_sentence" =>
                             \E a \in sentenceAudits' :
                                 /\ a.sources = journal'[i].on.item.sources
                                 /\ a.text = journal'[i].on.item.text
  BY DEF AuditsRecorded
<1>4. CASE i \in 1..Len(journal)
  BY <1>1, <1>2, <1>3, <1>4 DEF AuditsRecorded
<1>5. CASE i = Len(journal) + 1
  <2>1. journal'[i] = event /\ event.status = "completed"
    BY <1>1, <1>3, <1>5
  <2>2. CASE event.kind = "audit_proposition"
    <3>1. PICK verdict : AuditProposition(event.on.draft, event.on.item, verdict)
      BY <2>1, <2>2, PromotionWrites DEF CommitAdds, Control
    <3>2. PICK r : r = [claims |-> event.on.item.claims, text |-> event.on.item.text,
                        verdict |-> verdict,
                        deps |-> Projected(event.on.draft.deps, event.on.item.claims)]
      OBVIOUS
    <3>3. r \in propositions'
      BY <3>1, <3>2, Zenon DEF AuditProposition
    <3> QED
      BY <2>1, <2>2, <3>2, <3>3
  <2>3. CASE event.kind = "audit_sentence"
    <3>1. PICK verdict : AuditRenderedSentence(event.on.draft, event.on.item, verdict)
      BY <2>1, <2>3, PromotionWrites DEF CommitAdds, Control
    <3>2. PICK a : a = [sources |-> event.on.item.sources, text |-> event.on.item.text,
                        verdict |-> verdict]
      OBVIOUS
    <3>3. a \in sentenceAudits'
      BY <3>1, <3>2, Zenon DEF AuditRenderedSentence
    <3> QED
      BY <2>1, <2>3, <3>2, <3>3
  <2> QED
    BY <2>1, <2>2, <2>3
<1> QED
  BY <1>1, <1>3, <1>4, <1>5

\* Once a draft is in the journal, no event may assess or validate a claim again.
LEMMA CurrencyStep ==
    ASSUME DraftsAreCurrent, DraftsRecorded, PhasesAdvance', NEW event, CommitAdds(event)
    PROVE  DraftsAreCurrent'
<1>1. CASE UNCHANGED <<assessment, packet>>
  <2>1. ASSUME NEW d \in propositionDrafts'
        PROVE  d.deps = SourcesOf(d.sources)'
    <3>1. SourcesOf(d.sources)' = SourcesOf(d.sources)
      BY <1>1 DEF SourcesOf
    <3>2. CASE d \in propositionDrafts
      BY <3>1, <3>2 DEF DraftsAreCurrent
    <3>3. CASE d \notin propositionDrafts
      <4>1. GeneratePropositions(event.on)
        BY <2>1, <3>3, PromotionWrites DEF CommitAdds, vars, propositionVars
      <4> QED
        BY <2>1, <3>1, <3>3, <4>1 DEF GeneratePropositions
    <3> QED
      BY <3>2, <3>3
  <2> QED
    BY <2>1 DEF DraftsAreCurrent, SourcesOf
<1>2. CASE ~UNCHANGED <<assessment, packet>>
  <2>1. event.kind \in {"assess_claim", "validate_final"} /\ event.status = "completed"
    BY <1>2, PromotionWrites DEF CommitAdds, vars, judgementVars
  <2>2. UNCHANGED propositionDrafts
    BY <1>2, <2>1, PromotionWrites DEF CommitAdds, vars, judgementVars
  <2>3. propositionDrafts = {}
    <3>1. SUFFICES ASSUME NEW d \in propositionDrafts PROVE FALSE
      OBVIOUS
    <3>2. PICK i \in DOMAIN journal : journal[i].kind = "propositions"
      BY <3>1 DEF DraftsRecorded
    <3>3. /\ i \in DOMAIN journal' /\ Len(journal) + 1 \in DOMAIN journal'
          /\ i < Len(journal) + 1 /\ journal'[i].kind = "propositions"
          /\ journal'[Len(journal) + 1] = event
      BY <3>2 DEF CommitAdds
    <3>4. Phase[journal'[i].kind] <= Phase[event.kind]
      <4>1. event.status # "failed"
        BY <2>1
      <4> QED
        BY <3>3, <4>1 DEF PhasesAdvance
    <3> QED
      BY <2>1, <3>3, <3>4 DEF Phase
  <2> QED
    BY <2>2, <2>3 DEF DraftsAreCurrent
<1> QED
  BY <1>1, <1>2

\* A commit keeps all that a closed run rests on, and a report finds it complete.
LEMMA CommitCloses ==
    ASSUME PilotInv, CountInv, ClosureInv, PilotInv', CountInv', [Next]_vars,
           NEW k \in Controller, NEW event, EventCounts(k, event)
    PROVE  ClosureInv'
<1>1. CommitAdds(event)
  <2>1. Shaped /\ journal' = Append(journal, event)
    BY DEF PilotInv, EventCounts
  <2>2. /\ Len(journal') = Len(journal) + 1 /\ DOMAIN journal' = 1..(Len(journal) + 1)
        /\ Len(journal) \in Nat /\ DOMAIN journal = 1..Len(journal)
        /\ \A i \in 1..Len(journal) : journal'[i] = journal[i]
        /\ journal'[Len(journal) + 1] = event
    BY <2>1, JournalGrows
  <2> QED
    BY <2>2 DEF CommitAdds, EventCounts
<1>2. Journalled' /\ IInv' /\ ValidSequence'
  <2>1. Journalled'
    BY DEF PilotInv, CountInv, Shaped, PilotTypeOK, Journalled
  <2>2. IInv' /\ ValidSequence'
    BY DEF PilotInv, EventCounts
  <2> QED
    BY <2>1, <2>2
<1>3. AssessedOnce'
  BY <1>2, EvidenceOnce, PTL
<1>4. PhasesAdvance'
  BY <1>2 DEF ValidSequence
<1>5. /\ TypeOK /\ LedgersAreHits /\ SpansPerDecision /\ DraftsRecorded
      /\ AuditsRecorded /\ DraftsAreCurrent /\ Shaped
  BY DEF PilotInv, IInv, ClosureInv
<1>6. LedgersAreHits'
  BY <1>5, LedgersStep
<1>7. SpansPerDecision'
  BY <1>1, <1>3, <1>5, SpansStep
<1>8. DraftsRecorded'
  BY <1>1, <1>5, DraftsStep
<1>9. AuditsRecorded'
  BY <1>1, <1>5, VerdictsStep
<1>10. DraftsAreCurrent'
  BY <1>1, <1>4, <1>5, CurrencyStep
<1>11. ClosedRunsAreComplete'
  BY <1>2, <1>6, <1>7, <1>8, <1>9, <1>10, ClosureShows, PTL
<1> QED
  BY <1>6, <1>7, <1>8, <1>9, <1>10, <1>11 DEF ClosureInv

LEMMA ClosureStep ==
    PilotInv /\ CountInv /\ ClosureInv /\ [PilotNext]_pilotVars => ClosureInv'
<1>1. CASE PilotInv /\ CountInv /\ ClosureInv /\ PilotNext
  <2>1. /\ Shaped /\ PilotTypeOK /\ RoomLeft /\ TypeOK /\ LedgersAreHits
    BY <1>1 DEF PilotInv, CountInv, IInv, ClosureInv
  <2>2. PICK k \in Controller :
            \/ Begins(k) \/ ReuseControl(k) \/ Leave(k)
            \/ \E id : EngineCounts(k, id)
            \/ \E event : EventCounts(k, event)
    BY <1>1, <2>1, Counts
  <2>3. CASE \E event : EventCounts(k, event)
    <3>1. PilotInv' /\ CountInv'
      BY <1>1, PilotStep, CountStep
    <3>2. [Next]_vars
      BY <1>1, <2>1, Moves
    <3> QED
      BY <1>1, <2>3, <3>1, <3>2, CommitCloses
  <2>4. CASE Begins(k)
    <3>1. /\ UNCHANGED <<journal, vars>>
          /\ \A j \in Controller : j # k => job'[j] = job[j]
          /\ job'[k].kind = "retrieval" => job'[k].out = RetrievalPayload
      BY <2>1, <2>4, BeginsAre DEF Control
    <3> QED
      BY <1>1, <3>1, NothingCommitted
  <2>5. CASE ReuseControl(k) \/ Leave(k)
    <3>1. /\ UNCHANGED <<journal, vars>>
          /\ \A j \in Controller : j # k => job'[j] = job[j]
          /\ job'[k].kind = "none"
      BY <2>1, <2>5, LeavesAre DEF Idle
    <3> QED
      BY <1>1, <3>1, NothingCommitted
  <2>6. CASE \E id : EngineCounts(k, id)
    <3>1. /\ UNCHANGED <<journal, vars>>
          /\ \A j \in Controller : j # k => job'[j] = job[j]
          /\ job'[k].kind = job[k].kind /\ job'[k].out = job[k].out
      BY <2>6 DEF EngineCounts
    <3> QED
      BY <1>1, <3>1, NothingCommitted
  <2> QED
    BY <2>2, <2>3, <2>4, <2>5, <2>6
<1>2. CASE PilotInv /\ CountInv /\ ClosureInv /\ UNCHANGED pilotVars
  <2>1. UNCHANGED <<journal, vars>> /\ UNCHANGED job
    BY <1>2 DEF pilotVars
  <2> QED
    BY <1>2, <2>1, NothingCommitted
<1> QED
  BY <1>1, <1>2

\* A report ends a run in which nothing was left undecided, unjudged, uncited or
\* unaudited: the sequence that it is committed with is validated to its end, over
\* whatever calls raced, failed or were made again before.
THEOREM ClosedRunsComplete == PilotSpec => []ClosedRunsAreComplete
<1>1. PilotInit => PilotInv /\ CountInv /\ ClosureInv
  BY PilotInitial, CountInit, InitiallyOpen
<1>2. PilotInv /\ CountInv /\ ClosureInv /\ [PilotNext]_pilotVars
      => (PilotInv /\ CountInv /\ ClosureInv)'
  BY PilotStep, CountStep, ClosureStep
<1>3. ClosureInv => ClosedRunsAreComplete
  BY DEF ClosureInv
<1> QED
  BY <1>1, <1>2, <1>3, PTL DEF PilotSpec
-------------------------------------------------------------------------------
(* What the journal tells                                                    *)

\* Only claims are assessed, and only assessed claims are validated.
JudgedAreClaims ==
    \A c \in Claim : (Assessed(c) => c \in claims) /\ (Validated(c) => Assessed(c))

\* An item of a sentence draft is what it says and from what.
SentenceItemsAre ==
    \A d \in sentenceDrafts : \A item \in d.items :
        item = [sources |-> item.sources, text |-> item.text]

TellInv == JudgedAreClaims /\ SentenceItemsAre /\ ClaimsTold /\ ItemsTold

LEMMA NothingToldAtFirst == PilotInit => TellInv
<1> SUFFICES ASSUME PilotInit PROVE TellInv
  OBVIOUS
<1>1. /\ DOMAIN journal = {} /\ propositionDrafts = {} /\ sentenceDrafts = {}
      /\ propositions = {} /\ sentenceAudits = {}
  BY DEF PilotInit, Init
<1>2. \A c \in Claim : ~Assessed(c) /\ ~Validated(c) /\ \A p \in Paper : cpe[c][p] = {}
  BY DEF PilotInit, Init, Assessed, Validated, NoAssessment, NoFinal
<1>3. \A kind : Completed(kind) = {}
  BY <1>1 DEF Completed
<1>4. ClaimsTold
  BY <1>2, <1>3 DEF ClaimsTold, Accepted
<1>5. ItemsTold
  BY <1>1, <1>3 DEF ItemsTold
<1> QED
  BY <1>1, <1>2, <1>4, <1>5 DEF TellInv, JudgedAreClaims, SentenceItemsAre

\* A step that commits nothing tells nothing.
LEMMA NothingTold ==
    ASSUME TellInv, UNCHANGED <<journal, vars>>
    PROVE  TellInv'
<1>1. /\ UNCHANGED <<journal, claims, cpe, assessment, final>>
      /\ UNCHANGED <<propositionDrafts, propositions, sentenceDrafts, sentenceAudits>>
  BY DEF vars, discoveryVars, evidenceVars, judgementVars, propositionVars, sentenceVars
<1> QED
  BY <1>1 DEF TellInv, JudgedAreClaims, SentenceItemsAre, ClaimsTold, ItemsTold, Assessed,
     Validated, Accepted, Completed

\* What a commit adds to the accepted events of a kind.
LEMMA AcceptedAre ==
    ASSUME NEW event, CommitAdds(event), NEW kind
    PROVE  LET new == event.kind = kind /\ event.status = "completed"
           IN /\ \A on : Accepted(kind, on)' <=> Accepted(kind, on) \/ (new /\ event.on = on)
              /\ new => /\ {journal[i].on.item : i \in Completed(kind)}' =
                               {journal[i].on.item : i \in Completed(kind)} \cup {event.on.item}
                        /\ (UNION {journal[i].out : i \in Completed(kind)})' =
                               (UNION {journal[i].out : i \in Completed(kind)}) \cup event.out
              /\ ~new => /\ {journal[i].on.item : i \in Completed(kind)}' =
                                {journal[i].on.item : i \in Completed(kind)}
                         /\ (UNION {journal[i].out : i \in Completed(kind)})' =
                                UNION {journal[i].out : i \in Completed(kind)}
<1>1. PICK n \in Nat : n = Len(journal)
  BY DEF CommitAdds
<1>2. /\ DOMAIN journal = 1..n /\ DOMAIN journal' = 1..(n + 1)
      /\ \A i \in 1..n : journal'[i] = journal[i] /\ i # n + 1
      /\ journal'[n + 1] = event
  BY <1>1 DEF CommitAdds
<1>3. Completed(kind) \subseteq 1..n
  BY <1>2 DEF Completed
<1>4. ASSUME event.kind = kind /\ event.status = "completed"
      PROVE  Completed(kind)' = Completed(kind) \cup {n + 1}
  BY <1>2, <1>4 DEF Completed
<1>5. ASSUME ~(event.kind = kind /\ event.status = "completed")
      PROVE  Completed(kind)' = Completed(kind)
  BY <1>2, <1>5 DEF Completed
<1>6. CASE event.kind = kind /\ event.status = "completed"
  <2>1. Completed(kind)' = Completed(kind) \cup {n + 1}
    BY <1>4, <1>6
  <2>2. \A i \in Completed(kind) : journal'[i] = journal[i]
    BY <1>2, <1>3
  <2>3. \A on : Accepted(kind, on)' <=> Accepted(kind, on) \/ event.on = on
    BY <1>2, <2>1, <2>2 DEF Accepted
  <2>4. {journal[i].on.item : i \in Completed(kind)}' =
            {journal[i].on.item : i \in Completed(kind)} \cup {event.on.item}
    BY <1>2, <2>1, <2>2
  <2>5. (UNION {journal[i].out : i \in Completed(kind)})' =
            (UNION {journal[i].out : i \in Completed(kind)}) \cup event.out
    BY <1>2, <2>1, <2>2
  <2> QED
    BY <1>6, <2>3, <2>4, <2>5
<1>7. CASE ~(event.kind = kind /\ event.status = "completed")
  BY <1>2, <1>3, <1>5, <1>7 DEF Accepted
<1> QED
  BY <1>6, <1>7
\* What the promotion of a task writes of claims, drafts and audits.
LEMMA PromotionTells ==
    ASSUME NEW kind, NEW on, Promote(kind, on)
    PROVE  /\ claims \subseteq claims'
           /\ IF kind = "aggregate" THEN AggregatePaperEvidence(on.claim, on.paper)
              ELSE UNCHANGED cpe
           /\ IF kind = "assess_claim"
              THEN \E decision \in ClaimDecision : AssessClaim(on, decision)
              ELSE UNCHANGED assessment
           /\ IF kind = "validate_final"
              THEN \E status \in {"valid", "invalid"} :
                       ValidateFinalClaim(on, FinalText(on), status)
              ELSE UNCHANGED final
           /\ kind # "propositions" => UNCHANGED propositionDrafts
           /\ IF kind = "render" THEN RenderProse(on) ELSE UNCHANGED sentenceDrafts
           /\ IF kind = "audit_proposition"
              THEN \E verdict : AuditProposition(on.draft, on.item, verdict)
              ELSE UNCHANGED propositions
           /\ IF kind = "audit_sentence"
              THEN \E verdict : AuditRenderedSentence(on.draft, on.item, verdict)
              ELSE UNCHANGED sentenceAudits
           /\ kind = "propositions" => GeneratePropositions(on)
<1> USE DEF vars, discoveryVars, evidenceVars, judgementVars, propositionVars, sentenceVars
<1>1. CASE kind \in {"parse", "challenge", "revise"} /\ UNCHANGED vars
  BY <1>1
<1>2. CASE kind = "claims" /\ \E S \in (SUBSET Claim) \ {{}} : GenerateCandidateClaims(S)
  BY <1>2 DEF GenerateCandidateClaims
<1>3. CASE kind = "queries" /\ GenerateRetrievalQueries(on)
  BY <1>3 DEF GenerateRetrievalQueries
<1>4. CASE kind = "assess_evidence" /\ AssessEvidence(on)
  BY <1>4 DEF AssessEvidence, PromoteCandidates
<1>5. CASE kind = "aggregate" /\ AggregatePaperEvidence(on.claim, on.paper)
  BY <1>5 DEF AggregatePaperEvidence
<1>6. CASE kind = "assess_claim" /\ \E decision \in ClaimDecision : AssessClaim(on, decision)
  BY <1>6 DEF AssessClaim
<1>7. CASE /\ kind = "validate_final"
           /\ \E status \in {"valid", "invalid"} :
                  ValidateFinalClaim(on, FinalText(on), status)
  BY <1>7 DEF ValidateFinalClaim
<1>8. CASE kind = "propositions" /\ GeneratePropositions(on)
  BY <1>8 DEF GeneratePropositions
<1>9. CASE kind = "render" /\ RenderProse(on)
  BY <1>9 DEF RenderProse
<1>10. CASE PromoteAudit(kind, on)
  <2>1. CASE \E verdict \in {"pass", "fail"} :
                 kind = "audit_proposition" /\ AuditProposition(on.draft, on.item, verdict)
    BY <2>1 DEF AuditProposition
  <2>2. CASE \E verdict \in {"pass", "fail"} :
                 kind = "audit_sentence" /\ AuditRenderedSentence(on.draft, on.item, verdict)
    BY <2>2 DEF AuditRenderedSentence
  <2> QED
    BY <1>10, <2>1, <2>2 DEF PromoteAudit
<1> QED
  BY <1>1, <1>2, <1>3, <1>4, <1>5, <1>6, <1>7, <1>8, <1>9, <1>10
     DEF Promote, PromoteEvidence

\* What a commit of an event with these arguments writes.
Promotes(event) ==
    /\ CommitAdds(event) /\ event.kind \in Kind \ Control /\ event.status = "completed"
    /\ Promote(event.kind, event.on) /\ Arguments(event.kind, event.on)

\* A claim is judged by the event that tells it.
LEMMA JudgedStep ==
    ASSUME TypeOK, JudgedAreClaims, SentenceItemsAre, NEW event, Promotes(event)
    PROVE  JudgedAreClaims' /\ SentenceItemsAre'
<1>1. TypeOK /\ Promote(event.kind, event.on)
  BY DEF Promotes
<1>2. SentenceItemsAre'
  <2>1. CASE RenderProse(event.on)
    BY <2>1 DEF RenderProse, SentenceItems, SentenceItemsAre
  <2>2. CASE UNCHANGED sentenceDrafts
    BY <2>2 DEF SentenceItemsAre
  <2> QED
    BY <1>1, <2>1, <2>2, PromotionTells
<1>3. JudgedAreClaims'
  <2>1. SUFFICES ASSUME NEW c \in Claim
                 PROVE  /\ Assessed(c)' => c \in claims'
                        /\ Validated(c)' => Assessed(c)'
    BY DEF JudgedAreClaims
  <2>2. claims \subseteq claims'
    BY <1>1, PromotionTells
  <2>3. CASE event.kind = "assess_claim"
    <3>1. PICK decision \in ClaimDecision : AssessClaim(event.on, decision)
      BY <1>1, <2>3, PromotionTells
    <3>2. UNCHANGED final
      BY <1>1, <2>3, PromotionTells
    <3> QED
      BY <2>2, <3>1, <3>2, RecordAssumption
         DEF JudgedAreClaims, AssessClaim, Assessed, Validated, TypeOK
  <2>4. CASE event.kind = "validate_final"
    <3>1. PICK status \in {"valid", "invalid"} :
              ValidateFinalClaim(event.on, FinalText(event.on), status)
      BY <1>1, <2>4, PromotionTells
    <3>2. UNCHANGED assessment
      BY <1>1, <2>4, PromotionTells
    <3> QED
      BY <2>2, <3>1, <3>2 DEF JudgedAreClaims, ValidateFinalClaim, Assessed, Validated, TypeOK
  <2>5. CASE event.kind \notin {"assess_claim", "validate_final"}
    <3>1. UNCHANGED <<assessment, final>>
      BY <1>1, <2>5, PromotionTells
    <3> QED
      BY <2>2, <3>1 DEF JudgedAreClaims, Assessed, Validated
  <2> QED
    BY <2>3, <2>4, <2>5
<1> QED
  BY <1>2, <1>3
\* Every validation was checked against the revisions in the journal.
LEMMA RevisionsTold ==
    /\ Journalled /\ ValidSequence /\ TypeOK /\ JudgedAreClaims
    /\ \A c \in Claim : Validated(c) => Accepted("validate_final", c)
    => \A c \in Claim : Validated(c) =>
           final[c].text = IF Accepted("revise", c) THEN RevisedText ELSE OwnText
<1> SUFFICES ASSUME Journalled, ValidSequence, TypeOK, JudgedAreClaims,
                    NEW c \in Claim, Validated(c), Accepted("validate_final", c)
             PROVE  final[c].text = IF Accepted("revise", c) THEN RevisedText ELSE OwnText
  OBVIOUS
<1>1. PICK i \in DOMAIN journal :
          journal[i].kind = "validate_final" /\ journal[i].status = "completed"
  BY DEF Accepted, Completed
<1>2. CompletedPhase \in 0..12 /\ 8 <= CompletedPhase
  BY <1>1, PhaseReached DEF Phase
<1>3. c \in claims /\ Assessed(c)
  BY DEF JudgedAreClaims
<1>4. Paired(c)
  BY <1>2, <1>3 DEF ValidSequence, PhasesGrounded
<1>5. assessment[c].decision \in {"retain", "modify"}
  BY <1>3, <1>4, SequenceAssumption DEF TypeOK, Assessment, Assessed, Paired
<1>6. CASE assessment[c].decision = "retain"
  BY <1>4, <1>6 DEF Paired, Accepted
<1>7. CASE assessment[c].decision = "modify"
  BY <1>4, <1>7 DEF Paired, Accepted
<1> QED
  BY <1>5, <1>6, <1>7

JudgementsTold(c) ==
    /\ \A p \in Paper : cpe[c][p] # {} <=> Accepted("aggregate", [claim |-> c, paper |-> p])
    /\ Assessed(c) <=> Accepted("assess_claim", c)
    /\ Validated(c) <=> Accepted("validate_final", c)

\* A claim is aggregated, assessed or validated by the step whose event says so.
LEMMA JudgementsStep ==
    ASSUME TypeOK, NEW event, Promotes(event), NEW c \in Claim, JudgementsTold(c)
    PROVE  JudgementsTold(c)'
<1>1. /\ CommitAdds(event) /\ Promote(event.kind, event.on) /\ event.status = "completed"
      /\ Arguments(event.kind, event.on)
  BY DEF Promotes
<1>2. ASSUME NEW p \in Paper
      PROVE  (cpe[c][p] # {} <=> Accepted("aggregate", [claim |-> c, paper |-> p]))'
  <2>1. Accepted("aggregate", [claim |-> c, paper |-> p])' <=>
            \/ Accepted("aggregate", [claim |-> c, paper |-> p])
            \/ event.kind = "aggregate" /\ event.on = [claim |-> c, paper |-> p]
    BY <1>1, AcceptedAre
  <2>2. CASE event.kind = "aggregate"
    <3>1. AggregatePaperEvidence(event.on.claim, event.on.paper)
      BY <1>1, <2>2, PromotionTells
    <3>2. event.on = [claim |-> event.on.claim, paper |-> event.on.paper]
      BY <1>1, <2>2 DEF Arguments
    <3>3. cpe'[c][p] = IF event.on.claim = c /\ event.on.paper = p
                       THEN Evidence(c, p) ELSE cpe[c][p]
      BY <1>2, <3>1 DEF AggregatePaperEvidence, TypeOK
    <3>4. event.on.claim = c /\ event.on.paper = p => Evidence(c, p) # {}
      BY <3>1 DEF AggregatePaperEvidence
    <3>5. event.on = [claim |-> c, paper |-> p] <=> event.on.claim = c /\ event.on.paper = p
      BY <3>2
    <3>6. cpe[c][p] # {} <=> Accepted("aggregate", [claim |-> c, paper |-> p])
      BY <1>2 DEF JudgementsTold
    <3> QED
      BY <2>1, <2>2, <3>3, <3>4, <3>5, <3>6
  <2>3. CASE event.kind # "aggregate"
    <3>1. UNCHANGED cpe
      BY <1>1, <2>3, PromotionTells
    <3> QED
      BY <1>2, <2>1, <2>3, <3>1 DEF JudgementsTold
  <2> QED
    BY <2>2, <2>3
<1>3. (Assessed(c) <=> Accepted("assess_claim", c))'
  <2>1. Accepted("assess_claim", c)' <=>
            Accepted("assess_claim", c) \/ (event.kind = "assess_claim" /\ event.on = c)
    BY <1>1, AcceptedAre
  <2>2. CASE event.kind = "assess_claim"
    <3>1. PICK decision \in ClaimDecision : AssessClaim(event.on, decision)
      BY <1>1, <2>2, PromotionTells
    <3>2. Assessed(c)' <=> Assessed(c) \/ event.on = c
      BY <3>1, RecordAssumption DEF AssessClaim, Assessed, TypeOK
    <3> QED
      BY <2>1, <2>2, <3>2 DEF JudgementsTold
  <2>3. CASE event.kind # "assess_claim"
    <3>1. UNCHANGED assessment
      BY <1>1, <2>3, PromotionTells
    <3> QED
      BY <2>1, <2>3, <3>1 DEF JudgementsTold, Assessed
  <2> QED
    BY <2>2, <2>3
<1>4. (Validated(c) <=> Accepted("validate_final", c))'
  <2>1. Accepted("validate_final", c)' <=>
            Accepted("validate_final", c) \/ (event.kind = "validate_final" /\ event.on = c)
    BY <1>1, AcceptedAre
  <2>2. CASE event.kind = "validate_final"
    <3>1. PICK status \in {"valid", "invalid"} :
              ValidateFinalClaim(event.on, FinalText(event.on), status)
      BY <1>1, <2>2, PromotionTells
    <3>2. Validated(c)' <=> Validated(c) \/ event.on = c
      BY <3>1 DEF ValidateFinalClaim, Validated, TypeOK
    <3> QED
      BY <2>1, <2>2, <3>2 DEF JudgementsTold
  <2>3. CASE event.kind # "validate_final"
    <3>1. UNCHANGED final
      BY <1>1, <2>3, PromotionTells
    <3> QED
      BY <2>1, <2>3, <3>1 DEF JudgementsTold, Validated
  <2> QED
    BY <2>2, <2>3
<1> QED
  BY <1>2, <1>3, <1>4 DEF JudgementsTold
\* Items are drafted and audited by the step whose event says so.
LEMMA ItemsStep ==
    ASSUME TypeOK, SentenceItemsAre, ItemsTold, NEW event, Promotes(event)
    PROVE  ItemsTold'
<1>1. /\ CommitAdds(event) /\ Promote(event.kind, event.on) /\ event.status = "completed"
      /\ Arguments(event.kind, event.on) /\ event.out = NewItems(event.kind)
  BY DEF Promotes, CommitAdds
<1>2. (UNION {d.items : d \in propositionDrafts} =
           UNION {journal[i].out : i \in Completed("propositions")})'
  <2>1. CASE event.kind = "propositions"
    <3>1. propositionDrafts \subseteq propositionDrafts'
      BY <1>1, <2>1, PromotionTells DEF GeneratePropositions
    <3>2. event.out = UNION {d.items : d \in propositionDrafts' \ propositionDrafts}
      BY <1>1, <2>1 DEF NewItems
    <3>3. UNION {d.items : d \in propositionDrafts'} =
              (UNION {d.items : d \in propositionDrafts}) \cup event.out
      BY <3>1, <3>2
    <3>4. (UNION {journal[i].out : i \in Completed("propositions")})' =
              (UNION {journal[i].out : i \in Completed("propositions")}) \cup event.out
      BY <1>1, <2>1, AcceptedAre
    <3> QED
      BY <3>3, <3>4 DEF ItemsTold
  <2>2. CASE event.kind # "propositions"
    <3>1. UNCHANGED propositionDrafts
      BY <1>1, <2>2, PromotionTells
    <3>2. (UNION {journal[i].out : i \in Completed("propositions")})' =
              UNION {journal[i].out : i \in Completed("propositions")}
      BY <1>1, <2>2, AcceptedAre
    <3> QED
      BY <3>1, <3>2 DEF ItemsTold
  <2> QED
    BY <2>1, <2>2
<1>3. (UNION {d.items : d \in sentenceDrafts} =
           UNION {journal[i].out : i \in Completed("render")})'
  <2>1. CASE event.kind = "render"
    <3>1. sentenceDrafts \subseteq sentenceDrafts'
      BY <1>1, <2>1, PromotionTells DEF RenderProse
    <3>2. event.out = UNION {d.items : d \in sentenceDrafts' \ sentenceDrafts}
      BY <1>1, <2>1 DEF NewItems
    <3>3. UNION {d.items : d \in sentenceDrafts'} =
              (UNION {d.items : d \in sentenceDrafts}) \cup event.out
      BY <3>1, <3>2
    <3>4. (UNION {journal[i].out : i \in Completed("render")})' =
              (UNION {journal[i].out : i \in Completed("render")}) \cup event.out
      BY <1>1, <2>1, AcceptedAre
    <3> QED
      BY <3>3, <3>4 DEF ItemsTold
  <2>2. CASE event.kind # "render"
    <3>1. UNCHANGED sentenceDrafts
      BY <1>1, <2>2, PromotionTells
    <3>2. (UNION {journal[i].out : i \in Completed("render")})' =
              UNION {journal[i].out : i \in Completed("render")}
      BY <1>1, <2>2, AcceptedAre
    <3> QED
      BY <3>1, <3>2 DEF ItemsTold
  <2> QED
    BY <2>1, <2>2
<1>4. ({[claims |-> r.claims, text |-> r.text] : r \in propositions} =
           {journal[i].on.item : i \in Completed("audit_proposition")})'
  <2>1. CASE event.kind = "audit_proposition"
    <3>1. PICK verdict : AuditProposition(event.on.draft, event.on.item, verdict)
      BY <1>1, <2>1, PromotionTells
    <3>2. event.on.item = [claims |-> event.on.item.claims, text |-> event.on.item.text]
      <4>1. event.on.item \in PropositionItem
        BY <1>1, <2>1 DEF Arguments, TypeOK
      <4> QED
        BY <4>1 DEF PropositionItem
    <3>3. PICK r : /\ propositions' = propositions \cup {r}
                  /\ r.claims = event.on.item.claims /\ r.text = event.on.item.text
      <4>1. PICK r : r = [claims |-> event.on.item.claims, text |-> event.on.item.text,
                          verdict |-> verdict,
                          deps |-> Projected(event.on.draft.deps, event.on.item.claims)]
        OBVIOUS
      <4>2. propositions' = propositions \cup {r}
        BY <3>1, <4>1, Zenon DEF AuditProposition
      <4> QED
        BY <4>1, <4>2
    <3>4. {journal[i].on.item : i \in Completed("audit_proposition")}' =
              {journal[i].on.item : i \in Completed("audit_proposition")} \cup {event.on.item}
      BY <1>1, <2>1, AcceptedAre
    <3>5. [claims |-> r.claims, text |-> r.text] = event.on.item
      BY <3>2, <3>3
    <3>6. {[claims |-> x.claims, text |-> x.text] : x \in propositions'} =
              {[claims |-> x.claims, text |-> x.text] : x \in propositions} \cup {event.on.item}
      BY <3>3, <3>5, Zenon
    <3> QED
      BY <3>4, <3>6 DEF ItemsTold
  <2>2. CASE event.kind # "audit_proposition"
    <3>1. UNCHANGED propositions
      BY <1>1, <2>2, PromotionTells
    <3>2. {journal[i].on.item : i \in Completed("audit_proposition")}' =
              {journal[i].on.item : i \in Completed("audit_proposition")}
      BY <1>1, <2>2, AcceptedAre
    <3> QED
      BY <3>1, <3>2 DEF ItemsTold
  <2> QED
    BY <2>1, <2>2
<1>5. ({[sources |-> a.sources, text |-> a.text] : a \in sentenceAudits} =
           {journal[i].on.item : i \in Completed("audit_sentence")})'
  <2>1. CASE event.kind = "audit_sentence"
    <3>1. PICK verdict : AuditRenderedSentence(event.on.draft, event.on.item, verdict)
      BY <1>1, <2>1, PromotionTells
    <3>2. event.on.item = [sources |-> event.on.item.sources, text |-> event.on.item.text]
      BY <1>1, <2>1 DEF Arguments, SentenceItemsAre
    <3>3. PICK a : /\ sentenceAudits' = sentenceAudits \cup {a}
                  /\ a.sources = event.on.item.sources /\ a.text = event.on.item.text
      <4>1. PICK a : a = [sources |-> event.on.item.sources, text |-> event.on.item.text,
                          verdict |-> verdict]
        OBVIOUS
      <4>2. sentenceAudits' = sentenceAudits \cup {a}
        BY <3>1, <4>1, Zenon DEF AuditRenderedSentence
      <4> QED
        BY <4>1, <4>2
    <3>4. {journal[i].on.item : i \in Completed("audit_sentence")}' =
              {journal[i].on.item : i \in Completed("audit_sentence")} \cup {event.on.item}
      BY <1>1, <2>1, AcceptedAre
    <3>5. [sources |-> a.sources, text |-> a.text] = event.on.item
      BY <3>2, <3>3
    <3>6. {[sources |-> x.sources, text |-> x.text] : x \in sentenceAudits'} =
              {[sources |-> x.sources, text |-> x.text] : x \in sentenceAudits} \cup {event.on.item}
      BY <3>3, <3>5, Zenon
    <3> QED
      BY <3>4, <3>6 DEF ItemsTold
  <2>2. CASE event.kind # "audit_sentence"
    <3>1. UNCHANGED sentenceAudits
      BY <1>1, <2>2, PromotionTells
    <3>2. {journal[i].on.item : i \in Completed("audit_sentence")}' =
              {journal[i].on.item : i \in Completed("audit_sentence")}
      BY <1>1, <2>2, AcceptedAre
    <3> QED
      BY <3>1, <3>2 DEF ItemsTold
  <2> QED
    BY <2>1, <2>2
<1> QED
  BY <1>2, <1>3, <1>4, <1>5 DEF ItemsTold

\* A commit tells what it writes, and writes what it tells.
LEMMA CommitTells ==
    ASSUME PilotInv, TellInv, PilotInv', CountInv',
           NEW k \in Controller, NEW event, EventCounts(k, event)
    PROVE  TellInv'
<1>1. CommitAdds(event)
  <2>1. Shaped /\ journal' = Append(journal, event)
    BY DEF PilotInv, EventCounts
  <2>2. /\ Len(journal') = Len(journal) + 1 /\ DOMAIN journal' = 1..(Len(journal) + 1)
        /\ Len(journal) \in Nat /\ DOMAIN journal = 1..Len(journal)
        /\ \A i \in 1..Len(journal) : journal'[i] = journal[i]
        /\ journal'[Len(journal) + 1] = event
    BY <2>1, JournalGrows
  <2> QED
    BY <2>2 DEF CommitAdds, EventCounts
<1>2. Journalled' /\ TypeOK' /\ ValidSequence'
  <2>1. Journalled'
    BY DEF PilotInv, CountInv, Shaped, PilotTypeOK, Journalled
  <2>2. TypeOK' /\ ValidSequence'
    BY DEF PilotInv, IInv, EventCounts
  <2> QED
    BY <2>1, <2>2
<1>3. /\ TypeOK /\ JudgedAreClaims /\ SentenceItemsAre /\ ItemsTold
      /\ \A c \in Claim : JudgementsTold(c)
  BY DEF PilotInv, IInv, TellInv, ClaimsTold, JudgementsTold
<1>4. Arguments(event.kind, event.on)
  BY DEF PilotInv, Shaped, EventCounts
<1>5. /\ JudgedAreClaims' /\ SentenceItemsAre' /\ ItemsTold'
      /\ \A c \in Claim : JudgementsTold(c)'
  <2>1. CASE Promotes(event)
    BY <1>3, <2>1, JudgedStep, ItemsStep, JudgementsStep
  <2>2. CASE UNCHANGED vars /\ (event.status = "completed" => event.kind \in Control)
    <3>1. /\ UNCHANGED <<claims, cpe, assessment, final>>
          /\ UNCHANGED <<propositionDrafts, propositions, sentenceDrafts, sentenceAudits>>
      BY <2>2 DEF vars, discoveryVars, evidenceVars, judgementVars, propositionVars,
         sentenceVars
    <3>2. ASSUME NEW kind \in Kind \ Control
          PROVE  /\ \A on : Accepted(kind, on)' <=> Accepted(kind, on)
                 /\ {journal[i].on.item : i \in Completed(kind)}' =
                        {journal[i].on.item : i \in Completed(kind)}
                 /\ (UNION {journal[i].out : i \in Completed(kind)})' =
                        UNION {journal[i].out : i \in Completed(kind)}
      <4>1. ~(event.kind = kind /\ event.status = "completed")
        BY <2>2
      <4> QED
        BY <1>1, <4>1, AcceptedAre
    <3>3. /\ {"aggregate", "assess_claim", "validate_final"} \subseteq Kind \ Control
          /\ {"propositions", "render", "audit_proposition", "audit_sentence"}
                 \subseteq Kind \ Control
      BY DEF Kind, Phase, Control
    <3>4. JudgedAreClaims' /\ SentenceItemsAre'
      BY <1>3, <3>1 DEF JudgedAreClaims, SentenceItemsAre, Assessed, Validated
    <3>5. ItemsTold'
      BY <1>3, <3>1, <3>2, <3>3 DEF ItemsTold
    <3>6. ASSUME NEW c \in Claim PROVE JudgementsTold(c)'
      BY <1>3, <3>1, <3>2, <3>3 DEF JudgementsTold, Assessed, Validated
    <3> QED
      BY <3>4, <3>5, <3>6
  <2> QED
    BY <1>1, <1>4, <2>1, <2>2 DEF CommitAdds, Promotes
<1>6. (\A c \in Claim : Validated(c) => Accepted("validate_final", c))'
  BY <1>5 DEF JudgementsTold
<1>7. (\A c \in Claim : Validated(c) =>
          final[c].text = IF Accepted("revise", c) THEN RevisedText ELSE OwnText)'
  BY <1>2, <1>5, <1>6, RevisionsTold, PTL
<1>8. ClaimsTold'
  BY <1>5, <1>7 DEF ClaimsTold, JudgementsTold
<1> QED
  BY <1>5, <1>8 DEF TellInv

LEMMA TellStep ==
    PilotInv /\ CountInv /\ TellInv /\ [PilotNext]_pilotVars => TellInv'
<1>1. CASE PilotInv /\ CountInv /\ TellInv /\ PilotNext
  <2>1. Shaped /\ PilotTypeOK /\ RoomLeft
    BY <1>1 DEF PilotInv, CountInv
  <2>2. PICK k \in Controller :
            \/ Begins(k) \/ ReuseControl(k) \/ Leave(k)
            \/ \E id : EngineCounts(k, id)
            \/ \E event : EventCounts(k, event)
    BY <1>1, <2>1, Counts
  <2>3. CASE \E event : EventCounts(k, event)
    <3>1. PilotInv' /\ CountInv'
      BY <1>1, PilotStep, CountStep
    <3> QED
      BY <1>1, <2>3, <3>1, CommitTells
  <2>4. CASE Begins(k) \/ ReuseControl(k) \/ Leave(k) \/ \E id : EngineCounts(k, id)
    <3>1. UNCHANGED <<journal, vars>>
      BY <2>1, <2>4, BeginsAre, LeavesAre DEF EngineCounts
    <3> QED
      BY <1>1, <3>1, NothingTold
  <2> QED
    BY <2>2, <2>3, <2>4
<1>2. CASE PilotInv /\ CountInv /\ TellInv /\ UNCHANGED pilotVars
  <2>1. UNCHANGED <<journal, vars>>
    BY <1>2 DEF pilotVars
  <2> QED
    BY <1>2, <2>1, NothingTold
<1> QED
  BY <1>1, <1>2

\* The candidates of a query were decided by the one event that tells so.
LEMMA SpansTell == SpansPerDecision => CandidatesTold
<1> SUFFICES ASSUME SpansPerDecision, NEW q \in Query
             PROVE  IF Accepted("assess_evidence", q)
                    THEN Cardinality(SpansOf(q)) = Len(Hits[q])
                    ELSE SpansOf(q) = {}
  BY DEF CandidatesTold, SpansOf
<1>1. Accepted("assess_evidence", q) <=>
          \E i \in DOMAIN journal : /\ journal[i].kind = "assess_evidence"
                                    /\ journal[i].status = "completed" /\ journal[i].on = q
  BY DEF Accepted, Completed
<1>2. CASE Accepted("assess_evidence", q)
  <2>1. PICK b \in Nat : SpansOf(q) = (b + 1)..(b + Len(Hits[q]))
    BY <1>1, <1>2 DEF SpansPerDecision
  <2>2. Len(Hits[q]) \in Nat
    <3>1. Hits[q] \in Seq(Source)
      BY HitsAssumption
    <3> QED
      BY <3>1
  <2>3. CASE Len(Hits[q]) = 0
    BY <1>2, <2>1, <2>3, FS_EmptySet
  <2>4. CASE Len(Hits[q]) # 0
    <3>1. PICK low \in Int, high \in Int :
              low = b + 1 /\ high = b + Len(Hits[q]) /\ low <= high
      BY <2>2, <2>4
    <3>2. Cardinality(low..high) = high - low + 1
      BY <3>1, FS_Interval
    <3> QED
      BY <1>2, <2>1, <2>2, <3>1, <3>2
  <2> QED
    BY <2>3, <2>4
<1>3. CASE ~Accepted("assess_evidence", q)
  BY <1>1, <1>3 DEF SpansPerDecision
<1> QED
  BY <1>2, <1>3

\* The journal and the record agree after every step of every controller: a task
\* and its event are committed together, a failure commits its event alone, no
\* query is decided twice, and no claim is validated against another revision than
\* the one whose event precedes it.
THEOREM JournalTells == PilotSpec => []JournalTellsTheRecord
<1>1. PilotInit => PilotInv /\ CountInv /\ ClosureInv /\ TellInv
  BY PilotInitial, CountInit, InitiallyOpen, NothingToldAtFirst
<1>2. PilotInv /\ CountInv /\ ClosureInv /\ TellInv /\ [PilotNext]_pilotVars
      => (PilotInv /\ CountInv /\ ClosureInv /\ TellInv)'
  BY PilotStep, CountStep, ClosureStep, TellStep
<1>3. ClosureInv /\ TellInv => JournalTellsTheRecord
  BY SpansTell DEF ClosureInv, TellInv, JournalTellsTheRecord
<1> QED
  BY <1>1, <1>2, <1>3, PTL DEF PilotSpec
================================================================================
