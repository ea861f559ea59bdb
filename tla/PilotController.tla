----------------------------- MODULE PilotController -----------------------------
(***************************************************************************)
(* The controllers of one synthetic pilot run.  Each is a process with its *)
(* own scripted engines; they share the project: CURRENT with its journal, *)
(* and the task directories.                                               *)
(*                                                                         *)
(* A call checks the journal, the task directories and its engine cursors, *)
(* runs the engine, and commits its task with its event if CURRENT has not *)
(* moved.  A controller between two calls has no state of its own here:    *)
(* unless its head is CURRENT and its cursors are those that the journal   *)
(* adds up to it refuses every call, and one that is constructed in its    *)
(* place takes both from the journal.  Processes may die at any step.      *)
(*                                                                         *)
(* A call that was accepted before returns its receipt, so repeating it is *)
(* a stutter (except assess_evidence, whose input names CURRENT).          *)
(***************************************************************************)
EXTENDS PilotSequence

CONSTANTS
    Controller,
    Attempts,          \* technical attempts per engine
    MaxInvocations,    \* the budget of engine invocations of a run
    MaxRetries,        \* bound: tasks that are attempted more than once
    MaxLag             \* bound: events that others add while a call is under way

ASSUME ControllerAssumption ==
    /\ Attempts \in Nat \ {0} /\ MaxInvocations \in Nat /\ MaxRetries \in Nat
    /\ MaxLag \in Nat \ {0}

VARIABLES
    work,              \* marked task directories and the attempts in each
    job                \* the call that a controller is in

pilotVars == <<vars, journal, work, job>>

\* work[id].attempts is what came of each attempt, work[id].since the length of
\* the journal at the first of them.  id is the task directory, 0 while
\* there is none; base is the length of the journal that was checked; cursor is
\* MockEngine.calls of the task's engine; out is what a control event is to hold.
Idle ==
    [pc |-> "idle", kind |-> "none", on |-> {}, out |-> {}, id |-> 0, base |-> 0, cursor |-> 0]

PilotInit ==
    /\ Init
    /\ journal = <<>> /\ work = <<>>
    /\ job = [k \in Controller |-> Idle]

(***************************************************************************)
(* What a controller checks before it acts                                 *)
(***************************************************************************)
\* The invocations that the first n events add up to.
SpentBy(n) == IF n = 0 THEN 0 ELSE journal[n].spent
Spent == SpentBy(Len(journal))

\* The event accounts for every attempt of the task.
Accounted(id, i) ==
    journal[i].id = id /\ Len(journal[i].usage) = Len(work[id].attempts)

\* Faulty: a task directory that no event names is passed over.
ReconciledWhereNamed ==
    \A id \in DOMAIN work : \A i \in DOMAIN journal :
        journal[i].id = id => Accounted(id, i)

\* Every attempt of a marked task is accounted for by an event.
Reconciled ==
    \A id \in DOMAIN work : \E i \in DOMAIN journal : Accounted(id, i)

\* Faulty: the tasks are counted, not their attempts.
TasksOf(kind) == Cardinality({i \in DOMAIN journal : journal[i].kind = kind})

\* Where the journal says that the script of an engine is.
CallsOf(kind) ==
    MapThenSumSet(LAMBDA i : Len(journal[i].usage),
                  {i \in DOMAIN journal : journal[i].kind = kind})

\* _require_task_position
Position(kind) ==
    /\ journal # <<>>
    /\ IF kind \in Prefix
       THEN LastPhase = Phase[kind] - 1
       ELSE /\ Done("queries") /\ Done("retrieval")
            /\ Phase[kind] >= LastPhase
            /\ kind = "audit_proposition" => Done("propositions")
            /\ kind = "render" => Done("audit_proposition")
            /\ kind = "audit_sentence" => Done("render")

(***************************************************************************)
(* A semantic task                                                         *)
(***************************************************************************)
\* The last checks before the engine runs.
Begin(k, kind, on) ==
    /\ job[k] = Idle
    /\ Position(kind)
    /\ ~Terminal /\ Reconciled
    /\ kind # "assess_evidence" => ~Accepted(kind, on)
    /\ Spent + Attempts <= MaxInvocations
    /\ job' = [job EXCEPT ![k] = [Idle EXCEPT !.pc = "checked", !.kind = kind, !.on = on,
                                              !.base = Len(journal),
                                              !.cursor = CallsOf(kind)]]
    /\ UNCHANGED <<vars, journal, work>>

\* The calls a user can make, with what the controller and the adapter of the
\* task ask of their arguments.
CallParse(k) == Begin(k, "parse", {})
CallChallenger(k) == Begin(k, "challenge", {})
CallClaims(k) == Begin(k, "claims", {})

\* All claims of CURRENT, in their order.
CallQueries(k) == Begin(k, "queries", claims)

\* The ledger must be the one in the retrieval event, found again on CURRENT.
CallEvidence(k) ==
    \E q \in SelectedQueries : Done("retrieval") /\ Begin(k, "assess_evidence", q)

CallAggregate(k) ==
    \E c \in claims, p \in Paper :
        Evidence(c, p) # {} /\ Begin(k, "aggregate", [claim |-> c, paper |-> p])

CallAssessment(k) == \E c \in claims : Begin(k, "assess_claim", c)

CallRevision(k) ==
    \E c \in claims : assessment[c].decision = "modify" /\ Begin(k, "revise", c)

\* A modified claim is validated in the wording of its accepted revision.
CallFinalValidation(k) ==
    \E c \in claims :
        /\ assessment[c].decision \in {"retain", "modify"}
        /\ assessment[c].decision = "modify" => Accepted("revise", c)
        /\ Begin(k, "validate_final", c)

\* All packets of CURRENT, once every claim is assessed.
CallPropositions(k) ==
    /\ \A c \in claims : Assessed(c)
    /\ {c \in Claim : Published(c)} # {}
    /\ Begin(k, "propositions", {c \in Claim : Published(c)})

CallPropositionAudit(k) ==
    \E d \in propositionDrafts : \E item \in d.items :
        /\ ~AuditedProposition(d, item)
        /\ Begin(k, "audit_proposition", [draft |-> d, item |-> item])

CallRendering(k) == \E S \in (SUBSET Passing) \ {{}} : Begin(k, "render", S)

CallSentenceAudit(k) ==
    \E d \in sentenceDrafts : \E item \in d.items :
        /\ ~AuditedSentence(item) /\ AuditableSentence(d, item)
        /\ Begin(k, "audit_sentence", [draft |-> d, item |-> item])

Call(k) ==
    \/ CallParse(k) \/ CallChallenger(k) \/ CallClaims(k) \/ CallQueries(k)
    \/ CallEvidence(k) \/ CallAggregate(k)
    \/ CallAssessment(k) \/ CallRevision(k) \/ CallFinalValidation(k)
    \/ CallPropositions(k) \/ CallPropositionAudit(k)
    \/ CallRendering(k) \/ CallSentenceAudit(k)

\* Faulty: one technical attempt too many.
OneMoreAttempt(calls) == calls <= Attempts

AttemptsLeft(calls) == calls < Attempts

\* The engine runs in an attempt of its own, whatever happens to CURRENT meanwhile.
\* Its proposal is valid, and the record of the attempt is left open until the
\* commit has decided; or it is not, and the kernel tries again.
Attempt(k) ==
    LET new == job[k].id = 0
        id == IF new THEN Len(work) + 1 ELSE job[k].id
        calls == IF new THEN 1 ELSE Len(work[id].attempts) + 1
        Leaves(outcome, pc) ==
            /\ work' = IF new
                       THEN Append(work, [attempts |-> <<outcome>>, since |-> Len(journal)])
                       ELSE [work EXCEPT ![id].attempts = Append(@, outcome)]
            /\ job' = [job EXCEPT ![k].pc = pc, ![k].id = id, ![k].cursor = @ + 1]
    IN /\ job[k].pc = "checked"
       /\ \/ Leaves("open", "answered")
          \/ ~AttemptsLeft(calls) /\ Leaves("technical", "failed")
          \/ /\ AttemptsLeft(calls)
             /\ Cardinality({i \in DOMAIN work : Len(work[i].attempts) > 1}) < MaxRetries
             /\ Leaves("technical", "checked")
       /\ UNCHANGED <<vars, journal>>

\* The attempts that have no record.
Open(id) == {n \in DOMAIN work[id].attempts : work[id].attempts[n] = "open"}

\* Only the accepted attempt may be without a record.
AcceptedBinding(id, accepted) ==
    Open(id) = IF accepted THEN {Len(work[id].attempts)} ELSE {}

\* Faulty: an event accounts for the attempt that was accepted.
UsageOfAccepted(id) == <<"accepted">>

\* All attempts on disk; the one that is about to be accepted has no record yet.
Usage(id) ==
    [n \in DOMAIN work[id].attempts |->
        IF n \in Open(id) THEN "accepted" ELSE work[id].attempts[n]]

\* An event of a task, with the budget after it.
TaskEvent(k, status, usage, out, spent) ==
    [kind |-> job[k].kind, on |-> job[k].on, status |-> status, out |-> out,
     id |-> job[k].id, usage |-> usage, spent |-> spent, answer |-> job[k].cursor]

\* A generation is refused unless CURRENT is still what the call was checked
\* against, and the journal with its event is in sequence.
Commit(k, event) ==
    /\ job[k].base = Len(journal)
    /\ \A j \in Controller : job[j] # Idle => Len(journal) < job[j].base + MaxLag
    /\ journal' = Append(journal, event)
    /\ ValidSequence'
    /\ job' = [job EXCEPT ![k] = Idle]

\* No budget may be exceeded.
AcceptedBudget(usage) == Spent + Len(usage)

\* One generation holds the promotion and the event.  (A run that has committed
\* may still report a failure: CURRENT has moved, so that it is not recorded.)
Accept(k) ==
    LET id == job[k].id
    IN /\ job[k].pc = "answered"
       /\ AcceptedBinding(id, TRUE)
       /\ AcceptedBudget(Usage(id)) <= MaxInvocations
       /\ Promote(job[k].kind, job[k].on)
       /\ Commit(k, TaskEvent(k, "completed", Usage(id), NewItems(job[k].kind),
                               AcceptedBudget(Usage(id))))
       /\ UNCHANGED work

\* A failure is recorded within the budget, whatever it was.
FailedBudget(usage) == Min({Spent + Len(usage), MaxInvocations})

\* The commit of a valid proposal raises: a budget, or a sequence that would not be.
Refuse(k) ==
    LET id == job[k].id
    IN /\ job[k].pc = "answered"
       /\ job' = [job EXCEPT ![k].pc = "failed"]
       /\ work' = [work EXCEPT ![id].attempts[Len(work[id].attempts)] = "refused"]
       /\ UNCHANGED <<vars, journal>>

\* Faulty: the generation with the failure is built on what was staged for the
\* refused proposal.
FailOnStagedRecord(k) ==
    LET id == job[k].id
    IN /\ job[k].pc = "failed"
       /\ AcceptedBinding(id, FALSE)
       /\ Promote(job[k].kind, job[k].on)
       /\ Commit(k, TaskEvent(k, "failed", Usage(id), {}, FailedBudget(Usage(id))))
       /\ UNCHANGED work

\* A task without an accepted attempt ends the run.
Fail(k) ==
    LET id == job[k].id
    IN /\ job[k].pc = "failed"
       /\ AcceptedBinding(id, FALSE)
       /\ UNCHANGED vars
       /\ Commit(k, TaskEvent(k, "failed", Usage(id), {}, FailedBudget(Usage(id))))
       /\ UNCHANGED work

(***************************************************************************)
(* A control event                                                         *)
(***************************************************************************)
BeginControl(k, kind, out) ==
    /\ job[k] = Idle
    /\ ~Terminal /\ Reconciled
    /\ job' = [job EXCEPT ![k] = [Idle EXCEPT !.pc = "ready", !.kind = kind, !.out = out,
                                              !.base = Len(journal)]]
    /\ UNCHANGED <<vars, journal, work>>

RecordPrerequisites(k) == journal = <<>> /\ BeginControl(k, "prerequisites", {})

\* The ledgers of all queries, retrieved again and found equal.
RecordRetrieval(k) == LastPhase = 4 /\ BeginControl(k, "retrieval", RetrievalPayload)

\* If the sentences cannot be assembled that is recorded.
ExactAssembly(k) ==
    LastPhase = 10 /\ BeginControl(k, "assembly", IF Assemblable THEN Assembly ELSE {})

\* The assembly is made again from CURRENT if this controller did not make it.
ValidationReport(k) ==
    /\ journal # <<>> /\ Newest.kind = "assembly"
    /\ BeginControl(k, "report", {})

CallControl(k) ==
    RecordPrerequisites(k) \/ RecordRetrieval(k) \/ ExactAssembly(k) \/ ValidationReport(k)

\* The event that follows the base of the call, whatever has followed it since.
ControlEvent(k) ==
    [kind |-> job[k].kind, on |-> job[k].on,
     status |-> IF job[k].kind = "assembly" /\ job[k].out = {} THEN "blocked" ELSE "completed",
     out |-> job[k].out, id |-> 0, usage |-> <<>>, spent |-> SpentBy(job[k].base),
     answer |-> 0]

\* A control event changes nothing else.
RecordControl(k) ==
    /\ job[k].pc = "ready"
    /\ UNCHANGED <<vars, work>>
    /\ Commit(k, ControlEvent(k))

\* CURRENT has moved, but another controller has recorded this very event: the
\* call returns it as its own.
ReuseControl(k) ==
    /\ job[k].pc = "ready" /\ job[k].base < Len(journal)
    /\ journal[job[k].base + 1].kind = job[k].kind
    /\ journal[job[k].base + 1] = ControlEvent(k)
    /\ job' = [job EXCEPT ![k] = Idle]
    /\ UNCHANGED <<vars, journal, work>>

\* The process dies, or the call raises: CURRENT has moved, so that neither the
\* task nor its failure can be committed, or a control event is not in sequence.
Leave(k) ==
    /\ job[k] # Idle
    /\ job' = [job EXCEPT ![k] = Idle]
    /\ UNCHANGED <<vars, journal, work>>

PilotNext ==
    \E k \in Controller :
        \/ Call(k) \/ Attempt(k) \/ Accept(k) \/ Refuse(k) \/ Fail(k)
        \/ CallControl(k) \/ RecordControl(k) \/ ReuseControl(k)
        \/ Leave(k)

PilotSpec == PilotInit /\ [][PilotNext]_pilotVars

(***************************************************************************)
(* Properties                                                              *)
(***************************************************************************)
\* The type invariant of the controllers and their journal.
PilotTypeOK ==
    /\ \A i \in DOMAIN journal :
           /\ journal[i].kind \in Kind
           /\ journal[i].status \in {"completed", "failed", "blocked"}
           /\ journal[i].id \in 0..Len(work) /\ Len(journal[i].usage) \in 0..Attempts
           /\ (journal[i].id = 0) <=> (journal[i].kind \in Control)
           /\ \A n \in DOMAIN journal[i].usage : journal[i].usage[n] \in AttemptOutcome
    /\ \A id \in DOMAIN work :
           Len(work[id].attempts) \in 1..Attempts /\ work[id].since \in 0..Len(journal)
    /\ \A k \in Controller :
           /\ job[k].pc \in {"idle", "ready", "checked", "answered", "failed"}
           /\ job[k].id \in 0..Len(work) /\ job[k].base \in 0..Len(journal)

\* An event accounts for every attempt of its task, also for those that are made
\* later or by others; no task is accounted for twice; and the invocations that
\* the journal adds up to stay within the budget of the run.
CallsAreAccounted ==
    /\ \A i \in DOMAIN journal : journal[i].id # 0 =>
           /\ Len(journal[i].usage) = Len(work[journal[i].id].attempts)
           /\ \A j \in DOMAIN journal : journal[j].id = journal[i].id => i = j
    /\ Spent = MapThenSumSet(LAMBDA i : Len(journal[i].usage), DOMAIN journal)
    /\ Spent <= MaxInvocations

\* Once an engine was called in a task that no event accounts for, because its
\* process died or its commit came too late, at most the one event that was
\* being made is still added, whoever carries on.
StrayCallsStopTheRun ==
    \A id \in DOMAIN work :
        (\A i \in DOMAIN journal : journal[i].id # id) =>
            Len(journal) <= work[id].since + 1

\* The answers of an engine's script that accepted tasks rest on are used in its
\* order, each once and none passed over but those of attempts that failed, over
\* restarts and whichever controllers made the calls.
ScriptIsConsumedOnce ==
    \A i \in DOMAIN journal : journal[i].id # 0 =>
        journal[i].answer =
            MapThenSumSet(LAMBDA j : Len(journal[j].usage),
                          {j \in 1..i : journal[j].kind = journal[i].kind})

\* A closed run leaves nothing behind: every selected candidate was decided
\* once, all evidence is aggregated and every claim judged to its end, every
\* packet is used, every drafted item is audited, and what was assembled is
\* what passed.
ClosedRunsAreComplete ==
    Closed =>
        /\ \A q \in Query : ClaimOf[q] \in claims =>
               Cardinality({i \in DOMAIN spans : spans[i].query = q}) = Len(Hits[q])
        /\ \A c \in claims :
               /\ Assessed(c) /\ (Validated(c) <=> assessment[c].decision # "reject")
               /\ \A p \in Paper : cpe[c][p] = Evidence(c, p)
               /\ Published(c) => Cited(c)
        /\ \A d \in propositionDrafts : \A item \in d.items : AuditedProposition(d, item)
        /\ \A d \in sentenceDrafts : \A item \in d.items : AuditedSentence(item)
        /\ \A i \in Completed("assembly") : {x.sentence : x \in journal[i].out} = Sentences

\* The spans of a query that is assessed are its candidates, each once; those of
\* a query that is not are none.
CandidatesTold ==
    \A q \in Query :
        LET decided == {i \in DOMAIN spans : spans[i].query = q}
        IN IF Accepted("assess_evidence", q)
           THEN Cardinality(decided) = Len(Hits[q])
           ELSE decided = {}

\* What is aggregated, assessed and validated is what tasks were accepted for, and
\* a claim has a revised wording exactly if its revision was accepted.
ClaimsTold ==
    \A c \in Claim :
        /\ \A p \in Paper : cpe[c][p] # {} <=> Accepted("aggregate", [claim |-> c, paper |-> p])
        /\ Assessed(c) <=> Accepted("assess_claim", c)
        /\ Validated(c) <=> Accepted("validate_final", c)
        /\ Validated(c) =>
               final[c].text = IF Accepted("revise", c) THEN RevisedText ELSE OwnText

\* The drafted and the audited items are those of the events.
ItemsTold ==
    /\ UNION {d.items : d \in propositionDrafts} =
           UNION {journal[i].out : i \in Completed("propositions")}
    /\ UNION {d.items : d \in sentenceDrafts} = UNION {journal[i].out : i \in Completed("render")}
    /\ {[claims |-> r.claims, text |-> r.text] : r \in propositions} =
           {journal[i].on.item : i \in Completed("audit_proposition")}
    /\ {[sources |-> a.sources, text |-> a.text] : a \in sentenceAudits} =
           {journal[i].on.item : i \in Completed("audit_sentence")}

\* Journal and record never drift apart: from the accepted events one can tell
\* all that the record holds, and it holds nothing that no event tells, whatever
\* failed, was repeated or died on the way.
JournalTellsTheRecord == CandidatesTold /\ ClaimsTold /\ ItemsTold
================================================================================
