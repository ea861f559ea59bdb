------------------------------ MODULE PilotSequence ------------------------------
(***************************************************************************)
(* The journal of a pilot run and the fixed sequence that it must follow.  *)
(*                                                                         *)
(* Every event is one generation: the promotion of its task and the event  *)
(* are committed together or not at all.  A control event has no task and  *)
(* changes no canonical object.  The sequence is validated for the journal *)
(* with the new event, on the staged snapshot, before CURRENT moves.       *)
(*                                                                         *)
(* Facts about the corpus and the process are left out, so a pilot without *)
(* a published claim goes no further than its claims.                      *)
(***************************************************************************)
EXTENDS ReviewRecord, FiniteSetsExt

CONSTANTS
    OwnText,           \* the wording of a claim as it was generated
    RevisedText,       \* the wording that its accepted revision proposes
    MaxEvents          \* the bound of the code on the length of a journal

ASSUME SequenceAssumption ==
    /\ {OwnText, RevisedText} \subseteq ClaimText
    /\ ClaimDecision = {"retain", "modify", "reject"}
    /\ MaxEvents \in Nat

VARIABLE journal       \* the events of CURRENT, oldest first

\* The kinds of events and their phases.
Phase ==
    [prerequisites |-> 0, parse |-> 1, challenge |-> 2, claims |-> 3, queries |-> 4,
     retrieval |-> 5, assess_evidence |-> 6, aggregate |-> 7, assess_claim |-> 7,
     revise |-> 8, validate_final |-> 8, propositions |-> 9, audit_proposition |-> 9,
     render |-> 10, audit_sentence |-> 10, assembly |-> 11, report |-> 12]

Control == {"prerequisites", "retrieval", "assembly", "report"}
Prefix == {"parse", "challenge", "claims", "queries"}
Kind == DOMAIN Phase

\* An event has the kind and the arguments of its task, its status, what it drafts,
\* retrieves or assembles, the task directory of its attempts and what came of
\* each, how many the run has made so far, and, for the properties, the number
\* of the engine's last answer.
Completed(kind) ==
    {i \in DOMAIN journal : journal[i].kind = kind /\ journal[i].status = "completed"}
Done(kind) == Completed(kind) # {}
Accepted(kind, on) == \E i \in Completed(kind) : journal[i].on = on

Newest == journal[Len(journal)]
LastPhase == IF journal = <<>> THEN -1 ELSE Phase[Newest.kind]

\* Nothing follows a failed or blocked event, or the report.
Terminal == journal # <<>> /\ (Newest.status # "completed" \/ Newest.kind = "report")
Closed == journal # <<>> /\ Newest.status = "completed" /\ Newest.kind = "report"

\* A failed event is no progress.
CompletedPhase ==
    Max({0} \cup {Phase[journal[i].kind] :
                      i \in {j \in DOMAIN journal : journal[j].status = "completed"}})

(***************************************************************************)
(* Drafts: one at a time, audited item by item                             *)
(***************************************************************************)
\* The items of the latest draft before event n that no event before it audits.
Outstanding(producer, auditor, n) ==
    LET drafts == {i \in Completed(producer) : i < n}
        draft == Max(drafts)
    IN IF drafts = {} THEN {}
       ELSE journal[draft].out \
            {journal[i].on.item : i \in {j \in Completed(auditor) : draft < j /\ j < n}}

AuditsFollowDrafts(producer, auditor) ==
    /\ \A i \in Completed(producer) : Outstanding(producer, auditor, i) = {}
    /\ \A i \in Completed(auditor) :
           journal[i].on.item \in Outstanding(producer, auditor, i)

AuditsComplete(producer, auditor) ==
    Done(producer) /\ Outstanding(producer, auditor, Len(journal) + 1) = {}

(***************************************************************************)
(* What must be true before a phase may begin                              *)
(***************************************************************************)
\* The ledgers that the retrieval event keeps: for each query what was selected.
RetrievalPayload == {[query |-> q, selected |-> Hits[q]] : q \in queries}

Ledgers == UNION {journal[i].out : i \in Completed("retrieval")}
SelectedQueries == {l.query : l \in {x \in Ledgers : x.selected # <<>>}}

\* Faulty: a query may be assessed again.
RetrievalProgressRepeats ==
    /\ Done("queries") /\ Done("retrieval") /\ {l.query : l \in Ledgers} = queries
    /\ queries = {q \in Query : ClaimOf[q] \in claims}
    /\ \A i \in Completed("assess_evidence") : journal[i].on \in SelectedQueries

RetrievalProgress ==
    /\ Done("queries") /\ Done("retrieval") /\ {l.query : l \in Ledgers} = queries
    /\ queries = {q \in Query : ClaimOf[q] \in claims}
    /\ \A i, j \in Completed("assess_evidence") : journal[i].on = journal[j].on => i = j
    /\ \A i \in Completed("assess_evidence") : journal[i].on \in SelectedQueries

\* Faulty: one assessed query is taken for all.
SomeEvidenceDecided ==
    SelectedQueries # {} => Done("assess_evidence")

EvidenceDecided ==
    SelectedQueries = {journal[i].on : i \in Completed("assess_evidence")}

\* The aggregates partition the evidence, and one task made each.
EvidencePartition ==
    \A c \in Claim, p \in Paper :
        LET tasks == {i \in Completed("aggregate") : journal[i].on = [claim |-> c, paper |-> p]}
        IN /\ cpe[c][p] = Evidence(c, p)
           /\ Cardinality(tasks) = IF Evidence(c, p) = {} THEN 0 ELSE 1

\* A claim is assessed after all its aggregates, so its assessment reads the
\* complete set of them.
ClaimsInOrder ==
    \A i \in Completed("aggregate"), j \in Completed("assess_claim") :
        journal[i].on.claim = journal[j].on => i < j

\* The revision of a claim lies between its assessment and its validation.
Paired(c) ==
    LET At(kind) == {i \in Completed(kind) : journal[i].on = c}
        decision == assessment[c].decision
    IN /\ Assessed(c) /\ Cardinality(At("assess_claim")) = 1
       /\ Cardinality(At("revise")) <= 1 /\ Cardinality(At("validate_final")) <= 1
       /\ Validated(c) <=> At("validate_final") # {}
       /\ decision = "reject" => At("revise") = {} /\ ~Validated(c)
       /\ Validated(c) =>
              /\ \A i \in At("assess_claim"), j \in At("validate_final") : i < j
              /\ decision = "retain" => At("revise") = {} /\ final[c].text = OwnText
              /\ decision = "modify" =>
                     /\ final[c].text = RevisedText
                     /\ \E r \in At("revise") :
                            /\ \A i \in At("assess_claim") : i < r
                            /\ \A j \in At("validate_final") : r < j

ClaimsTerminal ==
    \A c \in claims : assessment[c].decision # "reject" => Validated(c)

PacketsPartition ==
    \A c \in claims :
        /\ Published(c) <=> final[c].status = "valid"
        /\ Published(c) => packet[c].papers = AggregatedPapers(c)

RenderedFromPassing ==
    \A i \in Completed("render") :
        \A item \in journal[i].out : item.sources \subseteq Passing

\* Every packet was drafted from, and some proposition cites it.
PacketsCited ==
    LET packets == {c \in Claim : Published(c)}
    IN /\ UNION {r.claims : r \in propositions} = packets
       /\ UNION {journal[i].on : i \in Completed("propositions")} = packets

\* The section: every sentence, with the claims that it cites through its sources.
Assembly ==
    {[sentence |-> s, claims |-> UNION {r.claims : r \in s.sources}] : s \in Sentences}

Assemblable == Sentences # {} /\ ValidSentences

(***************************************************************************)
(* The events by themselves, and their chain                               *)
(***************************************************************************)
AttemptOutcome == {"technical", "refused", "accepted"}

AcceptedAttempts(usage) == {n \in DOMAIN usage : usage[n] = "accepted"}

\* The usage of a task names at most one accepted attempt.
ClosedUsage(usage) == usage # <<>> /\ Cardinality(AcceptedAttempts(usage)) <= 1

\* A control event names no task, and holds nothing if it is blocked.
ControlAuthentic(event) ==
    /\ event.kind \in Control /\ event.id = 0 /\ event.usage = <<>>
    /\ event.status # "completed" => event.out = {}

\* The receipt of a completed task is that of an attempt of its own.
TaskAuthentic(event) ==
    /\ event.kind \notin Control /\ event.id # 0 /\ ClosedUsage(event.usage)
    /\ event.status = "completed" <=> AcceptedAttempts(event.usage) # {}

Authentic(event) == ControlAuthentic(event) \/ TaskAuthentic(event)

\* Each event names the one before it, from which its budget goes on.
ChainLoads ==
    \A i \in DOMAIN journal :
        Authentic(journal[i]) /\ (i > 1 => journal[i - 1].spent <= journal[i].spent)

\* What a completed control event holds is what CURRENT holds.
ControlsBound ==
    /\ \A i \in Completed("retrieval") : {l.query : l \in journal[i].out} = queries
    /\ \A i \in Completed("assembly") : journal[i].out = Assembly

(***************************************************************************)
(* validate_fixed_pilot_artifact_sequence                                  *)
(***************************************************************************)
EventsChained ==
    /\ Len(journal) <= MaxEvents
    /\ journal[1].kind = "prerequisites" /\ journal[1].status = "completed"
    /\ ChainLoads /\ ControlsBound

\* A blocked or failed event is the last one.
PhasesAdvance ==
    \A i, j \in DOMAIN journal : i < j =>
        /\ journal[i].status = "completed"
        /\ journal[j].status # "failed" => Phase[journal[i].kind] <= Phase[journal[j].kind]

PrefixInOrder ==
    /\ \A kind \in Control \cup Prefix : Cardinality(Completed(kind)) <= 1
    /\ LET reached == CompletedPhase
       IN \A kind \in Prefix : reached > Phase[kind] => Done(kind)

DraftsInOrder ==
    /\ AuditsFollowDrafts("propositions", "audit_proposition")
    /\ AuditsFollowDrafts("render", "audit_sentence")

\* What the furthest completed phase rests on.
PhasesGrounded ==
    LET reached == CompletedPhase
    IN /\ reached >= 6 => RetrievalProgress
       /\ reached >= 7 => EvidenceDecided
       /\ reached >= 8 => EvidencePartition /\ \A c \in claims : Paired(c)
       /\ reached >= 9 => ClaimsTerminal /\ PacketsPartition
       /\ reached >= 10 =>
              /\ AuditsComplete("propositions", "audit_proposition") /\ Passing # {}
              /\ RenderedFromPassing
       /\ reached >= 11 =>
              /\ AuditsComplete("render", "audit_sentence") /\ Sentences # {}
              /\ Done("assembly")
              /\ \A i \in Completed("assembly") :
                     {x.sentence : x \in journal[i].out} = Sentences

QueriesCoverClaims ==
    \A i \in Completed("queries") :
        journal[i].on = claims /\ queries = {q \in Query : ClaimOf[q] \in claims}

DecisionsCoverSelection ==
    /\ EvidenceDecided
    /\ SelectedQueries # {} => Done("aggregate") /\ Done("assess_claim")

\* A report closes the run: everything is looked at once more.
ClosureComplete ==
    Closed =>
        /\ \A kind \in Control \cup Prefix : Done(kind)
        /\ QueriesCoverClaims /\ DecisionsCoverSelection /\ PacketsCited

ValidSequence ==
    /\ EventsChained /\ PhasesAdvance /\ PrefixInOrder /\ ClaimsInOrder /\ DraftsInOrder
    /\ PhasesGrounded /\ ClosureComplete

(***************************************************************************)
(* What an accepted task does to the record                                *)
(***************************************************************************)
\* A retained claim keeps its wording; a modified one takes its revision's.
FinalText(c) == IF assessment[c].decision = "modify" THEN RevisedText ELSE OwnText

PromoteEvidence(kind, on) ==
    \/ kind = "assess_evidence" /\ AssessEvidence(on)
    \/ kind = "aggregate" /\ AggregatePaperEvidence(on.claim, on.paper)

PromoteAudit(kind, on) ==
    \E verdict \in {"pass", "fail"} :
        \/ kind = "audit_proposition" /\ AuditProposition(on.draft, on.item, verdict)
        \/ kind = "audit_sentence" /\ AuditRenderedSentence(on.draft, on.item, verdict)

Promote(kind, on) ==
    \/ kind \in {"parse", "challenge", "revise"} /\ UNCHANGED vars
    \/ kind = "claims" /\ \E S \in (SUBSET Claim) \ {{}} : GenerateCandidateClaims(S)
    \/ kind = "queries" /\ GenerateRetrievalQueries(on)
    \/ PromoteEvidence(kind, on)
    \/ kind = "assess_claim" /\ \E decision \in ClaimDecision : AssessClaim(on, decision)
    \/ /\ kind = "validate_final"
       /\ \E status \in {"valid", "invalid"} : ValidateFinalClaim(on, FinalText(on), status)
    \/ kind = "propositions" /\ GeneratePropositions(on)
    \/ kind = "render" /\ RenderProse(on)
    \/ PromoteAudit(kind, on)

\* The items of the draft that a step accepts.
NewItems(kind) ==
    CASE kind = "propositions" -> UNION {d.items : d \in propositionDrafts' \ propositionDrafts}
      [] kind = "render" -> UNION {d.items : d \in sentenceDrafts' \ sentenceDrafts}
      [] OTHER -> {}
================================================================================
