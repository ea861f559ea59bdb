------------------------------ MODULE ReviewRecord ------------------------------
(***************************************************************************)
(* The scientific record of a review: what the accepted tasks of a project *)
(* may add to a repository snapshot and what they may still change in it.  *)
(*                                                                         *)
(* A task is one step.  Its proposal is checked against the snapshot it    *)
(* was built on, and GenerationStore.commit applies it to that snapshot or *)
(* not at all (ProjectRuntime, CommittedOnItsInputs), so tasks of several  *)
(* runtimes interleave here and never overlap.  A task that was accepted   *)
(* before with the same inputs returns its receipt and changes nothing;    *)
(* under a new prompt or contract it runs again.  So repeating one is a    *)
(* stutter or the action itself.                                           *)
(*                                                                         *)
(* Themes, corpus and process facts, and what a text says are left out.    *)
(***************************************************************************)
EXTENDS Integers, Sequences, FiniteSets

CONSTANTS
    Claim,             \* candidate claims that discovery may find
    Query, ClaimOf,    \* retrieval queries; the claim each one is for
    Source, PaperOf,   \* locked source spans; the paper each one is in
    Hits,              \* the candidates a query's retrieval ledger selects
    ClaimDecision,     \* what an assessment may decide
    ClaimText, NoText, \* wordings of a final claim
    ItemText,          \* wordings of a proposition or a sentence
    MaxSpans,          \* bound: canonical spans
    MaxPropositionDrafts, MaxSentenceDrafts    \* bounds: accepted drafts

ASSUME RecordAssumption ==
    /\ ClaimOf \in [Query -> Claim]
    /\ NoText \notin ClaimText
    /\ "reject" \in ClaimDecision /\ "none" \notin ClaimDecision
    /\ MaxSpans \in Nat
    /\ MaxPropositionDrafts \in Nat /\ MaxSentenceDrafts \in Nat
\* Retrieval merges what several backends find at one place.
ASSUME HitsAssumption ==
    /\ Hits \in [Query -> Seq(Source)]
    /\ \A q \in Query : \A i, j \in DOMAIN Hits[q] :
           Hits[q][i] = Hits[q][j] => i = j

VARIABLES
    claims, queries,   \* CandidateClaims and RetrievalQueries
    spans,             \* RetrievedSpans, each with its RetrievalDisposition
    cpe,               \* ClaimPaperEvidence: the evidence it aggregates
    assessment,        \* ClaimAssessment, with the aggregates it was made from
    final,             \* FinalClaimValidation
    packet,            \* ClaimPacket
    propositionDrafts, \* accepted, generation-owned draft artifacts
    propositions,      \* PropositionRecords, each with its SemanticAuditResult
    sentenceDrafts,
    sentenceAudits     \* accepted audit artifacts of rendered sentences

discoveryVars == <<claims, queries>>
evidenceVars == <<spans, cpe>>
judgementVars == <<assessment, final, packet>>
propositionVars == <<propositionDrafts, propositions>>
sentenceVars == <<sentenceDrafts, sentenceAudits>>
vars == <<discoveryVars, evidenceVars, judgementVars, propositionVars, sentenceVars>>

Paper == {PaperOf[s] : s \in Source}

NoAssessment == [decision |-> "none", basis |-> [p \in Paper |-> {}]]
NoFinal == [status |-> "none", text |-> NoText]
NoPacket == [text |-> NoText, papers |-> {}]

Init ==
    /\ claims = {} /\ queries = {}
    /\ spans = <<>>
    /\ cpe = [c \in Claim |-> [p \in Paper |-> {}]]
    /\ assessment = [c \in Claim |-> NoAssessment]
    /\ final = [c \in Claim |-> NoFinal]
    /\ packet = [c \in Claim |-> NoPacket]
    /\ propositionDrafts = {} /\ propositions = {}
    /\ sentenceDrafts = {} /\ sentenceAudits = {}

(***************************************************************************)
(* What the snapshot says                                                  *)
(***************************************************************************)
\* Exactly one EvidenceRecord belongs to an assessed span: the span names it.
Evidence(c, p) ==
    {i \in DOMAIN spans : /\ spans[i].status = "assessed"
                          /\ ClaimOf[spans[i].query] = c
                          /\ PaperOf[spans[i].source] = p}

AggregatedPapers(c) == {p \in Paper : cpe[c][p] # {}}
Assessed(c) == assessment[c].decision # "none"
Validated(c) == final[c].status # "none"
Published(c) == packet[c] # NoPacket

\* Faulty: a refused proposition does not count.
CitedByPassing(c) == \E r \in propositions : c \in r.claims /\ r.verdict = "pass"

Cited(c) == \E r \in propositions : c \in r.claims

\* The dependency hashes of a proposition that cites the claims S.  The rest of
\* the closure (texts, aggregates, evidence) is determined by these.
SourcesOf(S) == [c \in S |-> [packet |-> packet[c], assessment |-> assessment[c]]]

Passing == {r \in propositions : r.verdict = "pass"}
Sentences == {a \in sentenceAudits : a.verdict = "pass"}

\* The claims of an item restrict the dependencies of its draft to its own.
Projected(deps, S) == [c \in S |-> deps[c]]

(***************************************************************************)
(* validate_repository: the rules these objects come under.  A commit      *)
(* evaluates them on the staged snapshot.                                  *)
(***************************************************************************)
ValidSpans ==
    \A i \in DOMAIN spans : spans[i].target # 0 =>
        /\ spans[i].target \in DOMAIN spans \ {i}
        /\ PaperOf[spans[spans[i].target].source] = PaperOf[spans[i].source]

ValidAggregates == \A c \in Claim, p \in Paper : cpe[c][p] \subseteq Evidence(c, p)

ValidClaims ==
    \A c \in Claim : Published(c) =>
        /\ Assessed(c) /\ assessment[c].decision # "reject"
        /\ final[c].status = "valid" /\ final[c].text = packet[c].text
        /\ packet[c].papers = AggregatedPapers(c)

\* Faulty: only the papers that have an aggregate are looked at.
PacketsCloseAggregates ==
    \A c \in Claim : Published(c) =>
        \A p \in AggregatedPapers(c) : Evidence(c, p) \subseteq cpe[c][p]

\* No evidence of a published claim is outside its aggregates.
PacketsAreClosed ==
    \A c \in Claim : Published(c) =>
        \A p \in Paper : Evidence(c, p) \subseteq cpe[c][p]

ValidPropositions == \A c \in Claim : Cited(c) => Published(c)

ValidSentences == \A a \in Sentences : a.sources \subseteq Passing

ValidRecord ==
    /\ ValidSpans /\ ValidAggregates /\ ValidClaims /\ PacketsAreClosed
    /\ ValidPropositions /\ ValidSentences

(***************************************************************************)
(* Discovery, queries and evidence                                         *)
(***************************************************************************)
GenerateCandidateClaims(S) ==
    /\ claims' = claims \cup S
    /\ UNCHANGED <<queries, evidenceVars, judgementVars, propositionVars, sentenceVars>>
    /\ ValidRecord'

\* Every invoked claim gets all its queries.  (Bound: a claim's queries are
\* generated once; the code would number a second set of them.)
GenerateRetrievalQueries(S) ==
    LET new == {q \in Query : ClaimOf[q] \in S}
    IN /\ S \subseteq claims
       /\ new \cap queries = {}
       /\ queries' = queries \cup new
       /\ UNCHANGED <<claims, evidenceVars, judgementVars, propositionVars, sentenceVars>>
       /\ ValidRecord'

Canonicalized(s) == {i \in DOMAIN spans : spans[i].source = s}

\* RetrievalPromotionDecision: target 0 stands for no canonical span.
Decisions ==
    [status : {"assessed", "duplicate", "redundant"}, target : 0..Len(spans)]

\* Faulty: only sources that became evidence are looked at.
DecidableUnlessEvidence(s, d) ==
    /\ (\E i \in Canonicalized(s) : spans[i].status = "assessed")
           => d.status = "duplicate"
    /\ d.status = "assessed" => d.target = 0
    /\ d.status = "duplicate" => d.target \in Canonicalized(s)
    /\ d.status = "redundant" /\ d.target # 0 =>
           PaperOf[spans[d.target].source] = PaperOf[s]

\* A source that any query has brought into the record is a duplicate for
\* every later one.  (The task narrows the targets to the sources of its own
\* candidates; the entry point without a task does not.)
Decidable(s, d) ==
    /\ Canonicalized(s) # {} => d.status = "duplicate"
    /\ d.status = "assessed" => d.target = 0
    /\ d.status = "duplicate" => d.target \in Canonicalized(s)
    /\ d.status = "redundant" /\ d.target # 0 =>
           PaperOf[spans[d.target].source] = PaperOf[s]

\* New evidence may not appear under anything that was made from the old.
OpenToEvidence(c) ==
    /\ AggregatedPapers(c) = {}
    /\ ~Assessed(c) /\ ~Validated(c) /\ ~Published(c) /\ ~Cited(c)

PromoteCandidates(q, decided) ==
    /\ Hits[q] # <<>>
    /\ \A i \in DOMAIN Hits[q] : Decidable(Hits[q][i], decided[i])
    /\ (\E i \in DOMAIN Hits[q] : decided[i].status = "assessed")
           => OpenToEvidence(ClaimOf[q])
    /\ spans' = spans \o [i \in DOMAIN Hits[q] |->
           [query |-> q, source |-> Hits[q][i],
            status |-> decided[i].status, target |-> decided[i].target]]
    /\ UNCHANGED <<discoveryVars, cpe, judgementVars, propositionVars, sentenceVars>>
    /\ ValidRecord'

\* The task, and the entry point without one, decide all of a query's
\* candidates at once.  A later generation is another ledger and so another
\* task: a query can be assessed again.
AssessEvidence(q) ==
    /\ q \in queries
    /\ Len(spans) + Len(Hits[q]) <= MaxSpans
    /\ \E decided \in [DOMAIN Hits[q] -> Decisions] : PromoteCandidates(q, decided)

(***************************************************************************)
(* Aggregates, assessments and packets                                     *)
(***************************************************************************)
\* Faulty: an aggregate may follow the assessment it should have been part of.
AggregateAtAnyTime(c, p) ==
    /\ c \in claims
    /\ Evidence(c, p) # {}
    /\ cpe' = [cpe EXCEPT ![c][p] = Evidence(c, p)]
    /\ UNCHANGED <<discoveryVars, spans, judgementVars, propositionVars, sentenceVars>>
    /\ ValidRecord'

AggregatePaperEvidence(c, p) ==
    /\ c \in claims
    /\ Evidence(c, p) # {}
    /\ Assessed(c) => cpe[c][p] = Evidence(c, p)
    /\ cpe' = [cpe EXCEPT ![c][p] = Evidence(c, p)]
    /\ UNCHANGED <<discoveryVars, spans, judgementVars, propositionVars, sentenceVars>>
    /\ ValidRecord'

AssessClaim(c, decision) ==
    /\ c \in claims
    /\ Validated(c) \/ Published(c) \/ Cited(c) => assessment[c].decision = decision
    /\ assessment' = [assessment EXCEPT ![c] = [decision |-> decision, basis |-> cpe[c]]]
    /\ UNCHANGED <<discoveryVars, evidenceVars, final, packet, propositionVars, sentenceVars>>
    /\ ValidRecord'

\* A valid claim needs a paper relation; its packet covers every aggregate of
\* the claim.  Any other verdict takes the packet away.
ValidateFinalClaim(c, text, status) ==
    /\ Assessed(c)
    /\ status = "valid" =>
           assessment[c].decision # "reject" /\ AggregatedPapers(c) # {}
    /\ Cited(c) => final[c] = [status |-> status, text |-> text]
    /\ final' = [final EXCEPT ![c] = [status |-> status, text |-> text]]
    /\ packet' = [packet EXCEPT ![c] =
           IF status = "valid"
           THEN [text |-> text, papers |-> AggregatedPapers(c)]
           ELSE NoPacket]
    /\ UNCHANGED <<discoveryVars, evidenceVars, assessment, propositionVars, sentenceVars>>
    /\ ValidRecord'

(***************************************************************************)
(* Drafts and their audits.  Accepting a draft changes no canonical        *)
(* object.  Every audit of a proposition writes the proposition with its   *)
(* verdict; only a passing audit of a sentence writes the sentence.        *)
(***************************************************************************)
PropositionItems(S) == [claims : (SUBSET S) \ {{}}, text : ItemText]
SentenceItems(S) == [sources : (SUBSET S) \ {{}}, text : ItemText]

GeneratePropositions(S) ==
    /\ Cardinality(propositionDrafts) < MaxPropositionDrafts
    /\ S # {} /\ \A c \in S : Published(c)
    /\ \E items \in SUBSET PropositionItems(S) :
           /\ UNION {i.claims : i \in items} = S
           /\ propositionDrafts' = propositionDrafts \cup
                  {[sources |-> S, deps |-> SourcesOf(S), items |-> items]}
    /\ UNCHANGED <<discoveryVars, evidenceVars, judgementVars, propositions, sentenceVars>>
    /\ ValidRecord'

\* Faulty: the dependencies of the whole draft are part of an item's identity.
AuditedInDraft(d, item) ==
    \E r \in propositions : /\ r.claims = item.claims /\ r.text = item.text
                            /\ r.deps = d.deps

\* An item's identity is what it says and the sources it says it from; the
\* siblings in its draft do not matter.
AuditedProposition(d, item) ==
    \E r \in propositions : /\ r.claims = item.claims /\ r.text = item.text
                            /\ r.deps = Projected(d.deps, item.claims)

AuditProposition(d, item, verdict) ==
    /\ SourcesOf(d.sources) = d.deps
    /\ ~AuditedProposition(d, item)
    /\ \A c \in d.sources : Published(c)
    /\ propositions' = propositions \cup
           {[claims |-> item.claims, text |-> item.text, verdict |-> verdict,
             deps |-> Projected(d.deps, item.claims)]}
    /\ UNCHANGED <<discoveryVars, evidenceVars, judgementVars,
                   propositionDrafts, sentenceVars>>
    /\ ValidRecord'

RenderProse(S) ==
    /\ Cardinality(sentenceDrafts) < MaxSentenceDrafts
    /\ S # {} /\ S \subseteq Passing
    /\ \E items \in SUBSET SentenceItems(S) :
           /\ UNION {i.sources : i \in items} = S
           /\ sentenceDrafts' = sentenceDrafts \cup {[sources |-> S, items |-> items]}
    /\ UNCHANGED <<discoveryVars, evidenceVars, judgementVars,
                   propositionVars, sentenceAudits>>
    /\ ValidRecord'

AuditedSentence(item) ==
    \E a \in sentenceAudits : a.sources = item.sources /\ a.text = item.text

\* The audit depends on the sentence's own propositions, and the adapter
\* requires the dependencies of the whole draft.
AuditableSentence(d, item) == item.sources = d.sources /\ item.sources \subseteq Passing

AuditRenderedSentence(d, item, verdict) ==
    /\ AuditableSentence(d, item)
    /\ ~AuditedSentence(item)
    /\ sentenceAudits' = sentenceAudits \cup
           {[sources |-> item.sources, text |-> item.text, verdict |-> verdict]}
    /\ UNCHANGED <<discoveryVars, evidenceVars, judgementVars,
                   propositionVars, sentenceDrafts>>
    /\ ValidRecord'

Next ==
    \/ \E S \in (SUBSET Claim) \ {{}} :
           GenerateCandidateClaims(S) \/ GenerateRetrievalQueries(S)
    \/ \E q \in Query : AssessEvidence(q)
    \/ \E c \in Claim, p \in Paper : AggregatePaperEvidence(c, p)
    \/ \E c \in Claim, decision \in ClaimDecision : AssessClaim(c, decision)
    \/ \E c \in Claim, text \in ClaimText, status \in {"valid", "invalid"} :
           ValidateFinalClaim(c, text, status)
    \/ \E S \in SUBSET Claim : GeneratePropositions(S)
    \/ \E d \in propositionDrafts : \E item \in d.items, verdict \in {"pass", "fail"} :
           AuditProposition(d, item, verdict)
    \/ \E S \in SUBSET Passing : RenderProse(S)
    \/ \E d \in sentenceDrafts : \E item \in d.items, verdict \in {"pass", "fail"} :
           AuditRenderedSentence(d, item, verdict)

Spec == Init /\ [][Next]_vars

(***************************************************************************)
(* Properties                                                              *)
(***************************************************************************)
Assessment == [decision : ClaimDecision \cup {"none"}, basis : [Paper -> SUBSET (1..MaxSpans)]]
Packet == [text : ClaimText \cup {NoText}, papers : SUBSET Paper]
PropositionItem == [claims : SUBSET Claim, text : ItemText]
Verdict == {"pass", "fail"}

\* The type invariant: the shape of the record's collections.
TypeOK ==
    /\ claims \subseteq Claim /\ queries \subseteq Query
    /\ spans \in Seq([query : Query, source : Source, target : 0..MaxSpans,
                      status : {"assessed", "duplicate", "redundant"}])
    /\ Len(spans) <= MaxSpans
    /\ cpe \in [Claim -> [Paper -> SUBSET (1..MaxSpans)]]
    /\ assessment \in [Claim -> Assessment]
    /\ final \in [Claim -> [status : {"none", "valid", "invalid"},
                            text : ClaimText \cup {NoText}]]
    /\ packet \in [Claim -> Packet]
    /\ \A d \in propositionDrafts :
           d.sources \subseteq Claim /\ d.items \subseteq PropositionItem
    /\ \A r \in propositions :
           r.claims \subseteq Claim /\ r.text \in ItemText /\ r.verdict \in Verdict
    /\ \A d \in sentenceDrafts :
           \A item \in d.items : item.sources \subseteq d.sources /\ item.text \in ItemText
    /\ \A a \in sentenceAudits : a.text \in ItemText /\ a.verdict \in Verdict

\* What a claim was judged on is what the record still holds: the aggregates an
\* assessment read have not changed since, and each covers all the evidence
\* that its paper has for the claim.
AssessmentsRestOnTheRecord ==
    \A c \in Claim :
        /\ Assessed(c) => assessment[c].basis = cpe[c]
        /\ \A p \in AggregatedPapers(c) : cpe[c][p] = Evidence(c, p)

\* An item is audited once, whatever draft repeats it: no second opinion can
\* turn a refused proposition or sentence into an accepted one.
AuditsAreFinal ==
    /\ \A r1, r2 \in propositions :
           r1.claims = r2.claims /\ r1.text = r2.text /\ r1.deps = r2.deps => r1 = r2
    /\ \A a1, a2 \in sentenceAudits :
           a1.sources = a2.sources /\ a1.text = a2.text => a1 = a2

\* The packets and assessments that a proposition was drafted from are the ones
\* in the record for as long as the proposition is, across the repeated
\* validations of its claims.
PropositionsStandOnTheirSources ==
    \A r \in propositions : r.deps = SourcesOf(r.claims)

\* Every accepted sentence can be followed down to locked sources: through
\* passing propositions and published, unrejected claims, to aggregates that
\* leave no evidence for or against those claims out.
SentencesTraceToEvidence ==
    \A a \in Sentences : \A r \in a.sources :
        /\ r \in Passing
        /\ \A c \in r.claims :
               /\ Published(c) /\ Assessed(c) /\ assessment[c].decision # "reject"
               /\ packet[c].papers # {}
               /\ packet[c].papers = {p \in Paper : Evidence(c, p) # {}}
               /\ \A p \in Paper : cpe[c][p] = Evidence(c, p)

\* A source enters the record once: whichever query meets it first decides it,
\* and every later span of it is a duplicate of that source.  (So it is evidence
\* for one claim at most.)
SourcesSpeakOnce ==
    \A i \in DOMAIN spans :
        IF spans[i].status = "duplicate"
        THEN \E j \in 1..(i - 1) :
                 spans[j].source = spans[i].source /\ spans[j].status # "duplicate"
        ELSE \A j \in 1..(i - 1) : spans[j].source # spans[i].source
================================================================================
