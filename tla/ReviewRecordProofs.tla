--------------------------- MODULE ReviewRecordProofs ---------------------------
(* Theorems about ReviewRecord, for every set of claims, queries, sources and *)
(* texts, and whatever the retrieval ledgers select.                          *)
EXTENDS ReviewRecord, SequenceTheorems, TLAPS

\* An item of a proposition draft cites claims that the draft was made from.
ItemsCiteTheirDraft ==
    \A d \in propositionDrafts : \A item \in d.items : item.claims \subseteq d.sources

\* A published claim has evidence in some paper.
PublishedHavePapers == \A c \in Claim : Published(c) => AggregatedPapers(c) # {}

IInv ==
    /\ TypeOK /\ ValidRecord /\ ItemsCiteTheirDraft /\ PublishedHavePapers
    /\ AssessmentsRestOnTheRecord /\ AuditsAreFinal
    /\ PropositionsStandOnTheirSources /\ SourcesSpeakOnce

-------------------------------------------------------------------------------
(* What a step can change                                                    *)

\* Each part of the record is written by one task, except a claim's final
\* wording and its packet, which are written together.
LEMMA WhoWrites ==
    ASSUME [Next]_vars
    PROVE  /\ UNCHANGED claims
                 \/ \E S \in (SUBSET Claim) \ {{}} : GenerateCandidateClaims(S)
           /\ UNCHANGED queries
                 \/ \E S \in (SUBSET Claim) \ {{}} : GenerateRetrievalQueries(S)
           /\ UNCHANGED spans \/ \E q \in Query : AssessEvidence(q)
           /\ UNCHANGED cpe
                 \/ \E c \in Claim, p \in Paper : AggregatePaperEvidence(c, p)
           /\ UNCHANGED assessment
                 \/ \E c \in Claim, decision \in ClaimDecision : AssessClaim(c, decision)
           /\ UNCHANGED <<final, packet>>
                 \/ \E c \in Claim, text \in ClaimText, status \in {"valid", "invalid"} :
                        ValidateFinalClaim(c, text, status)
           /\ UNCHANGED propositionDrafts
                 \/ \E S \in SUBSET Claim : GeneratePropositions(S)
           /\ UNCHANGED propositions
                 \/ \E d \in propositionDrafts :
                        \E item \in d.items, verdict \in {"pass", "fail"} :
                            AuditProposition(d, item, verdict)
           /\ UNCHANGED sentenceDrafts \/ \E S \in SUBSET Passing : RenderProse(S)
           /\ UNCHANGED sentenceAudits
                 \/ \E d \in sentenceDrafts :
                        \E item \in d.items, verdict \in {"pass", "fail"} :
                            AuditRenderedSentence(d, item, verdict)
<1>1. CASE UNCHANGED vars
  BY <1>1 DEF vars, discoveryVars, evidenceVars, judgementVars, propositionVars, sentenceVars
<1>2. ASSUME NEW S \in (SUBSET Claim) \ {{}}, GenerateCandidateClaims(S)
      PROVE  /\ UNCHANGED <<queries, spans, cpe, assessment, final, packet>>
             /\ UNCHANGED <<propositionDrafts, propositions, sentenceDrafts, sentenceAudits>>
  BY <1>2 DEF GenerateCandidateClaims, evidenceVars, judgementVars, propositionVars,
              sentenceVars
<1>3. ASSUME NEW S \in (SUBSET Claim) \ {{}}, GenerateRetrievalQueries(S)
      PROVE  /\ UNCHANGED <<claims, spans, cpe, assessment, final, packet>>
             /\ UNCHANGED <<propositionDrafts, propositions, sentenceDrafts, sentenceAudits>>
  BY <1>3 DEF GenerateRetrievalQueries, evidenceVars, judgementVars, propositionVars,
              sentenceVars
<1>4. ASSUME NEW q \in Query, AssessEvidence(q)
      PROVE  /\ UNCHANGED <<claims, queries, cpe, assessment, final, packet>>
             /\ UNCHANGED <<propositionDrafts, propositions, sentenceDrafts, sentenceAudits>>
  BY <1>4 DEF AssessEvidence, PromoteCandidates, discoveryVars, judgementVars,
              propositionVars, sentenceVars
<1>5. ASSUME NEW c \in Claim, NEW p \in Paper, AggregatePaperEvidence(c, p)
      PROVE  /\ UNCHANGED <<claims, queries, spans, assessment, final, packet>>
             /\ UNCHANGED <<propositionDrafts, propositions, sentenceDrafts, sentenceAudits>>
  BY <1>5 DEF AggregatePaperEvidence, discoveryVars, judgementVars, propositionVars,
              sentenceVars
<1>6. ASSUME NEW c \in Claim, NEW decision \in ClaimDecision, AssessClaim(c, decision)
      PROVE  /\ UNCHANGED <<claims, queries, spans, cpe, final, packet>>
             /\ UNCHANGED <<propositionDrafts, propositions, sentenceDrafts, sentenceAudits>>
  BY <1>6 DEF AssessClaim, discoveryVars, evidenceVars, propositionVars, sentenceVars
<1>7. ASSUME NEW c \in Claim, NEW text \in ClaimText, NEW status \in {"valid", "invalid"},
             ValidateFinalClaim(c, text, status)
      PROVE  /\ UNCHANGED <<claims, queries, spans, cpe, assessment>>
             /\ UNCHANGED <<propositionDrafts, propositions, sentenceDrafts, sentenceAudits>>
  BY <1>7 DEF ValidateFinalClaim, discoveryVars, evidenceVars, propositionVars, sentenceVars
<1>8. ASSUME NEW S \in SUBSET Claim, GeneratePropositions(S)
      PROVE  /\ UNCHANGED <<claims, queries, spans, cpe, assessment, final, packet>>
             /\ UNCHANGED <<propositions, sentenceDrafts, sentenceAudits>>
  BY <1>8 DEF GeneratePropositions, discoveryVars, evidenceVars, judgementVars, sentenceVars
<1>9. ASSUME NEW d, NEW item, NEW verdict, AuditProposition(d, item, verdict)
      PROVE  /\ UNCHANGED <<claims, queries, spans, cpe, assessment, final, packet>>
             /\ UNCHANGED <<propositionDrafts, sentenceDrafts, sentenceAudits>>
  BY <1>9 DEF AuditProposition, discoveryVars, evidenceVars, judgementVars, sentenceVars
<1>10. ASSUME NEW S \in SUBSET Passing, RenderProse(S)
       PROVE  /\ UNCHANGED <<claims, queries, spans, cpe, assessment, final, packet>>
              /\ UNCHANGED <<propositionDrafts, propositions, sentenceAudits>>
  BY <1>10 DEF RenderProse, discoveryVars, evidenceVars, judgementVars, propositionVars
<1>11. ASSUME NEW d, NEW item, NEW verdict, AuditRenderedSentence(d, item, verdict)
       PROVE  /\ UNCHANGED <<claims, queries, spans, cpe, assessment, final, packet>>
              /\ UNCHANGED <<propositionDrafts, propositions, sentenceDrafts>>
  BY <1>11 DEF AuditRenderedSentence, discoveryVars, evidenceVars, judgementVars,
               propositionVars
<1> QED
  BY <1>1, <1>2, <1>3, <1>4, <1>5, <1>6, <1>7, <1>8, <1>9, <1>10, <1>11 DEF Next

\* Every task is committed to a valid snapshot only.
LEMMA CommitsAreValid ==
    ASSUME ValidRecord, [Next]_vars
    PROVE  ValidRecord'
<1>1. CASE UNCHANGED vars
  BY <1>1 DEF vars, discoveryVars, evidenceVars, judgementVars, propositionVars,
       sentenceVars, ValidRecord, ValidSpans, ValidAggregates, ValidClaims,
       PacketsAreClosed, ValidPropositions, ValidSentences, Evidence, AggregatedPapers,
       Assessed, Published, Cited, Passing, Sentences
<1>2. CASE Next
  BY <1>2 DEF Next, GenerateCandidateClaims, GenerateRetrievalQueries, AssessEvidence,
       PromoteCandidates, AggregatePaperEvidence, AssessClaim, ValidateFinalClaim,
       GeneratePropositions, AuditProposition, RenderProse, AuditRenderedSentence
<1> QED
  BY <1>1, <1>2

-------------------------------------------------------------------------------
(* Evidence                                                                  *)

\* The spans that a promotion appends, one for each candidate of its query.
Promoted(q, decided) ==
    [i \in DOMAIN Hits[q] |->
        [query |-> q, source |-> Hits[q][i],
         status |-> decided[i].status, target |-> decided[i].target]]

Span == [query : Query, source : Source, target : 0..MaxSpans,
         status : {"assessed", "duplicate", "redundant"}]

\* A promotion is well typed, leaves the old spans in their places and says of
\* each new one what was decided.
LEMMA Promotion ==
    ASSUME TypeOK, NEW q \in Query, NEW decided \in [DOMAIN Hits[q] -> Decisions],
           Len(spans) + Len(Hits[q]) <= MaxSpans, PromoteCandidates(q, decided)
    PROVE  /\ spans' \in Seq(Span) /\ Len(spans') <= MaxSpans
           /\ Len(spans') = Len(spans) + Len(Hits[q])
           /\ \A i \in 1..Len(spans) : spans'[i] = spans[i]
           /\ \A i \in 1..Len(Hits[q]) :
                  LET new == spans'[Len(spans) + i]
                  IN /\ new.query = q /\ new.source = Hits[q][i]
                     /\ new.status = decided[i].status /\ new.target = decided[i].target
<1>1. spans \in Seq(Span) /\ Len(spans) \in Nat /\ Hits[q] \in Seq(Source)
  BY HitsAssumption DEF TypeOK, Span
<1>2. DOMAIN Hits[q] = 1..Len(Hits[q]) /\ Len(Hits[q]) \in Nat
  BY <1>1
<1>3. ASSUME NEW i \in DOMAIN Hits[q]
      PROVE  Promoted(q, decided)[i] \in Span
  <2>1. Hits[q][i] \in Source
    BY <1>1, <1>2
  <2>2. decided[i] \in Decisions
    OBVIOUS
  <2>3. decided[i].target \in 0..MaxSpans
    BY <1>1, <1>2, <2>2, RecordAssumption DEF Decisions
  <2> QED
    BY <2>1, <2>2, <2>3 DEF Promoted, Span, Decisions
<1>4. Promoted(q, decided) \in Seq(Span) /\ Len(Promoted(q, decided)) = Len(Hits[q])
  <2>1. DOMAIN Promoted(q, decided) = 1..Len(Hits[q])
    BY <1>2 DEF Promoted
  <2>2. Promoted(q, decided) \in [1..Len(Hits[q]) -> Span]
    BY <1>2, <1>3, <2>1 DEF Promoted
  <2> QED
    BY <1>2, <2>2
<1>5. spans' = spans \o Promoted(q, decided)
  BY DEF PromoteCandidates, Promoted
<1>6. /\ spans' \in Seq(Span) /\ Len(spans') = Len(spans) + Len(Hits[q])
      /\ \A i \in 1..Len(spans) : spans'[i] = spans[i]
      /\ \A i \in 1..Len(Hits[q]) :
             spans'[Len(spans) + i] = Promoted(q, decided)[i]
  <2>1. \A i \in 1..(Len(spans) + Len(Hits[q])) :
            spans'[i] = IF i <= Len(spans) THEN spans[i]
                        ELSE Promoted(q, decided)[i - Len(spans)]
    BY <1>1, <1>4, <1>5, ConcatProperties
  <2>2. ASSUME NEW i \in 1..Len(Hits[q])
        PROVE  spans'[Len(spans) + i] = Promoted(q, decided)[i]
    <3>1. /\ Len(spans) + i \in 1..(Len(spans) + Len(Hits[q]))
          /\ ~(Len(spans) + i <= Len(spans)) /\ (Len(spans) + i) - Len(spans) = i
      BY <1>1, <1>2
    <3> QED
      BY <2>1, <3>1
  <2>3. /\ spans \o Promoted(q, decided) \in Seq(Span)
        /\ Len(spans \o Promoted(q, decided))
              = Len(spans) + Len(Promoted(q, decided))
    <3>1. ASSUME NEW S, NEW s \in Seq(S), NEW t \in Seq(S)
          PROVE  s \o t \in Seq(S) /\ Len(s \o t) = Len(s) + Len(t)
      BY ConcatProperties
    <3> QED
      BY <1>1, <1>4, <3>1, Zenon
  <2> QED
    BY <1>1, <1>2, <1>4, <1>5, <2>1, <2>2, <2>3
<1>7. ASSUME NEW i \in 1..Len(Hits[q])
      PROVE  LET new == spans'[Len(spans) + i]
             IN /\ new.query = q /\ new.source = Hits[q][i]
                /\ new.status = decided[i].status /\ new.target = decided[i].target
  <2>1. Promoted(q, decided)[i] = [query |-> q, source |-> Hits[q][i],
                                   status |-> decided[i].status,
                                   target |-> decided[i].target]
    BY <1>2 DEF Promoted
  <2> QED
    BY <1>6, <2>1
<1> QED
  BY <1>1, <1>2, <1>6, <1>7

\* Evidence is a set of numbers of spans.
LEMMA EvidenceType ==
    ASSUME TypeOK, NEW c \in Claim, NEW p \in Paper
    PROVE  Evidence(c, p) \in SUBSET (1..MaxSpans)
  BY RecordAssumption DEF TypeOK, Evidence

\* Evidence is never lost, and it is only added to a claim from which nothing
\* has been made yet.
LEMMA EvidenceGrows ==
    ASSUME TypeOK, [Next]_vars, NEW c \in Claim, NEW p \in Paper
    PROVE  \/ Evidence(c, p)' = Evidence(c, p)
           \/ OpenToEvidence(c)
<1>1. CASE UNCHANGED spans
  BY <1>1 DEF Evidence
<1>2. ASSUME NEW q \in Query, AssessEvidence(q)
      PROVE  Evidence(c, p)' = Evidence(c, p) \/ OpenToEvidence(c)
  <2>1. PICK decided \in [DOMAIN Hits[q] -> Decisions] : PromoteCandidates(q, decided)
    BY <1>2 DEF AssessEvidence
  <2> DEFINE n == Len(spans)
  <2>2. n \in Nat /\ DOMAIN spans = 1..n /\ Len(Hits[q]) \in Nat
        /\ DOMAIN Hits[q] = 1..Len(Hits[q])
    BY HitsAssumption DEF TypeOK
  <2>3. /\ DOMAIN spans' = 1..(n + Len(Hits[q]))
        /\ \A i \in 1..n : spans'[i] = spans[i]
        /\ \A i \in 1..Len(Hits[q]) :
               /\ spans'[n + i].query = q
               /\ spans'[n + i].status = decided[i].status
    <3>1. Len(spans) + Len(Hits[q]) <= MaxSpans
      BY <1>2 DEF AssessEvidence
    <3>2. /\ spans' \in Seq(Span) /\ Len(spans') = n + Len(Hits[q])
          /\ \A i \in 1..n : spans'[i] = spans[i]
      BY <2>1, <3>1, Promotion
    <3>3. \A i \in 1..Len(Hits[q]) : /\ spans'[n + i].query = q
                                     /\ spans'[n + i].status = decided[i].status
      BY <2>1, <3>1, Promotion
    <3> QED
      BY <2>2, <3>2, <3>3
  <2>4. CASE OpenToEvidence(ClaimOf[q]) /\ c = ClaimOf[q]
    BY <2>4
  <2>5. CASE ~OpenToEvidence(ClaimOf[q]) \/ c # ClaimOf[q]
    <3>1. ASSUME NEW i \in (DOMAIN spans') \ (DOMAIN spans)
          PROVE  i \notin Evidence(c, p)'
      <4>1. PICK k \in 1..Len(Hits[q]) : i = n + k
        <5>1. i - n \in 1..Len(Hits[q]) /\ i = n + (i - n)
          BY <2>2, <2>3, <3>1
        <5> QED
          BY <5>1
      <4>2. spans'[i].query = q /\ spans'[i].status = decided[k].status
        BY <2>3, <4>1
      <4>3. decided[k].status = "assessed" => OpenToEvidence(ClaimOf[q])
        BY <2>1, <2>2, <4>1 DEF PromoteCandidates
      <4> QED
        BY <2>5, <4>2, <4>3 DEF Evidence
    <3>2. \A i \in DOMAIN spans : i \in Evidence(c, p)' <=> i \in Evidence(c, p)
      BY <2>2, <2>3 DEF Evidence
    <3>3. Evidence(c, p) \subseteq DOMAIN spans /\ Evidence(c, p)' \subseteq DOMAIN spans'
      BY DEF Evidence
    <3> QED
      BY <3>1, <3>2, <3>3
  <2> QED
    BY <2>4, <2>5
<1> QED
  BY <1>1, <1>2, WhoWrites

-------------------------------------------------------------------------------
(* The shape of the record                                                   *)

LEMMA TypeInit == Init => TypeOK /\ ItemsCiteTheirDraft
<1> SUFFICES ASSUME Init PROVE TypeOK /\ ItemsCiteTheirDraft
  OBVIOUS
<1>1. spans \in Seq(Span) /\ Len(spans) <= MaxSpans
  BY RecordAssumption DEF Init
<1>2. cpe \in [Claim -> [Paper -> SUBSET (1..MaxSpans)]]
  BY DEF Init
<1>3. assessment \in [Claim -> Assessment]
  BY DEF Init, NoAssessment, Assessment
<1>4. packet \in [Claim -> Packet]
  BY DEF Init, NoPacket, Packet
<1> QED
  BY <1>1, <1>2, <1>3, <1>4 DEF Init, TypeOK, Span, ItemsCiteTheirDraft, NoFinal

LEMMA TypeStep == TypeOK /\ ItemsCiteTheirDraft /\ [Next]_vars
                      => TypeOK' /\ ItemsCiteTheirDraft'
<1> SUFFICES ASSUME TypeOK, ItemsCiteTheirDraft, [Next]_vars
             PROVE  TypeOK' /\ ItemsCiteTheirDraft'
  OBVIOUS
<1>1. claims' \subseteq Claim
  BY WhoWrites DEF TypeOK, GenerateCandidateClaims
<1>2. queries' \subseteq Query
  BY WhoWrites DEF TypeOK, GenerateRetrievalQueries
<1>3. spans' \in Seq(Span) /\ Len(spans)' <= MaxSpans
  <2>1. CASE UNCHANGED spans
    BY <2>1 DEF TypeOK, Span
  <2>2. ASSUME NEW q \in Query, AssessEvidence(q)
        PROVE  spans' \in Seq(Span) /\ Len(spans)' <= MaxSpans
    BY <2>2, Promotion DEF AssessEvidence
  <2> QED
    BY <2>1, <2>2, WhoWrites
<1>4. cpe' \in [Claim -> [Paper -> SUBSET (1..MaxSpans)]]
  <2>1. ASSUME NEW c \in Claim, NEW p \in Paper, AggregatePaperEvidence(c, p)
        PROVE  cpe' \in [Claim -> [Paper -> SUBSET (1..MaxSpans)]]
    BY <2>1, EvidenceType DEF AggregatePaperEvidence, TypeOK
  <2> QED
    BY <2>1, WhoWrites DEF TypeOK
<1>5. assessment' \in [Claim -> Assessment]
  <2>1. ASSUME NEW c \in Claim, NEW decision \in ClaimDecision, AssessClaim(c, decision)
        PROVE  assessment' \in [Claim -> Assessment]
    <3>1. [decision |-> decision, basis |-> cpe[c]] \in Assessment
      BY DEF TypeOK, Assessment
    <3> QED
      BY <2>1, <3>1 DEF AssessClaim, TypeOK
  <2> QED
    BY <2>1, WhoWrites DEF TypeOK
<1>6. /\ final' \in [Claim -> [status : {"none", "valid", "invalid"},
                               text : ClaimText \cup {NoText}]]
      /\ packet' \in [Claim -> Packet]
  <2>1. ASSUME NEW c \in Claim, NEW text \in ClaimText, NEW status \in {"valid", "invalid"},
               ValidateFinalClaim(c, text, status)
        PROVE  <1>6!:
    <3>1. [text |-> text, papers |-> AggregatedPapers(c)] \in Packet /\ NoPacket \in Packet
      BY DEF Packet, AggregatedPapers, NoPacket
    <3>2. final' \in [Claim -> [status : {"none", "valid", "invalid"},
                                text : ClaimText \cup {NoText}]]
      BY <2>1 DEF ValidateFinalClaim, TypeOK
    <3>3. packet' \in [Claim -> Packet]
      BY <2>1, <3>1 DEF ValidateFinalClaim, TypeOK
    <3> QED
      BY <3>2, <3>3
  <2> QED
    BY <2>1, WhoWrites DEF TypeOK
<1>7. \A d \in propositionDrafts' :
          /\ d.sources \subseteq Claim /\ d.items \subseteq PropositionItem
          /\ \A item \in d.items : item.claims \subseteq d.sources
  <2>1. ASSUME NEW S \in SUBSET Claim, GeneratePropositions(S)
        PROVE  <1>7!:
    <3>1. PICK items \in SUBSET PropositionItems(S) :
              propositionDrafts' = propositionDrafts \cup
                  {[sources |-> S, deps |-> SourcesOf(S), items |-> items]}
      BY <2>1 DEF GeneratePropositions
    <3>2. \A item \in items : item \in PropositionItem /\ item.claims \subseteq S
      BY DEF PropositionItems, PropositionItem
    <3> QED
      BY <3>1, <3>2 DEF TypeOK, ItemsCiteTheirDraft
  <2> QED
    BY <2>1, WhoWrites DEF TypeOK, ItemsCiteTheirDraft
<1>8. \A r \in propositions' :
          r.claims \subseteq Claim /\ r.text \in ItemText /\ r.verdict \in Verdict
  <2>1. ASSUME NEW d \in propositionDrafts, NEW item \in d.items,
               NEW verdict \in {"pass", "fail"}, AuditProposition(d, item, verdict)
        PROVE  <1>8!:
    <3>1. item.claims \subseteq Claim /\ item.text \in ItemText
      BY DEF TypeOK, PropositionItem
    <3> QED
      BY <2>1, <3>1 DEF AuditProposition, TypeOK, Verdict
  <2> QED
    BY <2>1, WhoWrites DEF TypeOK
<1>9. \A d \in sentenceDrafts' :
          \A item \in d.items : item.sources \subseteq d.sources /\ item.text \in ItemText
  <2>1. ASSUME NEW S \in SUBSET Passing, RenderProse(S)
        PROVE  <1>9!:
    <3>1. PICK items \in SUBSET SentenceItems(S) :
              sentenceDrafts' = sentenceDrafts \cup {[sources |-> S, items |-> items]}
      BY <2>1 DEF RenderProse
    <3>2. \A item \in items : item.sources \subseteq S /\ item.text \in ItemText
      BY DEF SentenceItems
    <3> QED
      BY <3>1, <3>2 DEF TypeOK
  <2> QED
    BY <2>1, WhoWrites DEF TypeOK
<1>10. \A a \in sentenceAudits' : a.text \in ItemText /\ a.verdict \in Verdict
  <2>1. ASSUME NEW d \in sentenceDrafts, NEW item \in d.items,
               NEW verdict \in {"pass", "fail"}, AuditRenderedSentence(d, item, verdict)
        PROVE  <1>10!:
    BY <2>1 DEF AuditRenderedSentence, TypeOK, Verdict
  <2> QED
    BY <2>1, WhoWrites DEF TypeOK
<1>11. TypeOK'
  BY <1>1, <1>2, <1>3, <1>4, <1>5, <1>6, <1>7, <1>8, <1>9, <1>10 DEF TypeOK, Span
<1> QED
  BY <1>7, <1>11 DEF ItemsCiteTheirDraft

-------------------------------------------------------------------------------
(* Judgements                                                                *)

\* A claim is judged on all its evidence, and the judgement is not left behind:
\* evidence is closed once a claim has an aggregate, an aggregate once the claim
\* is assessed.
LEMMA AssessmentsStep == TypeOK /\ AssessmentsRestOnTheRecord /\ [Next]_vars
                             => AssessmentsRestOnTheRecord'
<1> SUFFICES ASSUME TypeOK, AssessmentsRestOnTheRecord, [Next]_vars, NEW c \in Claim
             PROVE  /\ Assessed(c)' => assessment'[c].basis = cpe'[c]
                    /\ \A p \in AggregatedPapers(c)' : cpe'[c][p] = Evidence(c, p)'
  BY DEF AssessmentsRestOnTheRecord
<1>1. Assessed(c)' => assessment'[c].basis = cpe'[c]
  <2>1. CASE UNCHANGED <<assessment, cpe>>
    BY <2>1 DEF AssessmentsRestOnTheRecord, Assessed
  <2>2. ASSUME NEW a \in Claim, NEW p \in Paper, AggregatePaperEvidence(a, p)
        PROVE  Assessed(c)' => assessment'[c].basis = cpe'[c]
    <3>1. Assessed(a) => cpe' = cpe
      BY <2>2 DEF AggregatePaperEvidence, TypeOK
    <3>2. a # c => cpe'[c] = cpe[c]
      BY <2>2 DEF AggregatePaperEvidence, TypeOK
    <3>3. UNCHANGED assessment
      BY <2>2 DEF AggregatePaperEvidence, judgementVars
    <3> QED
      BY <3>1, <3>2, <3>3 DEF AssessmentsRestOnTheRecord, Assessed
  <2>3. ASSUME NEW a \in Claim, NEW decision \in ClaimDecision, AssessClaim(a, decision)
        PROVE  Assessed(c)' => assessment'[c].basis = cpe'[c]
    <3>1. cpe' = cpe
      BY <2>3 DEF AssessClaim, evidenceVars
    <3>2. assessment'[c] = IF a = c THEN [decision |-> decision, basis |-> cpe[c]]
                           ELSE assessment[c]
      BY <2>3 DEF AssessClaim, TypeOK
    <3> QED
      BY <3>1, <3>2 DEF AssessmentsRestOnTheRecord, Assessed
  <2> QED
    BY <2>1, <2>2, <2>3, WhoWrites
<1>2. ASSUME NEW p \in AggregatedPapers(c)'
      PROVE  cpe'[c][p] = Evidence(c, p)'
  <2>1. p \in Paper
    BY DEF AggregatedPapers
  <2>2. CASE UNCHANGED cpe
    <3>1. p \in AggregatedPapers(c) /\ ~OpenToEvidence(c)
      BY <2>2 DEF AggregatedPapers, OpenToEvidence
    <3> QED
      BY <2>1, <2>2, <3>1, EvidenceGrows DEF AssessmentsRestOnTheRecord
  <2>3. ASSUME NEW a \in Claim, NEW o \in Paper, AggregatePaperEvidence(a, o)
        PROVE  cpe'[c][p] = Evidence(c, p)'
    <3>1. Evidence(c, p)' = Evidence(c, p)
      BY <2>3 DEF AggregatePaperEvidence, Evidence
    <3>2. CASE a = c /\ o = p
      BY <2>3, <3>1, <3>2 DEF AggregatePaperEvidence, TypeOK
    <3>3. CASE ~(a = c /\ o = p)
      <4>1. cpe'[c][p] = cpe[c][p]
        BY <2>1, <2>3, <3>3 DEF AggregatePaperEvidence, TypeOK
      <4>2. p \in AggregatedPapers(c)
        BY <2>1, <4>1 DEF AggregatedPapers
      <4> QED
        BY <3>1, <4>1, <4>2 DEF AssessmentsRestOnTheRecord
    <3> QED
      BY <3>2, <3>3
  <2> QED
    BY <2>2, <2>3, WhoWrites
<1> QED
  BY <1>1, <1>2

\* Aggregates stay, and a claim is published with at least one.
LEMMA PublishedStep == TypeOK /\ PublishedHavePapers /\ [Next]_vars => PublishedHavePapers'
<1> SUFFICES ASSUME TypeOK, PublishedHavePapers, [Next]_vars,
                    NEW c \in Claim, Published(c)'
             PROVE  AggregatedPapers(c)' # {}
  BY DEF PublishedHavePapers
<1>1. AggregatedPapers(c) \subseteq AggregatedPapers(c)'
  <2>1. ASSUME NEW a \in Claim, NEW p \in Paper, AggregatePaperEvidence(a, p)
        PROVE  AggregatedPapers(c) \subseteq AggregatedPapers(c)'
    BY <2>1 DEF AggregatePaperEvidence, AggregatedPapers, TypeOK
  <2> QED
    BY <2>1, WhoWrites DEF AggregatedPapers
<1>2. CASE UNCHANGED packet
  BY <1>1, <1>2 DEF PublishedHavePapers, Published
<1>3. ASSUME NEW a \in Claim, NEW text \in ClaimText, NEW status \in {"valid", "invalid"},
             ValidateFinalClaim(a, text, status)
      PROVE  AggregatedPapers(c) # {}
  <2>1. CASE a = c
    <3>1. status = "valid"
      BY <1>3, <2>1 DEF ValidateFinalClaim, Published, TypeOK, Packet, NoPacket
    <3> QED
      BY <1>3, <2>1, <3>1 DEF ValidateFinalClaim
  <2>2. CASE a # c
    BY <1>3, <2>2 DEF ValidateFinalClaim, Published, PublishedHavePapers, TypeOK
  <2> QED
    BY <2>1, <2>2
<1> QED
  BY <1>1, <1>2, <1>3, WhoWrites

-------------------------------------------------------------------------------
(* Propositions and audits                                                   *)

\* The item that is audited now was not audited before, and no other is.
LEMMA AuditsStep == AuditsAreFinal /\ [Next]_vars => AuditsAreFinal'
<1> SUFFICES ASSUME AuditsAreFinal, [Next]_vars PROVE AuditsAreFinal'
  OBVIOUS
<1>1. ASSUME NEW r1 \in propositions', NEW r2 \in propositions',
             r1.claims = r2.claims, r1.text = r2.text, r1.deps = r2.deps
      PROVE  r1 = r2
  <2>1. CASE UNCHANGED propositions
    BY <1>1, <2>1 DEF AuditsAreFinal
  <2>2. ASSUME NEW d, NEW item, NEW verdict, AuditProposition(d, item, verdict)
        PROVE  r1 = r2
    <3> DEFINE new == [claims |-> item.claims, text |-> item.text, verdict |-> verdict,
                       deps |-> Projected(d.deps, item.claims)]
    <3>1. propositions' = propositions \cup {new}
      BY <2>2 DEF AuditProposition
    <3>2. ~ \E r \in propositions :
              r.claims = new.claims /\ r.text = new.text /\ r.deps = new.deps
      BY <2>2 DEF AuditProposition, AuditedProposition
    <3> QED
      BY <1>1, <3>1, <3>2 DEF AuditsAreFinal
  <2> QED
    BY <2>1, <2>2, WhoWrites
<1>2. ASSUME NEW a1 \in sentenceAudits', NEW a2 \in sentenceAudits',
             a1.sources = a2.sources, a1.text = a2.text
      PROVE  a1 = a2
  <2>1. CASE UNCHANGED sentenceAudits
    BY <1>2, <2>1 DEF AuditsAreFinal
  <2>2. ASSUME NEW d, NEW item, NEW verdict, AuditRenderedSentence(d, item, verdict)
        PROVE  a1 = a2
    <3> DEFINE new == [sources |-> item.sources, text |-> item.text, verdict |-> verdict]
    <3>1. sentenceAudits' = sentenceAudits \cup {new}
      BY <2>2 DEF AuditRenderedSentence
    <3>2. ~ \E a \in sentenceAudits : a.sources = new.sources /\ a.text = new.text
      BY <2>2 DEF AuditRenderedSentence, AuditedSentence
    <3> QED
      BY <1>2, <3>1, <3>2 DEF AuditsAreFinal
  <2> QED
    BY <2>1, <2>2, WhoWrites
<1> QED
  BY <1>1, <1>2 DEF AuditsAreFinal

\* The packet and the assessment of a cited claim do not change any more: its
\* assessment can only be made again from the same aggregates with the same
\* decision, its validation with the same verdict and wording.
LEMMA CitedClaimsStand ==
    ASSUME TypeOK, ValidRecord, AssessmentsRestOnTheRecord, [Next]_vars,
           NEW c \in Claim, Cited(c)
    PROVE  packet'[c] = packet[c] /\ assessment'[c] = assessment[c]
<1>1. /\ Published(c) /\ Assessed(c)
      /\ final[c].status = "valid" /\ final[c].text = packet[c].text
      /\ packet[c].papers = AggregatedPapers(c)
  BY DEF ValidRecord, ValidPropositions, ValidClaims
<1>2. assessment'[c] = assessment[c]
  <2>1. ASSUME NEW a \in Claim, NEW decision \in ClaimDecision, AssessClaim(a, decision)
        PROVE  assessment'[c] = assessment[c]
    <3>1. CASE a = c
      <4>1. assessment[c].decision = decision
        BY <2>1, <3>1 DEF AssessClaim
      <4>2. assessment[c].basis = cpe[c]
        BY <1>1 DEF AssessmentsRestOnTheRecord
      <4>3. assessment[c] = [decision |-> decision, basis |-> cpe[c]]
        BY <4>1, <4>2 DEF TypeOK, Assessment
      <4> QED
        BY <2>1, <3>1, <4>3 DEF AssessClaim, TypeOK
    <3>2. CASE a # c
      BY <2>1, <3>2 DEF AssessClaim, TypeOK
    <3> QED
      BY <3>1, <3>2
  <2> QED
    BY <2>1, WhoWrites
<1>3. packet'[c] = packet[c]
  <2>1. ASSUME NEW a \in Claim, NEW text \in ClaimText, NEW status \in {"valid", "invalid"},
               ValidateFinalClaim(a, text, status)
        PROVE  packet'[c] = packet[c]
    <3>1. CASE a = c
      <4>1. final[c] = [status |-> status, text |-> text]
        BY <2>1, <3>1 DEF ValidateFinalClaim
      <4>2. status = "valid" /\ packet[c].text = text
        BY <1>1, <4>1
      <4>3. packet[c] = [text |-> text, papers |-> AggregatedPapers(c)]
        BY <1>1, <4>2 DEF TypeOK, Packet
      <4> QED
        BY <2>1, <3>1, <4>2, <4>3 DEF ValidateFinalClaim, TypeOK
    <3>2. CASE a # c
      BY <2>1, <3>2 DEF ValidateFinalClaim, TypeOK
    <3> QED
      BY <3>1, <3>2
  <2> QED
    BY <2>1, WhoWrites
<1> QED
  BY <1>2, <1>3

\* A new proposition depends on what its claims are now.
LEMMA PropositionsStep ==
    /\ TypeOK /\ ItemsCiteTheirDraft /\ ValidRecord /\ AssessmentsRestOnTheRecord
    /\ PropositionsStandOnTheirSources /\ [Next]_vars
    => PropositionsStandOnTheirSources'
<1> SUFFICES ASSUME TypeOK, ItemsCiteTheirDraft, ValidRecord, AssessmentsRestOnTheRecord,
                    PropositionsStandOnTheirSources, [Next]_vars,
                    NEW r \in propositions'
             PROVE  r.deps = SourcesOf(r.claims)'
  BY DEF PropositionsStandOnTheirSources, SourcesOf
<1>1. CASE r \in propositions
  <2>1. r.deps = SourcesOf(r.claims)
    BY <1>1 DEF PropositionsStandOnTheirSources
  <2>2. \A c \in r.claims : packet'[c] = packet[c] /\ assessment'[c] = assessment[c]
    BY <1>1, CitedClaimsStand DEF TypeOK, Cited
  <2> QED
    BY <2>1, <2>2 DEF SourcesOf
<1>2. CASE r \notin propositions
  <2>1. PICK d \in propositionDrafts : \E item \in d.items, verdict \in {"pass", "fail"} :
            AuditProposition(d, item, verdict)
    BY <1>2, WhoWrites
  <2>2. PICK item \in d.items, verdict \in {"pass", "fail"} :
            AuditProposition(d, item, verdict)
    BY <2>1
  <2>3. /\ r.claims = item.claims /\ r.deps = Projected(d.deps, item.claims)
        /\ d.deps = SourcesOf(d.sources)
    BY <1>2, <2>2 DEF AuditProposition
  <2>4. r.claims \subseteq d.sources
    BY <2>3 DEF ItemsCiteTheirDraft
  <2>5. UNCHANGED <<packet, assessment>>
    BY <2>2 DEF AuditProposition, judgementVars
  <2> QED
    BY <2>3, <2>4, <2>5 DEF SourcesOf, Projected
<1> QED
  BY <1>1, <1>2

-------------------------------------------------------------------------------
(* Sources                                                                   *)

\* The decisions on a query's candidates are made on one snapshot, and the
\* candidates are different sources: none of them can speak twice.
LEMMA SourcesStep == TypeOK /\ SourcesSpeakOnce /\ [Next]_vars => SourcesSpeakOnce'
<1> SUFFICES ASSUME TypeOK, SourcesSpeakOnce, [Next]_vars PROVE SourcesSpeakOnce'
  OBVIOUS
<1>1. CASE UNCHANGED spans
  BY <1>1 DEF SourcesSpeakOnce
<1>2. ASSUME NEW q \in Query, AssessEvidence(q)
      PROVE  SourcesSpeakOnce'
  <2>1. PICK decided \in [DOMAIN Hits[q] -> Decisions] : PromoteCandidates(q, decided)
    BY <1>2 DEF AssessEvidence
  <2> DEFINE n == Len(spans)
             m == Len(Hits[q])
  <2>2. n \in Nat /\ DOMAIN spans = 1..n /\ m \in Nat /\ DOMAIN Hits[q] = 1..m
    BY HitsAssumption DEF TypeOK
  <2>3. n + m <= MaxSpans
    BY <1>2 DEF AssessEvidence
  <2>4. /\ DOMAIN spans' = 1..(n + m)
        /\ \A i \in 1..n : spans'[i] = spans[i]
    BY <2>1, <2>2, <2>3, Promotion
  <2>5. \A k \in 1..m : /\ spans'[n + k].source = Hits[q][k]
                        /\ spans'[n + k].status = decided[k].status
    BY <2>1, <2>3, Promotion
  <2>6. \A k \in 1..m : Decidable(Hits[q][k], decided[k])
    BY <2>1, <2>2 DEF PromoteCandidates
  <2>7. ASSUME NEW i \in 1..n
        PROVE  IF spans'[i].status = "duplicate"
               THEN \E j \in 1..(i - 1) : /\ spans'[j].source = spans'[i].source
                                          /\ spans'[j].status # "duplicate"
               ELSE \A j \in 1..(i - 1) : spans'[j].source # spans'[i].source
    <3>1. \A j \in 1..(i - 1) : j \in 1..n /\ spans'[j] = spans[j]
      BY <2>2, <2>4
    <3>2. IF spans[i].status = "duplicate"
          THEN \E j \in 1..(i - 1) : /\ spans[j].source = spans[i].source
                                     /\ spans[j].status # "duplicate"
          ELSE \A j \in 1..(i - 1) : spans[j].source # spans[i].source
      BY <2>2 DEF SourcesSpeakOnce
    <3> QED
      BY <2>4, <3>1, <3>2
  <2>8. ASSUME NEW k \in 1..m, decided[k].status = "duplicate"
        PROVE  \E j \in 1..n : /\ spans[j].source = Hits[q][k]
                               /\ spans[j].status # "duplicate"
    <3>1. PICK j \in 1..n : spans[j].source = Hits[q][k]
      BY <2>2, <2>6, <2>8 DEF Decidable, Canonicalized
    <3>2. CASE spans[j].status # "duplicate"
      BY <3>1, <3>2
    <3>3. CASE spans[j].status = "duplicate"
      <4>1. PICK l \in 1..(j - 1) : /\ spans[l].source = spans[j].source
                                    /\ spans[l].status # "duplicate"
        BY <2>2, <3>3 DEF SourcesSpeakOnce
      <4> QED
        BY <2>2, <3>1, <4>1
    <3> QED
      BY <3>2, <3>3
  <2>9. ASSUME NEW k \in 1..m, decided[k].status # "duplicate",
               NEW j \in 1..(n + k - 1)
        PROVE  spans'[j].source # Hits[q][k]
    <3>1. CASE j \in 1..n
      BY <2>2, <2>4, <2>6, <2>9, <3>1 DEF Decidable, Canonicalized
    <3>2. CASE j \notin 1..n
      <4>1. j - n \in 1..m /\ j - n # k /\ j = n + (j - n)
        BY <2>2, <3>2
      <4>2. Hits[q][j - n] # Hits[q][k]
        BY <2>2, <4>1, HitsAssumption
      <4> QED
        BY <2>5, <4>1, <4>2
    <3> QED
      BY <3>1, <3>2
  <2>10. ASSUME NEW k \in 1..m
         PROVE  LET i == n + k
                IN IF spans'[i].status = "duplicate"
                   THEN \E j \in 1..(i - 1) : /\ spans'[j].source = spans'[i].source
                                              /\ spans'[j].status # "duplicate"
                   ELSE \A j \in 1..(i - 1) : spans'[j].source # spans'[i].source
    <3>1. CASE decided[k].status = "duplicate"
      <4>1. PICK j \in 1..n : spans[j].source = Hits[q][k] /\ spans[j].status # "duplicate"
        BY <2>8, <3>1
      <4>2. j \in 1..(n + k - 1) /\ spans'[j] = spans[j]
        BY <2>2, <2>4
      <4> QED
        BY <2>5, <3>1, <4>1, <4>2
    <3>2. CASE decided[k].status # "duplicate"
      BY <2>5, <2>9, <3>2
    <3> QED
      BY <3>1, <3>2
  <2>11. ASSUME NEW i \in 1..(n + m), i \notin 1..n
         PROVE  \E k \in 1..m : i = n + k
    <3>1. i - n \in 1..m /\ i = n + (i - n)
      BY <2>2, <2>11
    <3> QED
      BY <3>1
  <2>12. ASSUME NEW i \in DOMAIN spans'
         PROVE  IF spans'[i].status = "duplicate"
                THEN \E j \in 1..(i - 1) : /\ spans'[j].source = spans'[i].source
                                           /\ spans'[j].status # "duplicate"
                ELSE \A j \in 1..(i - 1) : spans'[j].source # spans'[i].source
    <3>1. CASE i \in 1..n
      BY <2>7, <3>1
    <3>2. CASE i \notin 1..n
      <4>1. PICK k \in 1..m : i = n + k
        BY <2>4, <2>11, <3>2
      <4> QED
        BY <2>10, <4>1
    <3> QED
      BY <3>1, <3>2
  <2> QED
    BY <2>12 DEF SourcesSpeakOnce
<1> QED
  BY <1>1, <1>2, WhoWrites

-------------------------------------------------------------------------------
(* The record as a whole                                                     *)

\* Following a sentence down: its propositions have passed, their claims are
\* published, and a published claim's aggregates are all of its evidence.
LEMMA SentencesFollow ==
    TypeOK /\ ValidRecord /\ PublishedHavePapers => SentencesTraceToEvidence
<1> SUFFICES ASSUME TypeOK, ValidRecord, PublishedHavePapers,
                    NEW a \in Sentences, NEW r \in a.sources
             PROVE  /\ r \in Passing
                    /\ \A c \in r.claims :
                           /\ Published(c) /\ Assessed(c)
                           /\ assessment[c].decision # "reject"
                           /\ packet[c].papers # {}
                           /\ packet[c].papers = {p \in Paper : Evidence(c, p) # {}}
                           /\ \A p \in Paper : cpe[c][p] = Evidence(c, p)
  BY DEF SentencesTraceToEvidence
<1>1. r \in Passing /\ r \in propositions
  BY DEF ValidRecord, ValidSentences, Passing
<1>2. ASSUME NEW c \in r.claims
      PROVE  c \in Claim /\ Published(c)
  BY <1>1 DEF TypeOK, ValidRecord, ValidPropositions, Cited
<1>3. ASSUME NEW c \in r.claims
      PROVE  /\ Assessed(c) /\ assessment[c].decision # "reject"
             /\ packet[c].papers = AggregatedPapers(c) /\ AggregatedPapers(c) # {}
  BY <1>2 DEF ValidRecord, ValidClaims, PublishedHavePapers
<1>4. ASSUME NEW c \in r.claims, NEW p \in Paper
      PROVE  cpe[c][p] = Evidence(c, p)
  BY <1>2 DEF ValidRecord, ValidAggregates, PacketsAreClosed
<1> QED
  BY <1>1, <1>2, <1>3, <1>4 DEF AggregatedPapers

LEMMA RecordInit == Init => IInv
<1> SUFFICES ASSUME Init PROVE IInv
  OBVIOUS
<1>1. TypeOK /\ ItemsCiteTheirDraft
  BY TypeInit
<1>2. \A c \in Claim : ~Published(c) /\ ~Assessed(c) /\ ~Cited(c) /\ AggregatedPapers(c) = {}
  BY DEF Init, Published, Assessed, Cited, AggregatedPapers, NoAssessment
<1>3. \A c \in Claim, p \in Paper : cpe[c][p] = {} /\ Evidence(c, p) = {}
  BY DEF Init, Evidence
<1>4. ValidRecord
  BY <1>2, <1>3 DEF Init, ValidRecord, ValidSpans, ValidAggregates, ValidClaims,
     PacketsAreClosed, ValidPropositions, ValidSentences, Sentences
<1>5. AssessmentsRestOnTheRecord /\ PublishedHavePapers
  BY <1>2 DEF AssessmentsRestOnTheRecord, PublishedHavePapers
<1>6. AuditsAreFinal /\ PropositionsStandOnTheirSources /\ SourcesSpeakOnce
  BY DEF Init, AuditsAreFinal, PropositionsStandOnTheirSources, SourcesSpeakOnce
<1> QED
  BY <1>1, <1>4, <1>5, <1>6 DEF IInv

LEMMA RecordStep == IInv /\ [Next]_vars => IInv'
  BY TypeStep, CommitsAreValid, AssessmentsStep, PublishedStep, AuditsStep,
     PropositionsStep, SourcesStep DEF IInv

\* The invariant of the record: no property below is inductive without the
\* types, and a proposition keeps its sources only because every commit leaves a
\* valid record and assessments rest on its aggregates.
THEOREM RecordInvariant == Spec => []IInv
  BY RecordInit, RecordStep, PTL DEF Spec

\* Type correctness of the record.
THEOREM RecordTypes == Spec => []TypeOK
<1>1. IInv => TypeOK
  BY DEF IInv
<1> QED
  BY <1>1, RecordInvariant, PTL

\* A claim is judged on all the evidence the record holds for it.
THEOREM AssessmentsRest == Spec => []AssessmentsRestOnTheRecord
<1>1. IInv => AssessmentsRestOnTheRecord
  BY DEF IInv
<1> QED
  BY <1>1, RecordInvariant, PTL

\* No item is audited a second time, in whatever draft it comes back.
THEOREM AuditsFinal == Spec => []AuditsAreFinal
<1>1. IInv => AuditsAreFinal
  BY DEF IInv
<1> QED
  BY <1>1, RecordInvariant, PTL

\* What a proposition was drafted from is what the record still says.
THEOREM PropositionsStand == Spec => []PropositionsStandOnTheirSources
<1>1. IInv => PropositionsStandOnTheirSources
  BY DEF IInv
<1> QED
  BY <1>1, RecordInvariant, PTL

\* Every accepted sentence rests on locked sources, with nothing left out.
THEOREM SentencesTrace == Spec => []SentencesTraceToEvidence
<1>1. IInv => SentencesTraceToEvidence
  BY SentencesFollow DEF IInv
<1> QED
  BY <1>1, RecordInvariant, PTL

\* A source is brought into the record once, and is a duplicate ever after.
THEOREM SourcesOnce == Spec => []SourcesSpeakOnce
<1>1. IInv => SourcesSpeakOnce
  BY DEF IInv
<1> QED
  BY <1>1, RecordInvariant, PTL
================================================================================
