\* Two claims whose queries share a source; a claim can be validated in two
\* wordings.  The record is full at the bounds: CHECK_DEADLOCK is off.
CONSTANTS
    c1 = c1
    c2 = c2
    q1 = q1
    q2 = q2
    s1 = s1
    s2 = s2
    s3 = s3
    p1 = p1
    p2 = p2
    t1 = t1
    t2 = t2
    w = w
    Claim = {c1, c2}
    Query = {q1, q2}
    Source = {s1, s2, s3}
    ClaimOf <- MCClaimOf
    PaperOf <- MCPaperOf
    Hits <- MCHits
    ClaimText = {t1, t2}
    ItemText = {w}
    NoText = NoText
    ClaimDecision = {"retain", "reject"}
    MaxSpans = 4
    MaxPropositionDrafts = 2
    MaxSentenceDrafts = 1
SYMMETRY Symmetry
SPECIFICATION Spec
INVARIANTS
    AssessmentsRestOnTheRecord
    AuditsAreFinal
    PropositionsStandOnTheirSources
    SentencesTraceToEvidence
    SourcesSpeakOnce
CHECK_DEADLOCK FALSE
