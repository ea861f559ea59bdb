\* Two controllers share a run of one claim whose two queries find the same
\* source: the engine that assesses evidence is called twice, and any one task
\* may need a second attempt.  With 15 invocations the longest runs meet the
\* budget.  A run ends, so CHECK_DEADLOCK is off.
CONSTANTS
    k1 = k1
    k2 = k2
    c1 = c1
    q1 = q1
    q2 = q2
    s1 = s1
    p1 = p1
    own = own
    revised = revised
    w = w
    NoText = NoText
    Controller = {k1, k2}
    Claim = {c1}
    Query = {q1, q2}
    Source = {s1}
    ClaimOf <- MCClaimOf
    PaperOf <- MCPaperOf
    Hits <- MCHits
    ClaimDecision = {"retain", "modify", "reject"}
    ClaimText = {own, revised}
    OwnText = own
    RevisedText = revised
    ItemText = {w}
    MaxSpans = 2
    MaxPropositionDrafts = 1
    MaxSentenceDrafts = 1
    MaxEvents = 128
    Attempts = 2
    MaxInvocations = 15
    MaxRetries = 1
    MaxLag = 2
SYMMETRY Symmetry
SPECIFICATION PilotSpec
INVARIANTS
    PilotTypeOK
    CallsAreAccounted
    StrayCallsStopTheRun
    ScriptIsConsumedOnce
    ClosedRunsAreComplete
    JournalTellsTheRecord
CHECK_DEADLOCK FALSE
