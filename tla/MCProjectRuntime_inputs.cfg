\* Two runtimes of different versions; the external file is edited.
CONSTANTS
    r1 = r1
    r2 = r2
    assess = assess
    draft = draft
    x = x
    y = y
    c1 = c1
    c2 = c2
    f1 = f1
    f2 = f2
    NoContent = NoContent
    NoTask = NoTask
    NoKey = NoKey
    Nobody = Nobody
    Runner = {r1, r2}
    Version <- TwoVersions
    Task = {assess, draft}
    Coupled = {draft}
    RebuildOnStale = {}
    Object = {x, y}
    Content = {c1, c2}
    Deps <- MCDeps
    Writes <- MCWrites
    Sourced = {assess}
    Source = {f1, f2}
    Engines = 1
    TechnicalAttempts = 1
    MaxStaleRebuilds = 0
    MaxGeneration = 2
    MaxEdits = 1
    MaxVanished = 0
SPECIFICATION Spec
INVARIANTS
    CommittedOnItsInputs
    ReportedValid
    RecordsAreCommitted
