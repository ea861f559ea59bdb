\* Two runtimes of one version race; a third generation lets a task be repeated.
CONSTANTS
    r1 = r1
    r2 = r2
    assess = assess
    draft = draft
    x = x
    y = y
    c1 = c1
    c2 = c2
    f1 = f1
    f2 = f2
    NoContent = NoContent
    NoTask = NoTask
    NoKey = NoKey
    Nobody = Nobody
    Runner = {r1, r2}
    Version <- OneVersion
    Task = {assess, draft}
    Coupled = {draft}
    RebuildOnStale = {}
    Object = {x, y}
    Content = {c1, c2}
    Deps <- MCDeps
    Writes <- MCWrites
    Sourced = {}
    Source = {f1}
    Engines = 1
    TechnicalAttempts = 1
    MaxStaleRebuilds = 1
    MaxGeneration = 3
    MaxEdits = 0
    MaxVanished = 0
SYMMETRY Symmetry
SPECIFICATION Spec
INVARIANTS
    TypeOK
    CoupledAtMostOnce
    RepeatsOnlyRestore
    FailureCommitsNothing
