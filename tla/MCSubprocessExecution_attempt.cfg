\* One attempt in the temporary workspace, with every kind of engine.
SPECIFICATION FairSpec
CONSTANTS
    Attempt = {a1}
    Live = {}
    Nobody = Nobody
    Text = {t1, t2}
    NoText = NoText
    ExitCode = {"zero", "nonzero", "signal", "limit", "launcher", "adapter"}
    Damage = {"quota", "bundle", "output"}
    Executable = {x1}
    NoExecutable = NoExecutable
    Qualified = {x1}
    MaxProcesses = 2
    MaxMembers = 2
    MaxLostCounts = 1
    MaxReplacements = 0
INVARIANTS
    ValidProposalsAreFinal
    NothingLeftBehind
PROPERTIES
    EveryAttemptReturns
CHECK_DEADLOCK FALSE
