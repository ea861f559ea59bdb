\* Two live attempts share a token vault while the sandbox executable changes.
SPECIFICATION Spec
CONSTANTS
    Attempt = {a1, a2}
    Live = {a1, a2}
    Nobody = Nobody
    Text = {t1}
    NoText = NoText
    ExitCode = {"zero", "signal"}
    Damage = {}
    Executable = {qualified, other}
    NoExecutable = NoExecutable
    Qualified = {qualified}
    MaxProcesses = 1
    MaxMembers = 1
    MaxLostCounts = 1
    MaxReplacements = 2
SYMMETRY AttemptSymmetry
INVARIANTS
    LockOutlivesEngine
    LiveLaunchIsQualified
    NothingLeftBehind
CHECK_DEADLOCK FALSE
