\* Process deaths and a power loss.
CONSTANTS
    p1 = p1
    p2 = p2
    Nobody = Nobody
    Process = {p1, p2}
    MaxGeneration = 2
    MaxOperations = 4
    MaxAborts = 2
    MaxPowerLosses = 1
SYMMETRY Symmetry
SPECIFICATION Spec
INVARIANTS
    RecoveryLeavesNoDebris
    AcknowledgedSurvives
PROPERTIES
    ImplementsAtomicStore
