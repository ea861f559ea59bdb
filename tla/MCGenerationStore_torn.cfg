\* A recovery that is cut short while it removes an abandoned generation.
CONSTANTS
    p1 = p1
    p2 = p2
    Nobody = Nobody
    Process = {p1, p2}
    MaxGeneration = 1
    MaxOperations = 3
    MaxAborts = 2
    MaxPowerLosses = 0
SYMMETRY Symmetry
SPECIFICATION Spec
INVARIANTS
    RecoveryNeverRefuses
