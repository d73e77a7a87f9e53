SPECIFICATION Spec
CONSTANTS
    MaxWrites = 0
    MaxAttempts = 1
    MaxFaults = 0
    Faults = {}
PROPERTIES RestoreOnlyBeforeCutover
