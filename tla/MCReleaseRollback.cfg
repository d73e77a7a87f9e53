SPECIFICATION Spec
CONSTANTS
    MaxWrites = 1
    MaxAttempts = 2
    MaxFaults = 2
    Faults = {"command", "audit", "kill", "signal"}
INVARIANTS TypeOK NoCustomerWriteLost PartialNeverPublic OldAppNeverOnForwardData
