SPECIFICATION Spec
CONSTANTS
    Pdfs = {1}
    Images = {2}
    Digests = {1, 2}
    MaxPoints = 2
    MaxFaults = 0
    Overlap = TRUE
    Residue = FALSE
INVARIANT CompletedIsRestorable
