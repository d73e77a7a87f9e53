SPECIFICATION Spec
CONSTANTS
    Pdfs = {1}
    Images = {2}
    Digests = {1, 2}
    MaxPoints = 2
    MaxFaults = 1
    Overlap = FALSE
    Residue = FALSE
INVARIANTS TypeOK CompletedIsRestorable DumpWithinPoint RotationCanResume
PROPERTIES VerifiedPointKept WindowCloses
