SPECIFICATION Spec
CONSTANTS
    src = src
    doc = doc
    v1 = v1
    v2 = v2
    none = none
    Paths = {src, doc}
    Evidence = {doc}
    Absent = none
    Trees <- SomeTrees
    FirstTree <- StartTree
    Jobs = {j1}
    Opinions <- SomeOpinions
    MaxLength = 3
    MaxEvents = 3
    MaxRaces = 1
PROPERTIES PassedCodeIsApproved QuietVerdictExact
CHECK_DEADLOCK FALSE
