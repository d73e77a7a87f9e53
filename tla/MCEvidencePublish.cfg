SPECIFICATION Spec
CONSTANTS
    plain = plain
    gate = gate
    Codes = {plain, gate}
    Definition <- DefinitionOfChange
    MaxDefinition = 1
    MaxCommits = 3
    MaxPushes = 2
    MaxRuns = 2
    MaxFaults = 1
INVARIANTS TypeOK OnlyGenuineAttested
PROPERTIES PublisherOnlyAddsToTestedCode AcceptedUnlessOvertaken
CHECK_DEADLOCK FALSE
