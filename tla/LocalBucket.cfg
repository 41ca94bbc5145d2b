CONSTANTS
    k1 = k1
    k2 = k2
    Keys = {k1, k2}
    Bodies = {"a", "b"}
    Tags = {"plain", "text"}
    Default = "plain"
    Values <- MCValues
    MaxOrphanStages = 3
    MaxFaults = 2
SPECIFICATION MCSpec
INVARIANTS ReadsWhole BackupsAreJournalled StagesBounded
PROPERTY JournalResolved
