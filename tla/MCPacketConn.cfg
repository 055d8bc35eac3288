SPECIFICATION FairConnSpec
CONSTANTS
    Readers = {"r1", "r2"}
    Packets = {"d1"}
    Capacity = 2
    NoDeadline = NoDeadline
    MaxTime = 2
    MaxSets = 3
INVARIANTS
    ConnTypeOK
    NoLostWakeup
PROPERTIES
    NeverStuck
