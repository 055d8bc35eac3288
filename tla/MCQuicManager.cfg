SPECIFICATION Spec
CONSTANTS
    Clients = {"c1", "c2", "c3"}
    Packets = {"c1", "c2", "c3"}
    Servers = {"s1"}
    MaxClaimedFlows = 2
    Capacity = 1
    Reader = "reader"
    Readers = {"reader"}
    Writers = {"w1"}
    NoClient = "none"
    NoDeadline = NoDeadline
    MaxTime = 1
    MaxSets = 2
INVARIANTS
    TypeOK
    FlowsBounded
    OnlyEvictedLost
PROPERTIES
    CloseReturns
    NeverBlocks
