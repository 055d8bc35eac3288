\* The responder beside a tunnel whose S1 to H4 stay as they are.
SPECIFICATION FairSpec
CONSTANTS
    Offsets = {1}
    Null = Null
    Torn = Torn
    Envs <- McEnvs
    Stored <- McStored
    Edits <- McMoves
    WgPort = 1
    Datagrams <- McKnown
    Flows = {"client", "prober"}
    Client = "client"
    Leftovers <- McLeft
    MaxTries = 2
    MaxQueueLen = 2
    MaxEvents = 3
INVARIANTS
    ResponderTypeOK
    RulesExact
    RealAccepted
    ClaimedStays
PROPERTIES
    RulesGo
    ClientConnects
