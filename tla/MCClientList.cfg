\* One tab of the list of clients: two requests in flight, two clicks, one
\* change by others, restart or failure.  A tab whose first request fails is
\* stuck until it is loaded again, so the run may stop.
SPECIFICATION FairSpec
CONSTANTS
    Bits <- McBits
    Ids = {"c1", "c2"}
    AddressOf <- McAddressOf
    Cidrs <- McCidrs
    FirstAllowed <- McHost
    Labels = {"l1", "l2"}
    Garbage = Garbage
    Drafts <- McDrafts
    Null = Null
    Failed = Failed
    MaxInFlight = 2
    MaxBounces = 1
    MaxClicks = 2
    MaxEvents = 1
CHECK_DEADLOCK FALSE
INVARIANTS
    ListTypeOK
    SitePeersDisjoint
    FlagsMatchRequests
PROPERTIES
    DraftsKept
    Converges
