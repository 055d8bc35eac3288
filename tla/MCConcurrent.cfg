SPECIFICATION Spec
CONSTANTS
    ClientIds = {"c1", "c2"}
    Addrs = {1, 2}
    Pool = {1, 2}
    Cidrs = {}
    V6Cidrs = {}
    Spellings = {"plain"}
    Keys = {"k1"}
    Ports = {"p1"}
    BadPorts = {}
    Mtus = {"auto"}
    AutoMtu = "auto"
    Hosts = {"h1"}
    Labels = {"l1"}
    NoKey = "none"
    NoPort = "none"
    Reqs = {"r1", "r2"}
    Boot = "boot"
    Sig = "sig"
    NoId = "noid"
    Ops = {"create", "address", "delete"}
    Faults = {"crash", "fs"}
    MaxCrashes = 1
    DefaultServer <- DefaultSettings
    SavedConfigs = {}
INVARIANTS
    NoOverlap
    
CHECK_DEADLOCK FALSE
