SPECIFICATION Spec
CONSTANTS
    ClientIds = {"c1", "c2"}
    Addrs = {1, 2, 3}
    Pool = {1, 2}
    Cidrs <- SiteCidrs
    V6Cidrs = {}
    Spellings = {"plain"}
    Keys = {"k1"}
    Ports = {"p1"}
    BadPorts = {}
    Mtus = {"auto"}
    AutoMtu = "auto"
    Hosts = {"h1"}
    Labels = {"l1"}
    NoKey = "none"
    NoPort = "none"
    Reqs = {"r1"}
    Boot = "boot"
    Sig = "sig"
    NoId = "noid"
    Ops = {"create", "site", "address"}
    Faults = {}
    MaxCrashes = 0
    DefaultServer <- DefaultSettings
    SavedConfigs = {}
INVARIANTS
    NoOverlap
