SPECIFICATION Spec
CONSTANTS
    ClientIds = {"c1", "c2"}
    Addrs = {1, 2, 3}
    Pool = {1, 2}
    Cidrs <- SiteCidrs
    V6Cidrs = {}
    Spellings = {"plain", "spaced"}
    Keys = {"k1"}
    Ports = {"p1", "p2", "bad"}
    BadPorts = {"bad"}
    Mtus = {"auto"}
    AutoMtu = "auto"
    Hosts = {"h1"}
    Labels = {"l1"}
    NoKey = "none"
    NoPort = "none"
    Reqs = {"r1"}
    Boot = "boot"
    Sig = "sig"
    NoId = "noid"
    Ops = {"create", "disable", "delete", "site", "address", "settings", "sigterm"}
    Faults = {"crash"}
    MaxCrashes = 1
    DefaultServer <- DefaultSettings
    SavedConfigs = {}
INVARIANTS
    KernelServesConfig
    TeardownCovers
    OneChangeAway
