SPECIFICATION Spec
CONSTANTS
    ClientIds = {"c1", "c2"}
    Addrs = {1, 2, 3}
    Pool = {1, 2}
    Cidrs <- MixedCidrs
    V6Cidrs <- V6Site
    Spellings = {"plain"}
    Keys = {"k1", "k2"}
    Ports = {"p1", "p2", "bad"}
    BadPorts = {"bad"}
    Mtus = {"auto"}
    AutoMtu = "auto"
    Hosts = {"h1"}
    Labels = {"l1"}
    NoKey = "none"
    NoPort = "none"
    Reqs = {"r1"}
    Boot = "boot"
    Sig = "sig"
    NoId = "noid"
    Ops = {"create", "enable", "disable", "delete", "site", "rename", "address", "settings", "regen"}
    Faults = {}
    MaxCrashes = 0
    DefaultServer <- DefaultSettings
    SavedConfigs = {}
INVARIANTS
    TypeOK
    DeviceServesConfig
PROPERTIES
    ImplementsStore
