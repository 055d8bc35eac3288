SPECIFICATION Spec
CONSTANTS
    ClientIds = {"c1", "c2"}
    Addrs = {1, 2, 3}
    Pool = {1, 2}
    Cidrs <- SiteCidrs
    V6Cidrs = {}
    Spellings = {"plain"}
    Keys = {"k1", "k2"}
    Ports = {"p1", "bad"}
    BadPorts = {"bad"}
    Mtus = {"auto"}
    AutoMtu = "auto"
    Hosts = {"h1"}
    Labels = {"l1"}
    NoKey = "none"
    NoPort = "none"
    Reqs = {"r1"}
    Boot = "boot"
    Sig = "sig"
    NoId = "noid"
    Ops = {"create", "enable", "disable", "delete", "site", "rename", "address", "settings", "regen"}
    Faults = {"exec", "iptables"}
    MaxCrashes = 0
    DefaultServer <- DefaultSettings
    SavedConfigs = {}
INVARIANTS
    DiskMirrorsMemory
    HooksLive
