SPECIFICATION FairSpec
CONSTANTS
    ClientIds = {"c1"}
    Addrs = {1}
    Pool = {1}
    Cidrs = {}
    V6Cidrs = {}
    Spellings = {"plain"}
    Keys = {"k1", "k2"}
    Ports = {"p1"}
    BadPorts = {}
    Mtus = {"auto"}
    AutoMtu = "auto"
    Hosts = {"h1"}
    Labels = {"l1"}
    NoKey = "none"
    NoPort = "none"
    Reqs = {"r1", "r2"}
    Boot = "boot"
    Sig = "sig"
    NoId = "noid"
    Ops = {"regen"}
    Faults = {"crash"}
    MaxCrashes = 1
    DefaultServer <- DefaultSettings
    SavedConfigs <- OneClient
PROPERTIES
    Answered
    ComesBack
