\* One administrator at the settings page, others and scripts beside him.
SPECIFICATION Spec
CONSTANTS
    Fields <- McFields
    Blank = Blank
    Texts = {"vpn", "a b", "k1", "k2"}
    ServerAccepts <- McServerAccepts
    UiAccepts <- McUiAccepts
    Null = Null
    MaxInFlight = 2
    MaxHandlers = 2
    MaxClicks = 3
    MaxEvents = 1
    Inputs <- McInputs
    Patches <- McPatches
    Stored <- McStored
    Seeds <- McSeeds
    Keys = {"k1", "k2"}
CHECK_DEADLOCK FALSE
INVARIANTS
    PageTypeOK
    SettingsValid
    ClientsAreTold
    OneWriteAtATime
    NumbersMirrored
