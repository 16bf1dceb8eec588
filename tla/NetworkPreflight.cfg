SPECIFICATION FairSpec
CONSTANTS
    Configs = {"default", "other"}
    Default = "default"
    Route <- MCRoute
    Effective <- MCEffective
    Needs <- MCNeeds
    System = "system"
    LeaseIds = {1, 2, 3, 4}
    Runs = {1, 2, 3, 4}
    None = None
    Callers = {a, b}
    MaxSaves = 1
    MaxEvents = 2
    MaxStarts = 2
INVARIANTS RouteIsHeld StableIsStored
PROPERTIES EntersOnLastWord AllReturn
CHECK_DEADLOCK FALSE
