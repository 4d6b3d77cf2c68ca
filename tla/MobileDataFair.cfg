SPECIFICATION MCFairSpec
CONSTANTS
    Paths = {p1, p2}
    Sims = {s1, s2}
    NoPath = NoPath
    NoSim = NoSim
    Unset = Unset
    Switches = {TRUE}
    SimChoices = {}
    MaxCalls = 1
    MaxRestarts = 0
    Faults = {"card", "modem"}
    MaxFaults = 1
INVARIANTS Attached
PROPERTIES LoneSimChosen
