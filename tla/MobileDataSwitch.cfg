SPECIFICATION MCSpec
CONSTANTS
    Paths = {p1}
    Sims = {s1}
    NoPath = NoPath
    NoSim = NoSim
    Unset = Unset
    Switches = {TRUE, FALSE}
    SimChoices = {}
    MaxCalls = 2
    MaxRestarts = 0
    Faults = {"card"}
    MaxFaults = 1
INVARIANTS SwitchGoverns
