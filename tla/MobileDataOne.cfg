SPECIFICATION MCSpec
CONSTANTS
    Paths = {p1}
    Sims = {s1, s2}
    NoPath = NoPath
    NoSim = NoSim
    Unset = Unset
    Switches = {TRUE, FALSE}
    SimChoices = {s1, s2, NoSim}
    MaxCalls = 3
    MaxRestarts = 1
    Faults = {"card", "other", "modem", "interface"}
    MaxFaults = 2
INVARIANTS OnlyChosenSim ForcedBack ModemsMatched SettingsKept
 
SYMMETRY MCSymmetry
