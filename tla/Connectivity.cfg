SPECIFICATION Spec
CONSTANTS
    Iccids = {a, b}
    NoSim = none
    Known = {a}
    Serials = {x}
    Vpns = {v}
    Varied = {"flightMode", "unstoppable"}
    SimVaried = {"DataRoamingEnabled"}
    MaxSteps = 3
INVARIANTS AtRestMirrored NoEcho AddedIsListed
PROPERTIES AddAnswered Converges
CHECK_DEADLOCK FALSE
