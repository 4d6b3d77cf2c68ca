\* One edit, two requests and two events of any kind.
SPECIFICATION Spec
CONSTANTS
    Devices <- MCDevices
    Tether <- MCTether
    Ssids = {}
    Passwords = {"secret"}
    MaxEdits = 1
    MaxRequests = 2
    MaxEvents = 2
INVARIANTS
    
    KnownAfterRestart
PROPERTY
    Reactivated
CHECK_DEADLOCK FALSE
