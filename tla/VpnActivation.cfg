\* Two connections, two activations, one other network.
SPECIFICATION Spec
CONSTANTS
    Vpns <- MCVpns
    Actives <- MCActives
    Other <- MCOther
    MaxRequests = 2
    MaxChanges = 1
INVARIANTS
    OneAtATime
    RightDeactivate
    NotifiedOnce
    

    
CHECK_DEADLOCK FALSE
