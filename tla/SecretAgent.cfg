SPECIFICATION Spec
CONSTANTS
    Wifis <- MCWifis
    Vpns <- MCVpns
    KeyMgmt <- MCKeyMgmt
    Flags <- MCFlags
    Passwords <- MCPasswords
    MaxCalls = 2
    MaxQueue = 1
    MaxEvents = 2
CHECK_DEADLOCK FALSE
PROPERTIES
    CallsKept
    
    
