SPECIFICATION MCFairSpec
CONSTANTS
    p0 = p0  p1 = p1  a0 = a0  a1 = a1  b0 = b0
    Paths <- TwoPaths
    PathOrder <- TwoOrder
    Modems <- TwoModems
    PathOf <- TwoPathOf
    NoModem = NoModem
    Absent = Absent
    Null = Null
    Codes = {}
    NoCode = NoCode
    Nothing = Nothing
    MaxPin = 1
    MaxPuk = 1
    MaxOutstanding = 1
    Faults = {}
    MaxFaults = 0
INVARIANTS QueueSound
PROPERTIES RequestsKept WaiterServed 
