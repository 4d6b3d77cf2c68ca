SPECIFICATION MCSpec
CONSTANTS
    p0 = p0  p1 = p1  a0 = a0  a1 = a1  b0 = b0
    Paths <- OnePath
    PathOrder <- OneOrder
    Modems <- OneModem
    PathOf <- OnePathOf
    NoModem = NoModem
    Absent = Absent
    Null = Null
    Codes = {c1, c2}
    NoCode = NoCode
    Nothing = Nothing
    MaxPin = 2
    MaxPuk = 2
    MaxOutstanding = 1
    Faults = {"modem", "interface", "retries", "card", "shell", "close"}
    MaxFaults = 1
INVARIANTS TypeOK  PromptSound
SYMMETRY CodeSymmetry
