\* One connection of either kind, edits of the user and of another program.
SPECIFICATION Spec
CONSTANTS
    Numbers = {0, 80, 128, 1194, 1300, 1500}
    Edits <- MCEdits
    Foreign <- MCForeign
    Stored <- MCStored
    MaxEdits = 2
    MaxForeign = 1
INVARIANTS
    WindowKept
    AtRestAgree
    LoneEditLands
PROPERTY
    Settles
CHECK_DEADLOCK FALSE
