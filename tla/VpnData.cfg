\* Every property of both kinds of connection, after up to two edits.
SPECIFICATION Spec
CONSTANTS
    Numbers = {0, 80, 128, 1194, 1300, 1500}
    MaxEdits = 2
    Texts0 = {"a"}
INVARIANTS
    EditLands
    EditIsolated
    StoreStable
CHECK_DEADLOCK FALSE
