SPECIFICATION Spec
CONSTANTS
    Runs = {r1}
    Copies = {c1, c2}
    Migrators = {m1, m2}
    Api = api
    InitialSchemas = {"empty", "unversioned", "versioned", "foreign", "changed"}
    None = None
SYMMETRY Symmetry
INVARIANTS
    CurrentIsHardened
    ServedSchemaIsHardened
    ReadsAreWhole
    ExportIsChecked
PROPERTIES
    NoRowLost
CHECK_DEADLOCK FALSE
