SPECIFICATION Spec
CONSTANTS
    Runs = {r1}
    Copies = {c1, c2}
    Migrators = {m1}
    Api = api
    InitialSchemas = {"unversioned", "versioned"}
    None = None
SYMMETRY Symmetry
INVARIANT MigrationIsAtomic
CHECK_DEADLOCK FALSE
