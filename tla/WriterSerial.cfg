SPECIFICATION Spec

CONSTANTS
    Gens = {1, 2, 3}
    Configuration <- Fitting
    Foreign <- KeptBeside
    Operator = Operator
    Faults = {"io", "crash"}
    Serial = TRUE

INVARIANTS
    TypeOK
    ManifestNeverOlder
    NeverBlocked

PROPERTIES
    SuccessWritesPlan

\* Every generate ends, and nothing is left to do.
CHECK_DEADLOCK FALSE
