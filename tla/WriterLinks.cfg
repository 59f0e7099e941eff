SPECIFICATION Spec

CONSTANTS
    Gens = {1, 2}
    Configuration <- Through
    Foreign <- KeptBeside
    Operator = Operator
    Faults = {"crash"}
    Serial = FALSE

PROPERTIES
    ForeignFilesStay

\* Every generate ends, and nothing is left to do.
CHECK_DEADLOCK FALSE
