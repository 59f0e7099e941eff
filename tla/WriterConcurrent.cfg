SPECIFICATION ESpec

CONSTANTS
    Gens = {1, 2, 3}
    Configuration <- All
    Foreign <- Notes
    Operator = Operator
    Faults = {"crash"}
    Serial = FALSE
    Containers = {"isp"}
    Image <- TheImage
    ImageLinks <- TheLinks
    Quoted <- TheQuoted
    MaxStarts = 2

CONSTRAINTS
    Explored

INVARIANTS
    ContainerTypeOK
    RemovalsNotOlder

PROPERTIES
    OnlyManagedPathsTouched
    StartsAsGenerated

\* Every generate ends and every container has been started often enough.
CHECK_DEADLOCK FALSE
