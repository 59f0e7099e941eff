SPECIFICATION Spec

CONSTANTS
    Procs = {p1, p2}
    Roots = {r1, r2, shared}
    Networks = {n1}
    Nobody = Nobody
    Operator = Operator
    NoNetwork = NoNetwork
    Unlabelled = Unlabelled
    Faults = {"io", "crash", "lostReply"}
    SerialRoots = {r1, r2}
    Placements <- Everywhere
    p1 = p1
    p2 = p2
    r1 = r1
    r2 = r2
    shared = shared
    n1 = n1

SYMMETRY Symmetry

CONSTRAINTS
    Explored

INVARIANTS
    TypeOK
    InitializedRuntimeStays
    FailureLeavesNothing
    SuccessOwnsNetwork

PROPERTIES
    OnlyOwnEntriesRemoved
    NetworksRemovedByCreator
    ClaimsRefined

\* Every invocation ends, and nothing is left to do.
CHECK_DEADLOCK FALSE
