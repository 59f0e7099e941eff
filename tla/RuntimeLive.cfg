SPECIFICATION FairSpec

CONSTANTS
    Procs = {p1, p2}
    Roots = {r1, r2}
    Networks = {n1}
    Nobody = Nobody
    Operator = Operator
    NoNetwork = NoNetwork
    Unlabelled = Unlabelled
    Faults = {"io", "docker"}
    SerialRoots = {r1, r2}
    Placements <- Apart
    p1 = p1
    p2 = p2
    r1 = r1
    r2 = r2
    n1 = n1

PROPERTIES
    NetworksSettle
    SomeoneWins

\* Every invocation ends, and nothing is left to do.
CHECK_DEADLOCK FALSE
