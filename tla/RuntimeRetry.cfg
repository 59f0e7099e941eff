SPECIFICATION Spec

CONSTANTS
    Procs = {p1, p2}
    Roots = {r1}
    Networks = {n1}
    Nobody = Nobody
    Operator = Operator
    NoNetwork = NoNetwork
    Unlabelled = Unlabelled
    Faults = {"crash", "lostReply"}
    SerialRoots = {r1}
    Placements <- Apart
    p1 = p1
    p2 = p2
    r1 = r1
    n1 = n1

SYMMETRY Symmetry

INVARIANTS
    RefusedNetworkIsAnotherRuntimes

\* Every invocation ends, and nothing is left to do.
CHECK_DEADLOCK FALSE
