SPECIFICATION MCSpec

CONSTANTS
    Exports = {1, 2}
    Bundle <- TheBundle
    Admin = 0
    Touched <- TheTouched
    Configuration <- TheConfigurations
    Sorted <- TheSorted
    IPs <- TheIPs
    Seconds <- TheSeconds
    Versions <- TheVersions

INVARIANTS
    DeploymentTypeOK
    RequestsReachOwnDatabase
    ClientsComplete
    DeploymentIsClosed
    ReleaseSuffices
    SomeoneExports

PROPERTIES
    NeverOverwrites
    SuccessIsWhole

\* Generate and the exports end, and nothing is left to do.
CHECK_DEADLOCK FALSE
