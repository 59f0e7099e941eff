SPECIFICATION Spec

CONSTANTS
    Runs = {"cron", "manual"}
    Tenant <- OneTenant
    Tenants <- TheTenants
    Devices <- TheDevices
    Addresses = {"a1", "a2", "a3"}
    Address <- OwnAddresses
    Assigned <- TheAssigned
    Timeout <- TheTimeout
    Disabled = Disabled
    Engine <- TheEngine
    Database <- OwnDatabases
    Sessions = {"s1", "s2"}
    Home <- EastAndMid
    NoRow = NoRow
    NoTime = NoTime
    Faults = {"database", "crash"}
    Broken = {}
    MaxFaults = 1
    MaxTime = 2

INVARIANTS
    TypeOK
    CountsAreHonest

PROPERTIES
    PromiseKept
    EveryPolicyProcessed
