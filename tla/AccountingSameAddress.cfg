SPECIFICATION Spec

CONSTANTS
    Runs = {"cron"}
    Tenant <- OnlyCron
    Tenants <- TheTenants
    Devices <- TheDevices
    Addresses = {"a1", "a2", "a3"}
    Address <- SameAddress
    Assigned <- TheAssigned
    Timeout <- TheTimeout
    Disabled = Disabled
    Engine <- TheEngine
    Database <- OwnDatabases
    Sessions = {"s1", "s2"}
    Home <- EastAndMid
    NoRow = NoRow
    NoTime = NoTime
    Faults = {}
    Broken = {}
    MaxFaults = 0
    MaxTime = 3

INVARIANTS
    NoTimeoutNoCleanup
