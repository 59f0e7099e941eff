SPECIFICATION FairSpec

CONSTANTS
    Runs = {"cron", "lab", "old", "typo"}
    Tenant <- AllTenants
    Tenants <- TheTenants
    Devices <- TheDevices
    Addresses = {"a1", "a2", "a3"}
    Address <- OwnAddresses
    Assigned <- TheAssigned
    Timeout <- TheTimeout
    Disabled = Disabled
    Engine <- TheEngine
    Database <- OwnDatabases
    Sessions = {"s1"}
    Home <- AtWest
    NoRow = NoRow
    NoTime = NoTime
    Faults = {"database", "crash"}
    Broken = {"east"}
    MaxFaults = 1
    MaxTime = 3

PROPERTIES
    StaleSessionsEnd
