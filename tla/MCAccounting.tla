---------------------------- MODULE MCAccounting ----------------------------
(***************************************************************************)
(* Configurations for model checking Accounting.  Tenant "isp" has three   *)
(* NAS devices, with a short timeout, none, and a longer one; the other    *)
(* tenants have nothing to maintain or a database that is not supported.   *)
(***************************************************************************)
EXTENDS Accounting

TheTenants  == {"isp", "lab", "old"}
TheDevices  == {"east", "mid", "west"}
TheAssigned == [isp |-> <<"east", "mid", "west">>, lab |-> <<"mid">>, old |-> <<"east">>]
TheTimeout  ==
    [isp |-> [east |-> 1, mid |-> Disabled, west |-> 2],
     lab |-> [east |-> Disabled, mid |-> Disabled, west |-> Disabled],
     old |-> [east |-> 1, mid |-> Disabled, west |-> Disabled]]
TheEngine   == [isp |-> "mysql", lab |-> "mysql", old |-> "postgresql"]

\* Every tenant has a database container of its own.
OwnDatabases == [isp |-> "dbisp", lab |-> "dblab", old |-> "dbold"]

OwnAddresses == [east |-> "a1", mid |-> "a2", west |-> "a3"]

\* Two NAS devices with the same ip_address.
SameAddress  == [east |-> "a1", mid |-> "a1", west |-> "a3"]

\* Entries of the crontab: two for one tenant, or one for each kind of tenant.
OneTenant  == [cron |-> "isp", manual |-> "isp"]
AllTenants == [cron |-> "isp", lab |-> "lab", old |-> "old", typo |-> "unknown"]
OnlyCron   == [cron |-> "isp"]

AtEast     == [s1 |-> [tenant |-> "isp", device |-> "east"]]
AtWest     == [s1 |-> [tenant |-> "isp", device |-> "west"]]
EastAndMid == [s1 |-> [tenant |-> "isp", device |-> "east"],
               s2 |-> [tenant |-> "isp", device |-> "mid"]]
Everywhere == [s1 |-> [tenant |-> "isp", device |-> "east"],
               s2 |-> [tenant |-> "isp", device |-> "west"],
               s3 |-> [tenant |-> "old", device |-> "east"]]
TwoAtEast  == [s1 |-> [tenant |-> "isp", device |-> "east"],
               s2 |-> [tenant |-> "isp", device |-> "east"]]
=============================================================================
