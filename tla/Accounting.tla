----------------------------- MODULE Accounting -----------------------------
(***************************************************************************)
(* `radius-director maintenance accounting <config> <tenant>`: a pass over  *)
(* the accounting policies of one tenant, one UPDATE for each NAS with a    *)
(* stale-session timeout.  Passes are started by cron or by hand, may       *)
(* overlap, fail in part and be killed, while FreeRADIUS keeps writing the  *)
(* same records and time goes by.                                          *)
(***************************************************************************)
EXTENDS Integers, Sequences, FiniteSets

CONSTANTS
    Runs,       \* the scheduled and the manual entries that start passes
    Tenant,     \* Tenant[r]: the tenant entry r names, known to the config or not
    Tenants,    \* the tenants of the configuration
    Devices,    \* NAS devices
    Addresses,  \* their IP addresses
    Address,    \* Address[d]
    Assigned,   \* Assigned[t]: the devices assigned to tenant t, sorted
    Timeout,    \* Timeout[t][d]: the stale-session timeout of the assignment
    Disabled,   \* marks an assignment without a timeout
    Engine,     \* Engine[t]: the database engine
    Database,   \* Database[t]: the database its accounting records are in
    Sessions,   \* subscribers' sessions
    Home,       \* Home[s]: the tenant and the device of session s
    NoRow,      \* marks a session without a record
    NoTime,     \* NULL
    Faults,     \* a subset of {"database", "crash"}
    Broken,     \* devices whose UPDATE the database always refuses
    MaxFaults,  \* bound: how many faults happen
    MaxTime     \* bound: the last tick of the clock

ASSUME ConfigurationAssumption ==
    /\ Tenant \in [Runs -> Tenants \cup {"unknown"}] /\ "unknown" \notin Tenants
    /\ Address \in [Devices -> Addresses]
    /\ Assigned \in [Tenants -> Seq(Devices)]
    /\ Timeout \in [Tenants -> [Devices -> Nat \cup {Disabled}]]
    /\ Home \in [Sessions -> [tenant : Tenants, device : Devices]]
    /\ Disabled \notin Nat

ASSUME RecordAssumption ==
    /\ NoTime \notin Nat
    /\ NoRow \notin [update : Nat, stop : Nat \cup {NoTime},
                     cause : {"none", "NAS", "Stale-Session"}]
    /\ IsFiniteSet(Sessions)

ASSUME BoundAssumption == MaxFaults \in Nat /\ MaxTime \in Nat

VARIABLES
    clock,      \* the time
    row,        \* row[s]: the record of s in radacct
    faults      \* how many faults have happened

VARIABLES
    pc,         \* where a pass is
    policy,     \* the policy of the loop's current iteration
    start,      \* maintenanceTime
    failed,     \* errs is not empty
    processed,  \* result.PoliciesProcessed
    closed,     \* result.SessionsClosed
    tally,      \* history: the sessions this pass has closed
    outcome     \* how the last pass of the entry has ended

world  == <<clock, row, faults>>
result == <<processed, closed, tally>>
vars   == <<clock, row, faults, pc, policy, start, failed, processed, closed,
            tally, outcome>>

Rows ==
    [update : Nat, stop : Nat \cup {NoTime}, cause : {"none", "NAS", "Stale-Session"}]

Outcomes == {"none", "ok", "errors", "notEnabled", "refused", "noDatabase", "crashed"}

TypeOK ==
    /\ clock \in Nat
    /\ row \in [Sessions -> Rows \cup {NoRow}]
    /\ faults \in Nat
    /\ pc \in [Runs -> {"idle", "open", "now", "loop"}]
    /\ policy \in [Runs -> Nat]
    /\ start \in [Runs -> Nat]
    /\ failed \in [Runs -> BOOLEAN]
    /\ processed \in [Runs -> Nat]
    /\ closed \in [Runs -> Nat]
    /\ tally \in [Runs -> SUBSET Sessions]
    /\ outcome \in [Runs -> Outcomes]

\* The records begin with the sessions: none.
Init ==
    /\ clock = 0
    /\ row = [s \in Sessions |-> NoRow]
    /\ faults = 0
    /\ pc = [r \in Runs |-> "idle"]
    /\ policy = [r \in Runs |-> 1]
    /\ start = [r \in Runs |-> 0]
    /\ failed = [r \in Runs |-> FALSE]
    /\ processed = [r \in Runs |-> 0]
    /\ closed = [r \in Runs |-> 0]
    /\ tally = [r \in Runs |-> {}]
    /\ outcome = [r \in Runs |-> "none"]

-----------------------------------------------------------------------------
\* FreeRADIUS and time.

\* A session begins; the start query records the time as the first activity.
NASStart(s) ==
    /\ row[s] = NoRow
    /\ row' = [row EXCEPT ![s] = [update |-> clock, stop |-> NoTime, cause |-> "none"]]
    /\ UNCHANGED <<clock, faults, pc, policy, start, failed, result, outcome>>

\* An interim update, of a session that maintenance may have given up.
NASUpdate(s) ==
    /\ row[s] # NoRow
    /\ row' = [row EXCEPT ![s].update = clock]
    /\ UNCHANGED <<clock, faults, pc, policy, start, failed, result, outcome>>

\* A stop; it may be lost, so that it never happens.
NASStop(s) ==
    /\ row[s] # NoRow
    /\ row' = [row EXCEPT ![s] = [@ EXCEPT !.stop = clock, !.cause = "NAS"]]
    /\ UNCHANGED <<clock, faults, pc, policy, start, failed, result, outcome>>

Tick ==
    /\ clock < MaxTime
    /\ clock' = clock + 1
    /\ UNCHANGED <<row, faults, pc, policy, start, failed, result, outcome>>

-----------------------------------------------------------------------------
\* runAccountingMaintenance.

\* generator.Generate makes one policy of each NAS assignment.
Policies(t) ==
    [i \in DOMAIN Assigned[t] |->
        LET d == Assigned[t][i] IN
        [device |-> d, address |-> Address[d], timeout |-> Timeout[t][d]]]

Enabled(t) == {i \in DOMAIN Policies(t) : Policies(t)[i].timeout # Disabled}

Goto(r, l) == pc' = [pc EXCEPT ![r] = l]

\* The pass ends, and with it its variables.
Return(r, why) ==
    /\ Goto(r, "idle")
    /\ outcome' = [outcome EXCEPT ![r] = why]
    /\ policy' = [policy EXCEPT ![r] = 1]
    /\ start' = [start EXCEPT ![r] = 0]
    /\ failed' = [failed EXCEPT ![r] = FALSE]
    /\ processed' = [processed EXCEPT ![r] = 0]
    /\ closed' = [closed EXCEPT ![r] = 0]
    /\ tally' = [tally EXCEPT ![r] = {}]

Fault(kind) ==
    /\ kind \in Faults
    /\ faults < MaxFaults
    /\ faults' = faults + 1

Known(r)     == Tenant[r] \in Tenants
Supported(r) == Engine[Tenant[r]] = "mysql"

\* The configuration is loaded and the tenant looked up.
Begin(r) ==
    /\ pc[r] = "idle"
    /\ \/ /\ Known(r) => Enabled(Tenant[r]) # {} /\ ~Supported(r)
          /\ Return(r, "refused")
       \/ /\ Known(r) /\ Enabled(Tenant[r]) = {}
          /\ Return(r, "notEnabled")
       \/ /\ Known(r) /\ Enabled(Tenant[r]) # {} /\ Supported(r)
          /\ Goto(r, "open")
          /\ UNCHANGED <<policy, start, failed, result, outcome>>
    /\ UNCHANGED world

OpenMySQL(r) ==
    /\ pc[r] = "open"
    /\ \/ /\ Goto(r, "now")
          /\ UNCHANGED <<faults, policy, start, failed, result, outcome>>
       \/ /\ Fault("database")
          /\ Return(r, "noDatabase")
    /\ UNCHANGED <<clock, row>>

-----------------------------------------------------------------------------
\* Runner.Run.

\* The time is read once, before the loop.
TakeTime(r) ==
    /\ pc[r] = "now"
    /\ start' = [start EXCEPT ![r] = clock]
    /\ Goto(r, "loop")
    /\ UNCHANGED <<world, policy, failed, result, outcome>>

InLoop(r)  == pc[r] = "loop" /\ policy[r] <= Len(Policies(Tenant[r]))
Current(r) == Policies(Tenant[r])[policy[r]]
Continue(r) == policy' = [policy EXCEPT ![r] = @ + 1]

Skip(r) ==
    /\ InLoop(r)
    /\ Current(r).timeout = Disabled
    /\ Continue(r)
    /\ UNCHANGED <<world, pc, start, failed, result, outcome>>

\* Mutants of the WHERE clause: records that are closed already, records that
\* are exactly as old as the timeout.
MatchClosed(r) ==
    {s \in Sessions : /\ row[s] # NoRow
                      /\ Database[Home[s].tenant] = Database[Tenant[r]]
                      /\ Address[Home[s].device] = Current(r).address
                      /\ row[s].update < start[r] - Current(r).timeout}

MatchAtCutoff(r) ==
    {s \in Sessions : /\ row[s] # NoRow
                      /\ Database[Home[s].tenant] = Database[Tenant[r]]
                      /\ Address[Home[s].device] = Current(r).address
                      /\ row[s].stop = NoTime
                      /\ row[s].update <= start[r] - Current(r).timeout}

\* The WHERE clause of closeStaleSessionsQuery.
Matching(r) ==
    {s \in Sessions : /\ row[s] # NoRow
                      /\ Database[Home[s].tenant] = Database[Tenant[r]]
                      /\ Address[Home[s].device] = Current(r).address
                      /\ row[s].stop = NoTime
                      /\ row[s].update < start[r] - Current(r).timeout}

\* Mutant: the arguments of the statement are passed in the wrong order.
CloseSwapped(r, S) ==
    row' = [s \in Sessions |->
              IF s \in S
                THEN [row[s] EXCEPT !.stop = row[s].update, !.cause = Current(r).address]
                ELSE row[s]]

\* Its SET clause.
CloseAll(r, S) ==
    row' = [s \in Sessions |->
              IF s \in S
                THEN [row[s] EXCEPT !.stop = row[s].update, !.cause = "Stale-Session"]
                ELSE row[s]]

\* The statement is applied; its row count may still be unavailable.
Exec(r) ==
    /\ InLoop(r)
    /\ Current(r).timeout # Disabled
    /\ Current(r).device \notin Broken
    /\ processed' = [processed EXCEPT ![r] = @ + 1]
    /\ CloseAll(r, Matching(r))
    /\ tally' = [tally EXCEPT ![r] = @ \cup Matching(r)]
    /\ \/ /\ closed' = [closed EXCEPT ![r] = @ + Cardinality(Matching(r))]
          /\ UNCHANGED <<failed, faults>>
       \/ /\ Fault("database")
          /\ failed' = [failed EXCEPT ![r] = TRUE]
          /\ UNCHANGED closed
    /\ Continue(r)
    /\ UNCHANGED <<clock, pc, start, outcome>>

\* Mutant: the loop ends with the first error.
StopAtError(r) == policy' = [policy EXCEPT ![r] = Len(Policies(Tenant[r])) + 1]

\* After an error of one policy the loop goes on with the next one.
AfterError(r) == Continue(r)

\* ExecContext reports an error, and when only the answer is lost the
\* statement has been applied.
ExecFails(r) ==
    /\ InLoop(r)
    /\ Current(r).timeout # Disabled
    /\ processed' = [processed EXCEPT ![r] = @ + 1]
    /\ failed' = [failed EXCEPT ![r] = TRUE]
    /\ \/ /\ Current(r).device \in Broken
          /\ UNCHANGED <<row, tally, faults>>
       \/ /\ Fault("database")
          /\ Current(r).device \notin Broken
          /\ \/ UNCHANGED <<row, tally>>
             \/ /\ CloseAll(r, Matching(r))
                /\ tally' = [tally EXCEPT ![r] = @ \cup Matching(r)]
    /\ AfterError(r)
    /\ UNCHANGED <<clock, pc, start, closed, outcome>>

Finish(r) ==
    /\ pc[r] = "loop"
    /\ ~InLoop(r)
    /\ Return(r, IF failed[r] THEN "errors" ELSE "ok")
    /\ UNCHANGED world

Crash(r) ==
    /\ pc[r] # "idle"
    /\ Fault("crash")
    /\ Return(r, "crashed")
    /\ UNCHANGED <<clock, row>>

-----------------------------------------------------------------------------
Work(r) ==
    \/ OpenMySQL(r) \/ TakeTime(r)
    \/ Skip(r) \/ Exec(r) \/ ExecFails(r) \/ Finish(r)

NAS == \E s \in Sessions : NASStart(s) \/ NASUpdate(s) \/ NASStop(s)

Next ==
    \/ Tick
    \/ NAS
    \/ \E r \in Runs : Begin(r) \/ Work(r) \/ Crash(r)

Spec == Init /\ [][Next]_vars

\* Time passes, the scheduler starts every entry again and again, and a pass
\* that has been started is run; the NAS owes nothing.
FairSpec ==
    /\ Spec
    /\ WF_vars(Tick)
    /\ \A r \in Runs : WF_vars(Begin(r)) /\ WF_vars(Work(r))

-----------------------------------------------------------------------------
\* What passes promise: see StaleSessions.  A session is governed by its own
\* assignment, whatever address its NAS has.
Limit == [s \in Sessions |-> Timeout[Home[s].tenant][Home[s].device]]

Promise == INSTANCE StaleSessions

-----------------------------------------------------------------------------
\* Properties.

\* Overlapping, failing and killed passes close a record only when it is open
\* and stale under the timeout of its own NAS assignment at that very moment,
\* with its last activity as the stop time, and change no other record: a time
\* read long before the UPDATE and interim updates in between do no harm.
PromiseKept == Promise!Spec

\* A session of an assignment without a timeout is never closed by maintenance.
NoTimeoutNoCleanup ==
    \A s \in Sessions :
        row[s] # NoRow => (row[s].cause = "Stale-Session" => Limit[s] # Disabled)

\* What a pass reports as closed is what it has closed: no session is counted
\* twice, neither by one pass nor by two that overlap, and only an error makes
\* the count too low.
CountsAreHonest ==
    \A r \in Runs :
        /\ closed[r] <= Cardinality(tally[r])
        /\ ~failed[r] => closed[r] = Cardinality(tally[r])
        /\ \A q \in Runs \ {r} : tally[r] \cap tally[q] = {}

\* Policies are independent: a pass that ends by itself has dealt with every
\* enabled policy of the tenant exactly once, whichever of them failed.
EveryPolicyProcessed ==
    [][\A r \in Runs :
         pc[r] = "loop" /\ pc'[r] = "idle" /\ outcome'[r] # "crashed" =>
             processed[r] = Cardinality(Enabled(Tenant[r]))]_vars

\* A stale session does not stay open: the NAS is heard of again, or a pass
\* closes the record, although passes fail now and then and the policy of
\* another NAS fails in every one of them.
Overdue(s) ==
    /\ row[s] # NoRow /\ row[s].stop = NoTime
    /\ Limit[s] # Disabled
    /\ row[s].update + Limit[s] < MaxTime

Served(s) ==
    /\ Home[s].device \notin Broken
    /\ \E r \in Runs :
         /\ Tenant[r] = Home[s].tenant
         /\ Supported(r)
         /\ \E i \in Enabled(Tenant[r]) : Assigned[Tenant[r]][i] = Home[s].device

StaleSessionsEnd ==
    \A s \in Sessions : Served(s) => (Overdue(s) ~> ~Overdue(s))
=============================================================================
