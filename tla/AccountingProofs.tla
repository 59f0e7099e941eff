-------------------------- MODULE AccountingProofs --------------------------
(***************************************************************************)
(* Theorems about Accounting, for any configuration, any crontab, any       *)
(* sessions and any faults.                                                 *)
(***************************************************************************)
EXTENDS Accounting, FiniteSetTheorems, TLAPS

\* The time of a pass has been read from the clock.
ClockInv == \A r \in Runs : start[r] <= clock

\* The enabled policies that the loop has left behind.
Done(r) == {i \in Enabled(Tenant[r]) : i < policy[r]}

LoopInv ==
    \A r \in Runs :
        /\ pc[r] # "idle" =>
             /\ Known(r)
             /\ policy[r] \in 1..(Len(Policies(Tenant[r])) + 1)
             /\ processed[r] = Cardinality(Done(r))
        /\ pc[r] # "loop" =>
             /\ policy[r] = 1
             /\ processed[r] = 0
             /\ closed[r] = 0
             /\ tally[r] = {}
             /\ ~failed[r]

\* A record that was closed stays closed, whatever the NAS still reports: it
\* does not match again, and no other pass counts it.
TallyInv ==
    \A r \in Runs : \A s \in tally[r] : row[s] # NoRow /\ row[s].stop # NoTime

PassInv == TypeOK /\ ClockInv /\ LoopInv /\ TallyInv /\ CountsAreHonest

\* Among the sessions of the database of a tenant, the address of a policy
\* selects those of its own assignment.  The code does not check it: the run
\* accounting_same_address shows what happens without it.
PoliciesApart ==
    \A t \in Tenants : \A i \in Enabled(t) : \A s \in Sessions :
        /\ Database[Home[s].tenant] = Database[t]
        /\ Address[Home[s].device] = Policies(t)[i].address
        => Limit[s] = Policies(t)[i].timeout

-----------------------------------------------------------------------------
\* Policies and records.

LEMMA PoliciesFacts ==
    ASSUME NEW t \in Tenants
    PROVE  /\ Len(Assigned[t]) \in Nat
           /\ DOMAIN Policies(t) = 1..Len(Assigned[t])
           /\ Len(Policies(t)) = Len(Assigned[t])
           /\ \A i \in DOMAIN Policies(t) :
                /\ Policies(t)[i].device \in Devices
                /\ Policies(t)[i].timeout \in Nat \cup {Disabled}
<1>1. Assigned[t] \in Seq(Devices)
  BY ConfigurationAssumption
<1>2. Len(Assigned[t]) \in Nat /\ DOMAIN Assigned[t] = 1..Len(Assigned[t])
  BY <1>1
<1>3. DOMAIN Policies(t) = 1..Len(Assigned[t])
  BY <1>2 DEF Policies
<1>4. \A i \in DOMAIN Policies(t) :
        Policies(t)[i] \in [device : Devices, address : Addresses, timeout : Nat \cup {Disabled}]
  <2>1. ASSUME NEW i \in 1..Len(Assigned[t])
        PROVE  /\ Assigned[t][i] \in Devices
               /\ Address[Assigned[t][i]] \in Addresses
               /\ Timeout[t][Assigned[t][i]] \in Nat \cup {Disabled}
    BY <1>1, <2>1, ConfigurationAssumption
  <2> QED
    BY <1>2, <1>3, <2>1 DEF Policies
<1>5. Len(Policies(t)) = Len(Assigned[t])
  BY <1>2, <1>3
<1> QED
  BY <1>2, <1>3, <1>4, <1>5

LEMMA EnabledFacts ==
    ASSUME NEW t \in Tenants
    PROVE  /\ IsFiniteSet(Enabled(t))
           /\ Enabled(t) \subseteq 1..Len(Policies(t))
           /\ \A i \in Enabled(t) : Policies(t)[i].timeout \in Nat
<1>1. Enabled(t) \in SUBSET (1..Len(Policies(t))) /\ Len(Policies(t)) \in Nat
  BY PoliciesFacts DEF Enabled
<1>2. IsFiniteSet(1..Len(Policies(t)))
  BY <1>1, FS_Interval
<1>3. IsFiniteSet(Enabled(t))
  BY <1>1, <1>2, FS_Subset
<1> QED
  BY <1>1, <1>3, PoliciesFacts DEF Enabled

\* Tenants with databases of their own and NAS devices with addresses of their
\* own are enough.
LEMMA DistinctAddressesApart ==
    ASSUME \A t, u \in Tenants : Database[t] = Database[u] => t = u,
           \A d, e \in Devices : Address[d] = Address[e] => d = e
    PROVE  PoliciesApart
<1> SUFFICES ASSUME NEW t \in Tenants, NEW i \in Enabled(t), NEW s \in Sessions,
                    Database[Home[s].tenant] = Database[t],
                    Address[Home[s].device] = Policies(t)[i].address
             PROVE  Limit[s] = Policies(t)[i].timeout
  BY DEF PoliciesApart
<1>1. /\ i \in DOMAIN Assigned[t]
      /\ Policies(t)[i].device = Assigned[t][i]
      /\ Policies(t)[i].address = Address[Assigned[t][i]]
      /\ Policies(t)[i].timeout = Timeout[t][Assigned[t][i]]
  BY DEF Enabled, Policies
<1>2. Assigned[t][i] \in Devices
  <2>1. i \in DOMAIN Policies(t)
    BY DEF Enabled
  <2> QED
    BY <1>1, <2>1, PoliciesFacts
<1>3. Home[s].tenant \in Tenants /\ Home[s].device \in Devices
  BY ConfigurationAssumption
<1>4. Home[s].tenant = t /\ Home[s].device = Assigned[t][i]
  BY <1>1, <1>2, <1>3
<1> QED
  BY <1>1, <1>4 DEF Limit

-----------------------------------------------------------------------------
\* What the parts of a step do.

\* What a pass has of its own is not touched by the world around it.
LEMMA PassesStay ==
    ASSUME UNCHANGED <<pc, policy, start, failed, result, outcome>>, LoopInv
    PROVE  LoopInv'
BY DEF LoopInv, Done, Known, result

\* The loop of pass r is where it was, for every pass but r.
LEMMA ReturnFacts ==
    ASSUME TypeOK, NEW r \in Runs, NEW why \in Outcomes, Return(r, why)
    PROVE  /\ pc' \in [Runs -> {"idle", "open", "now", "loop"}]
           /\ policy' \in [Runs -> Nat] /\ start' \in [Runs -> Nat]
           /\ failed' \in [Runs -> BOOLEAN]
           /\ processed' \in [Runs -> Nat] /\ closed' \in [Runs -> Nat]
           /\ tally' \in [Runs -> SUBSET Sessions]
           /\ outcome' \in [Runs -> Outcomes]
           /\ pc'[r] = "idle" /\ policy'[r] = 1 /\ start'[r] = 0 /\ failed'[r] = FALSE
           /\ processed'[r] = 0 /\ closed'[r] = 0 /\ tally'[r] = {}
           /\ \A q \in Runs \ {r} :
                /\ pc'[q] = pc[q] /\ policy'[q] = policy[q] /\ start'[q] = start[q]
                /\ failed'[q] = failed[q] /\ processed'[q] = processed[q]
                /\ closed'[q] = closed[q] /\ tally'[q] = tally[q]
BY DEF TypeOK, Return, Goto

\* A pass that ends, with the world as it was.
LEMMA ReturnStep ==
    ASSUME PassInv, NEW r \in Runs, NEW why \in Outcomes, Return(r, why),
           UNCHANGED <<clock, row>>, faults' \in Nat
    PROVE  PassInv'
<1>0. /\ pc'[r] = "idle" /\ policy'[r] = 1 /\ start'[r] = 0 /\ failed'[r] = FALSE
      /\ processed'[r] = 0 /\ closed'[r] = 0 /\ tally'[r] = {}
      /\ \A q \in Runs \ {r} :
           /\ pc'[q] = pc[q] /\ policy'[q] = policy[q] /\ start'[q] = start[q]
           /\ failed'[q] = failed[q] /\ processed'[q] = processed[q]
           /\ closed'[q] = closed[q] /\ tally'[q] = tally[q]
  BY ReturnFacts DEF PassInv
<1>1. TypeOK'
  BY ReturnFacts DEF PassInv, TypeOK
<1>2. ClockInv'
  BY <1>0 DEF PassInv, TypeOK, ClockInv
<1>3. LoopInv'
  <2> SUFFICES ASSUME NEW q \in Runs
               PROVE  /\ pc'[q] # "idle" =>
                           /\ Known(q)
                           /\ policy'[q] \in 1..(Len(Policies(Tenant[q])) + 1)
                           /\ processed'[q] = Cardinality(Done(q)')
                      /\ pc'[q] # "loop" =>
                           /\ policy'[q] = 1 /\ processed'[q] = 0 /\ closed'[q] = 0
                           /\ tally'[q] = {} /\ ~failed'[q]
    BY DEF LoopInv, Known
  <2>1. CASE q = r
    BY <2>1, <1>0 DEF PassInv
  <2>2. CASE q # r
    <3>1. Done(q)' = Done(q)
      BY <2>2, <1>0 DEF PassInv, Done
    <3> QED
      BY <2>2, <3>1, <1>0 DEF PassInv, LoopInv
  <2> QED
    BY <2>1, <2>2
<1>4. TallyInv'
  <2>1. \A q \in Runs : tally'[q] \subseteq tally[q]
    BY <1>0 DEF PassInv, TypeOK
  <2>2. \A q \in Runs : \A s \in tally[q] : row[s] # NoRow /\ row[s].stop # NoTime
    BY DEF PassInv, TallyInv
  <2> QED
    BY <2>1, <2>2 DEF TallyInv
<1>5. CountsAreHonest'
  <2> SUFFICES ASSUME NEW q \in Runs
               PROVE  /\ closed'[q] <= Cardinality(tally'[q])
                      /\ ~failed'[q] => closed'[q] = Cardinality(tally'[q])
                      /\ \A p \in Runs \ {q} : tally'[q] \cap tally'[p] = {}
    BY DEF CountsAreHonest
  <2>1. \A p \in Runs : tally'[p] \subseteq tally[p]
    BY <1>0 DEF PassInv, TypeOK
  <2>2. \A p \in Runs \ {q} : tally'[q] \cap tally'[p] = {}
    BY <2>1 DEF PassInv, CountsAreHonest
  <2>3. CASE q = r
    BY <2>2, <2>3, <1>0, FS_EmptySet DEF PassInv
  <2>4. CASE q # r
    <3>1. closed'[q] = closed[q] /\ failed'[q] = failed[q] /\ tally'[q] = tally[q]
      BY <2>4, <1>0 DEF PassInv
    <3>2. /\ closed[q] <= Cardinality(tally[q])
          /\ ~failed[q] => closed[q] = Cardinality(tally[q])
      BY DEF PassInv, CountsAreHonest
    <3> QED
      BY <2>2, <3>1, <3>2
  <2> QED
    BY <2>3, <2>4
<1> QED
  BY <1>1, <1>2, <1>3, <1>4, <1>5 DEF PassInv

\* The statement changes open records of the policy's address, and only them.
LEMMA UpdateFacts ==
    ASSUME TypeOK, NEW r \in Runs, CloseAll(r, Matching(r))
    PROVE  /\ row' \in [Sessions -> Rows \cup {NoRow}]
           /\ Matching(r) \in SUBSET Sessions
           /\ \A s \in Matching(r) :
                /\ row[s] # NoRow /\ row[s] \in Rows /\ row[s].stop = NoTime
                /\ row'[s] # NoRow /\ row'[s].update = row[s].update
                /\ row'[s].stop = row[s].update /\ row'[s].stop # NoTime
                /\ row'[s].cause = "Stale-Session"
           /\ \A s \in Sessions \ Matching(r) : row'[s] = row[s]
<1>1. Matching(r) \in SUBSET Sessions
  BY DEF Matching
<1>2. ASSUME NEW s \in Matching(r)
      PROVE  row[s] # NoRow /\ row[s] \in Rows /\ row[s].stop = NoTime
  BY <1>1, <1>2 DEF Matching, TypeOK
<1>3. row' = [s \in Sessions |->
                IF s \in Matching(r)
                  THEN [row[s] EXCEPT !.stop = row[s].update, !.cause = "Stale-Session"]
                  ELSE row[s]]
  BY DEF CloseAll
<1>4. ASSUME NEW s \in Matching(r)
      PROVE  /\ row'[s] \in Rows /\ row'[s].update = row[s].update
             /\ row'[s].stop = row[s].update /\ row'[s].stop \in Nat
             /\ row'[s].cause = "Stale-Session"
  <2>1. row'[s] = [row[s] EXCEPT !.stop = row[s].update, !.cause = "Stale-Session"]
    BY <1>1, <1>3, <1>4
  <2> QED
    BY <2>1, <1>2, <1>4 DEF Rows
<1>5. \A s \in Sessions \ Matching(r) : row'[s] = row[s]
  BY <1>3
<1>6. row' \in [Sessions -> Rows \cup {NoRow}]
  BY <1>1, <1>3, <1>4, <1>5 DEF TypeOK
<1>7. NoTime \notin Nat /\ NoRow \notin Rows
  BY RecordAssumption DEF Rows
<1> QED
  BY <1>1, <1>2, <1>4, <1>5, <1>6, <1>7

\* An enabled policy is counted, and a disabled one is not.
LEMMA DoneStep ==
    ASSUME NEW r \in Runs, Known(r), NEW i \in 1..Len(Policies(Tenant[r])),
           policy[r] = i, policy'[r] = i + 1
    PROVE  /\ Cardinality(Done(r)) \in Nat
           /\ Cardinality(Done(r)') =
                Cardinality(Done(r)) + (IF i \in Enabled(Tenant[r]) THEN 1 ELSE 0)
<1>1. /\ IsFiniteSet(Enabled(Tenant[r]))
      /\ Enabled(Tenant[r]) \subseteq 1..Len(Policies(Tenant[r]))
      /\ Len(Policies(Tenant[r])) \in Nat
  BY EnabledFacts, PoliciesFacts DEF Known
<1>2. Done(r) \in SUBSET Enabled(Tenant[r]) /\ i \notin Done(r)
  BY <1>1 DEF Done
<1>3. IsFiniteSet(Done(r)) /\ Cardinality(Done(r)) \in Nat
  BY <1>1, <1>2, FS_Subset, FS_CardinalityType
<1>4. Done(r)' = {j \in Enabled(Tenant[r]) : j < i + 1}
  BY DEF Done
<1>5. CASE i \in Enabled(Tenant[r])
  <2>1. Done(r)' = Done(r) \cup {i}
    BY <1>1, <1>4, <1>5 DEF Done
  <2> QED
    BY <1>2, <1>3, <1>5, <2>1, FS_AddElement
<1>6. CASE i \notin Enabled(Tenant[r])
  <2>1. Done(r)' = Done(r)
    BY <1>1, <1>4, <1>6 DEF Done
  <2> QED
    BY <1>3, <1>6, <2>1
<1> QED
  BY <1>5, <1>6

-----------------------------------------------------------------------------
\* Steps that keep PassInv.

LEMMA TickStep == ASSUME PassInv, Tick PROVE PassInv'
<1>1. TypeOK'
  BY DEF PassInv, TypeOK, Tick, result
<1>2. ClockInv'
  BY DEF PassInv, TypeOK, ClockInv, Tick
<1>3. LoopInv'
  BY PassesStay DEF PassInv, Tick
<1>4. TallyInv' /\ CountsAreHonest'
  BY DEF PassInv, TallyInv, CountsAreHonest, Tick, result
<1> QED
  BY <1>1, <1>2, <1>3, <1>4 DEF PassInv

LEMMA NASStep ==
    ASSUME PassInv, NEW s \in Sessions, NASStart(s) \/ NASUpdate(s) \/ NASStop(s)
    PROVE  PassInv'
<1>1. /\ UNCHANGED <<clock, faults, pc, policy, start, failed, result, outcome>>
      /\ row' \in [Sessions -> Rows \cup {NoRow}]
      /\ \A u \in Sessions : row[u] # NoRow /\ row[u].stop # NoTime =>
                                 row'[u] # NoRow /\ row'[u].stop # NoTime
  <2>1. NoTime \notin Nat /\ NoRow \notin Rows /\ clock \in Nat
        /\ row \in [Sessions -> Rows \cup {NoRow}]
    BY RecordAssumption DEF Rows, PassInv, TypeOK
  <2>2. CASE NASStart(s)
    <3>1. [update |-> clock, stop |-> NoTime, cause |-> "none"] \in Rows
      BY <2>1 DEF Rows
    <3> QED
      BY <2>1, <2>2, <3>1 DEF NASStart
  <2>3. CASE NASUpdate(s)
    <3>1. row[s] \in Rows /\ row' = [row EXCEPT ![s] = [@ EXCEPT !.update = clock]]
      BY <2>1, <2>3 DEF NASUpdate
    <3>2. [row[s] EXCEPT !.update = clock] \in Rows
          /\ [row[s] EXCEPT !.update = clock].stop = row[s].stop
      BY <2>1, <3>1 DEF Rows
    <3> QED
      BY <2>1, <2>3, <3>1, <3>2 DEF NASUpdate
  <2>4. CASE NASStop(s)
    <3>1. row[s] \in Rows
      BY <2>1, <2>4 DEF NASStop
    <3>2. [row[s] EXCEPT !.stop = clock, !.cause = "NAS"] \in Rows
          /\ [row[s] EXCEPT !.stop = clock, !.cause = "NAS"].stop = clock
      BY <2>1, <3>1 DEF Rows
    <3> QED
      BY <2>1, <2>4, <3>1, <3>2 DEF NASStop
  <2> QED
    BY <2>2, <2>3, <2>4
<1>2. TypeOK'
  BY <1>1 DEF PassInv, TypeOK, result
<1>3. ClockInv' /\ LoopInv'
  BY <1>1, PassesStay DEF PassInv, ClockInv
<1>4. TallyInv'
  <2>1. \A r \in Runs : tally'[r] = tally[r] /\ tally[r] \subseteq Sessions
    BY <1>1 DEF PassInv, TypeOK, result
  <2> QED
    BY <1>1, <2>1 DEF PassInv, TallyInv
<1>5. CountsAreHonest'
  BY <1>1 DEF PassInv, CountsAreHonest, result
<1> QED
  BY <1>2, <1>3, <1>4, <1>5 DEF PassInv

LEMMA BeginStep == ASSUME PassInv, NEW r \in Runs, Begin(r) PROVE PassInv'
<1>0. UNCHANGED <<clock, row>> /\ faults' \in Nat
  BY DEF Begin, world, PassInv, TypeOK
<1>1. CASE Return(r, "refused") \/ Return(r, "notEnabled")
  BY <1>0, <1>1, ReturnStep DEF Outcomes
<1>2. CASE /\ Known(r)
           /\ Goto(r, "open")
           /\ UNCHANGED <<policy, start, failed, result, outcome>>
  <2>1. TypeOK'
    BY <1>0, <1>2 DEF PassInv, TypeOK, Goto, result
  <2>2. ClockInv' /\ TallyInv' /\ CountsAreHonest'
    BY <1>0, <1>2 DEF PassInv, ClockInv, TallyInv, CountsAreHonest, result
  <2>3. LoopInv'
    <3>1. /\ pc' = [pc EXCEPT ![r] = "open"] /\ pc \in [Runs -> {"idle", "open", "now", "loop"}]
          /\ pc[r] = "idle"
      BY <1>2 DEF Goto, PassInv, TypeOK, Begin
    <3>2. /\ policy[r] = 1 /\ processed[r] = 0 /\ closed[r] = 0 /\ tally[r] = {} /\ ~failed[r]
      BY <3>1 DEF PassInv, LoopInv
    <3>3. Len(Policies(Tenant[r])) \in Nat /\ Done(r) = {}
      BY <1>2, <3>2, PoliciesFacts, EnabledFacts DEF Known, Done
    <3>4. Cardinality(Done(r)) = 0
      BY <3>3, FS_EmptySet
    <3>5. \A q \in Runs : Done(q)' = Done(q)
      BY <1>2 DEF Done
    <3>6. ASSUME NEW q \in Runs, q # r PROVE pc'[q] = pc[q]
      BY <3>1, <3>6
    <3>7. pc'[r] = "open"
      BY <3>1
    <3> SUFFICES ASSUME NEW q \in Runs
                 PROVE  /\ pc'[q] # "idle" =>
                             /\ Known(q)
                             /\ policy[q] \in 1..(Len(Policies(Tenant[q])) + 1)
                             /\ processed[q] = Cardinality(Done(q))
                        /\ pc'[q] # "loop" =>
                             /\ policy[q] = 1 /\ processed[q] = 0 /\ closed[q] = 0
                             /\ tally[q] = {} /\ ~failed[q]
      BY <1>2, <3>5 DEF LoopInv, Known, result
    <3>8. CASE q = r
      <4>1. 1 \in 1..(Len(Policies(Tenant[r])) + 1)
        BY <3>3
      <4> QED
        BY <1>2, <3>2, <3>4, <3>7, <3>8, <4>1
    <3>9. CASE q # r
      BY <3>6, <3>9 DEF PassInv, LoopInv
    <3> QED
      BY <3>8, <3>9
  <2> QED
    BY <2>1, <2>2, <2>3 DEF PassInv
<1> QED
  BY <1>1, <1>2 DEF Begin

\* A pass goes from one place before the loop to the next.
LEMMA MoveStep ==
    ASSUME PassInv, NEW r \in Runs, NEW l \in {"now", "loop"},
           pc[r] \in {"open", "now"}, Goto(r, l),
           UNCHANGED <<clock, row, faults, policy, failed, result, outcome>>,
           start' \in [Runs -> Nat], \A q \in Runs : start'[q] <= clock
    PROVE  PassInv'
<1>1. TypeOK'
  BY DEF PassInv, TypeOK, Goto, result
<1>2. ClockInv' /\ TallyInv' /\ CountsAreHonest'
  BY DEF PassInv, ClockInv, TallyInv, CountsAreHonest, result
<1>3. LoopInv'
  <2>1. pc' = [pc EXCEPT ![r] = l] /\ pc \in [Runs -> {"idle", "open", "now", "loop"}]
    BY DEF Goto, PassInv, TypeOK
  <2>2. \A q \in Runs : Done(q)' = Done(q)
    BY DEF Done
  <2> QED
    BY <2>1, <2>2 DEF PassInv, LoopInv, Known, result
<1> QED
  BY <1>1, <1>2, <1>3 DEF PassInv

LEMMA OpenMySQLStep == ASSUME PassInv, NEW r \in Runs, OpenMySQL(r) PROVE PassInv'
<1>1. CASE Goto(r, "now") /\ UNCHANGED <<faults, policy, start, failed, result, outcome>>
  <2>1. start' \in [Runs -> Nat] /\ \A q \in Runs : start'[q] <= clock
    BY <1>1 DEF PassInv, TypeOK, ClockInv
  <2> QED
    BY <1>1, <2>1, MoveStep DEF OpenMySQL
<1>2. CASE Fault("database") /\ Return(r, "noDatabase")
  <2>1. UNCHANGED <<clock, row>> /\ faults' \in Nat
    BY <1>2 DEF OpenMySQL, Fault, PassInv, TypeOK
  <2> QED
    BY <1>2, <2>1, ReturnStep DEF Outcomes
<1> QED
  BY <1>1, <1>2 DEF OpenMySQL

LEMMA TakeTimeStep == ASSUME PassInv, NEW r \in Runs, TakeTime(r) PROVE PassInv'
<1>1. start' \in [Runs -> Nat] /\ \A q \in Runs : start'[q] <= clock
  BY DEF TakeTime, PassInv, TypeOK, ClockInv
<1> QED
  BY <1>1, MoveStep DEF TakeTime, world

\* What an iteration of the loop does to the other passes: nothing.
Iterates(r) ==
    /\ InLoop(r)
    /\ Continue(r)
    /\ UNCHANGED <<clock, pc, start, outcome>>
    /\ faults' \in Nat
    /\ processed' = [processed EXCEPT ![r] = @ + (IF Current(r).timeout = Disabled THEN 0 ELSE 1)]
    /\ failed' \in [Runs -> BOOLEAN]
    /\ failed[r] => failed'[r]
    /\ closed' \in [Runs -> Nat]
    /\ tally' \in [Runs -> SUBSET Sessions]
    /\ \A q \in Runs \ {r} : failed'[q] = failed[q] /\ closed'[q] = closed[q] /\ tally'[q] = tally[q]

LEMMA IterationStep ==
    ASSUME PassInv, NEW r \in Runs, Iterates(r),
           row' \in [Sessions -> Rows \cup {NoRow}], TallyInv', CountsAreHonest'
    PROVE  PassInv'
<1>1. /\ pc[r] = "loop" /\ Known(r)
      /\ policy \in [Runs -> Nat] /\ processed \in [Runs -> Nat]
      /\ policy[r] \in 1..Len(Policies(Tenant[r])) /\ Len(Policies(Tenant[r])) \in Nat
  BY PoliciesFacts DEF Iterates, InLoop, PassInv, TypeOK, LoopInv, Known
<1>2. policy' = [policy EXCEPT ![r] = @ + 1]
  BY DEF Iterates, Continue
<1>3. policy[r] \in Enabled(Tenant[r]) <=> Current(r).timeout # Disabled
  <2>1. policy[r] \in DOMAIN Policies(Tenant[r])
    BY <1>1, PoliciesFacts DEF Known
  <2> QED
    BY <2>1 DEF Enabled, Current
<1>4. TypeOK'
  BY <1>1, <1>2 DEF PassInv, TypeOK, Iterates
<1>5. ClockInv'
  BY DEF PassInv, ClockInv, Iterates
<1>6. LoopInv'
  <2> SUFFICES ASSUME NEW q \in Runs
               PROVE  /\ pc[q] # "idle" =>
                           /\ Known(q)
                           /\ policy'[q] \in 1..(Len(Policies(Tenant[q])) + 1)
                           /\ processed'[q] = Cardinality(Done(q)')
                      /\ pc[q] # "loop" =>
                           /\ policy'[q] = 1 /\ processed'[q] = 0 /\ closed'[q] = 0
                           /\ tally'[q] = {} /\ ~failed'[q]
    BY DEF LoopInv, Known, Iterates
  <2>1. CASE q = r
    <3>1. processed[r] = Cardinality(Done(r))
      BY <1>1 DEF PassInv, LoopInv
    <3>2. policy'[r] = policy[r] + 1
      BY <1>1, <1>2
    <3>3. Cardinality(Done(r)') =
            Cardinality(Done(r)) + (IF policy[r] \in Enabled(Tenant[r]) THEN 1 ELSE 0)
      BY <1>1, <3>2, DoneStep
    <3>4. processed'[r] = processed[r] + (IF Current(r).timeout = Disabled THEN 0 ELSE 1)
      BY <1>1 DEF Iterates
    <3>5. processed'[r] = Cardinality(Done(r)')
      BY <1>3, <3>1, <3>3, <3>4
    <3> QED
      BY <1>1, <2>1, <3>2, <3>5
  <2>2. CASE q # r
    <3>1. policy'[q] = policy[q] /\ processed'[q] = processed[q] /\ closed'[q] = closed[q]
          /\ tally'[q] = tally[q] /\ failed'[q] = failed[q]
      BY <1>1, <1>2, <2>2 DEF Iterates
    <3>2. Done(q)' = Done(q)
      BY <3>1 DEF Done
    <3> QED
      BY <3>1, <3>2 DEF PassInv, LoopInv
  <2> QED
    BY <2>1, <2>2
<1> QED
  BY <1>4, <1>5, <1>6 DEF PassInv

\* No record is changed, and an error may be added.
LEMMA NothingClosed ==
    ASSUME PassInv, NEW r \in Runs, Iterates(r), UNCHANGED <<row, tally, closed>>
    PROVE  PassInv'
<1>1. TallyInv'
  BY DEF PassInv, TallyInv
<1>2. CountsAreHonest'
  <2>1. \A q \in Runs : ~failed'[q] => ~failed[q]
    <3>1. (failed[r] => failed'[r]) /\ \A q \in Runs \ {r} : failed'[q] = failed[q]
      BY DEF Iterates
    <3> QED
      BY <3>1
  <2> QED
    BY <2>1 DEF PassInv, CountsAreHonest
<1>3. row' \in [Sessions -> Rows \cup {NoRow}]
  BY DEF PassInv, TypeOK
<1> QED
  BY <1>1, <1>2, <1>3, IterationStep

\* The statement is applied: what it closes was open, so that no pass has it
\* in its tally, and the count grows by as many, or there is an error.
LEMMA SomeClosed ==
    ASSUME PassInv, NEW r \in Runs, Iterates(r), CloseAll(r, Matching(r)),
           tally' = [tally EXCEPT ![r] = @ \cup Matching(r)],
           \/ closed' = [closed EXCEPT ![r] = @ + Cardinality(Matching(r))]
           \/ UNCHANGED closed /\ failed'[r]
    PROVE  PassInv'
<1>1. /\ row' \in [Sessions -> Rows \cup {NoRow}]
      /\ Matching(r) \in SUBSET Sessions
      /\ \A s \in Matching(r) : row[s].stop = NoTime /\ row'[s] # NoRow /\ row'[s].stop # NoTime
      /\ \A s \in Sessions \ Matching(r) : row'[s] = row[s]
  BY UpdateFacts DEF PassInv
<1>2. /\ tally \in [Runs -> SUBSET Sessions]
      /\ tally'[r] = tally[r] \cup Matching(r)
      /\ \A q \in Runs \ {r} : tally'[q] = tally[q]
  BY DEF PassInv, TypeOK
<1>3. \A q \in Runs : \A s \in tally[q] : row[s] # NoRow /\ row[s].stop # NoTime
  BY DEF PassInv, TallyInv
<1>4. \A q \in Runs : tally[q] \cap Matching(r) = {}
  BY <1>1, <1>3
<1>5. TallyInv'
  <2> SUFFICES ASSUME NEW q \in Runs, NEW s \in tally'[q]
               PROVE  row'[s] # NoRow /\ row'[s].stop # NoTime
    BY DEF TallyInv
  <2>1. s \in Sessions
    BY <1>1, <1>2
  <2>2. CASE s \in Matching(r)
    BY <1>1, <2>2
  <2>3. CASE s \notin Matching(r)
    BY <1>1, <1>2, <1>3, <2>1, <2>3
  <2> QED
    BY <2>2, <2>3
<1>6. CountsAreHonest'
  <2>1. /\ IsFiniteSet(tally[r]) /\ IsFiniteSet(Matching(r))
        /\ Cardinality(tally[r]) \in Nat /\ Cardinality(Matching(r)) \in Nat
    BY <1>1, <1>2, RecordAssumption, FS_Subset, FS_CardinalityType
  <2>2. Cardinality(tally'[r]) = Cardinality(tally[r]) + Cardinality(Matching(r))
    <3>1. Cardinality(tally[r] \cap Matching(r)) = 0
      BY <1>4, FS_EmptySet
    <3>2. Cardinality(tally[r] \cup Matching(r)) =
            Cardinality(tally[r]) + Cardinality(Matching(r)) - Cardinality(tally[r] \cap Matching(r))
      BY <2>1, FS_Union
    <3> QED
      BY <1>2, <2>1, <3>1, <3>2
  <2>3. /\ closed \in [Runs -> Nat]
        /\ \A q \in Runs :
             /\ closed[q] <= Cardinality(tally[q])
             /\ ~failed[q] => closed[q] = Cardinality(tally[q])
             /\ \A p \in Runs \ {q} : tally[q] \cap tally[p] = {}
    BY DEF PassInv, TypeOK, CountsAreHonest
  <2>4. /\ closed'[r] <= Cardinality(tally'[r])
        /\ ~failed'[r] => closed'[r] = Cardinality(tally'[r])
    <3>1. ~failed'[r] => ~failed[r]
      BY DEF Iterates
    <3>2. CASE closed' = [closed EXCEPT ![r] = @ + Cardinality(Matching(r))]
      <4>1. closed'[r] = closed[r] + Cardinality(Matching(r)) /\ closed[r] \in Nat
        BY <2>3, <3>2
      <4> QED
        BY <2>1, <2>2, <2>3, <3>1, <4>1
    <3>3. CASE UNCHANGED closed /\ failed'[r]
      <4>1. closed'[r] = closed[r] /\ closed[r] \in Nat
        BY <2>3, <3>3
      <4> QED
        BY <2>1, <2>2, <2>3, <3>3, <4>1
    <3> QED
      BY <3>2, <3>3
  <2>5. \A q \in Runs \ {r} :
          /\ closed'[q] = closed[q] /\ failed'[q] = failed[q] /\ tally'[q] = tally[q]
    BY DEF Iterates
  <2>6. \A q \in Runs : \A p \in Runs \ {q} : tally'[q] \cap tally'[p] = {}
    BY <1>2, <1>4, <2>3
  <2> QED
    BY <2>3, <2>4, <2>5, <2>6 DEF CountsAreHonest
<1> QED
  BY <1>1, <1>5, <1>6, IterationStep

-----------------------------------------------------------------------------
LEMMA SkipStep == ASSUME PassInv, NEW r \in Runs, Skip(r) PROVE PassInv'
<1>1. /\ Current(r).timeout = Disabled /\ InLoop(r) /\ Continue(r)
      /\ UNCHANGED <<clock, row, faults, pc, start, failed, processed, closed, tally, outcome>>
  BY DEF Skip, world, result
<1>2. /\ faults \in Nat /\ failed \in [Runs -> BOOLEAN] /\ processed \in [Runs -> Nat]
      /\ closed \in [Runs -> Nat] /\ tally \in [Runs -> SUBSET Sessions]
  BY DEF PassInv, TypeOK
<1>3. processed' = [processed EXCEPT ![r] = @ + 0]
  BY <1>1, <1>2
<1>4. Iterates(r)
  BY <1>1, <1>2, <1>3 DEF Iterates
<1> QED
  BY <1>1, <1>4, NothingClosed

LEMMA ExecStep == ASSUME PassInv, NEW r \in Runs, Exec(r) PROVE PassInv'
<1>1. /\ InLoop(r) /\ Continue(r) /\ Current(r).timeout # Disabled
      /\ UNCHANGED <<clock, pc, start, outcome>>
      /\ processed' = [processed EXCEPT ![r] = @ + 1]
      /\ CloseAll(r, Matching(r))
      /\ tally' = [tally EXCEPT ![r] = @ \cup Matching(r)]
  BY DEF Exec
<1>2. /\ faults \in Nat /\ failed \in [Runs -> BOOLEAN]
      /\ closed \in [Runs -> Nat] /\ tally \in [Runs -> SUBSET Sessions]
  BY DEF PassInv, TypeOK
<1>3. Matching(r) \in SUBSET Sessions /\ Cardinality(Matching(r)) \in Nat
  BY RecordAssumption, FS_Subset, FS_CardinalityType DEF Matching
<1>4. /\ tally' \in [Runs -> SUBSET Sessions]
      /\ \A q \in Runs \ {r} : tally'[q] = tally[q]
  BY <1>1, <1>2, <1>3
<1>5. CASE /\ closed' = [closed EXCEPT ![r] = @ + Cardinality(Matching(r))]
           /\ UNCHANGED <<failed, faults>>
  <2>1. closed' \in [Runs -> Nat] /\ \A q \in Runs \ {r} : closed'[q] = closed[q]
    BY <1>2, <1>3, <1>5
  <2>2. Iterates(r)
    BY <1>1, <1>2, <1>4, <1>5, <2>1 DEF Iterates
  <2> QED
    BY <1>1, <1>5, <2>2, SomeClosed
<1>6. CASE /\ Fault("database")
           /\ failed' = [failed EXCEPT ![r] = TRUE]
           /\ UNCHANGED closed
  <2>1. faults' \in Nat
    BY <1>2, <1>6 DEF Fault
  <2>2. failed' \in [Runs -> BOOLEAN] /\ failed'[r] /\ \A q \in Runs \ {r} : failed'[q] = failed[q]
    BY <1>2, <1>6
  <2>3. Iterates(r)
    BY <1>1, <1>2, <1>4, <1>6, <2>1, <2>2 DEF Iterates
  <2> QED
    BY <1>1, <1>6, <2>2, <2>3, SomeClosed
<1> QED
  BY <1>5, <1>6 DEF Exec

LEMMA ExecFailsStep == ASSUME PassInv, NEW r \in Runs, ExecFails(r) PROVE PassInv'
<1>1. /\ InLoop(r) /\ Continue(r) /\ Current(r).timeout # Disabled
      /\ UNCHANGED <<clock, pc, start, closed, outcome>>
      /\ processed' = [processed EXCEPT ![r] = @ + 1]
      /\ failed' = [failed EXCEPT ![r] = TRUE]
  BY DEF ExecFails, AfterError
<1>2. /\ faults \in Nat /\ failed \in [Runs -> BOOLEAN]
      /\ closed \in [Runs -> Nat] /\ tally \in [Runs -> SUBSET Sessions]
  BY DEF PassInv, TypeOK
<1>3. failed' \in [Runs -> BOOLEAN] /\ failed'[r] /\ \A q \in Runs \ {r} : failed'[q] = failed[q]
  BY <1>1, <1>2
<1>4. faults' \in Nat
  BY <1>2 DEF ExecFails, Fault
<1>5. CASE UNCHANGED <<row, tally>>
  <2>1. Iterates(r)
    BY <1>1, <1>2, <1>3, <1>4, <1>5 DEF Iterates
  <2> QED
    BY <1>1, <1>5, <2>1, NothingClosed
<1>6. CASE CloseAll(r, Matching(r)) /\ tally' = [tally EXCEPT ![r] = @ \cup Matching(r)]
  <2>1. Matching(r) \in SUBSET Sessions
    BY DEF Matching
  <2>2. tally' \in [Runs -> SUBSET Sessions] /\ \A q \in Runs \ {r} : tally'[q] = tally[q]
    BY <1>2, <1>6, <2>1
  <2>3. Iterates(r)
    BY <1>1, <1>2, <1>3, <1>4, <2>2 DEF Iterates
  <2> QED
    BY <1>1, <1>3, <1>6, <2>3, SomeClosed
<1> QED
  BY <1>5, <1>6 DEF ExecFails

LEMMA FinishStep == ASSUME PassInv, NEW r \in Runs, Finish(r) PROVE PassInv'
<1>1. UNCHANGED <<clock, row>> /\ faults' \in Nat
  BY DEF Finish, world, PassInv, TypeOK
<1>2. PICK why \in {"errors", "ok"} : Return(r, why)
  BY DEF Finish
<1> QED
  BY <1>1, <1>2, ReturnStep DEF Outcomes

LEMMA CrashStep == ASSUME PassInv, NEW r \in Runs, Crash(r) PROVE PassInv'
<1>1. UNCHANGED <<clock, row>> /\ faults' \in Nat
  BY DEF Crash, Fault, PassInv, TypeOK
<1> QED
  BY <1>1, ReturnStep DEF Crash, Outcomes

LEMMA StutterStep == ASSUME PassInv, UNCHANGED vars PROVE PassInv'
<1>1. UNCHANGED <<clock, row, faults, pc, policy, start, failed, result, outcome>>
  BY DEF vars, result
<1> QED
  BY <1>1, PassesStay
  DEF PassInv, TypeOK, ClockInv, TallyInv, CountsAreHonest, result

LEMMA PassInvInit == Init => PassInv
<1> SUFFICES ASSUME Init PROVE PassInv
  OBVIOUS
<1>1. TypeOK
  BY DEF Init, TypeOK, Outcomes
<1>2. ClockInv /\ LoopInv /\ TallyInv
  BY DEF Init, ClockInv, LoopInv, TallyInv
<1>3. CountsAreHonest
  BY FS_EmptySet DEF Init, CountsAreHonest
<1> QED
  BY <1>1, <1>2, <1>3 DEF PassInv

LEMMA PassInvStep == PassInv /\ [Next]_vars => PassInv'
<1> SUFFICES ASSUME PassInv, [Next]_vars PROVE PassInv'
  OBVIOUS
<1>1. CASE Tick
  BY <1>1, TickStep
<1>2. CASE NAS
  BY <1>2, NASStep DEF NAS
<1>3. ASSUME NEW r \in Runs, Begin(r) \/ Work(r) \/ Crash(r) PROVE PassInv'
  <2>1. CASE Begin(r)
    BY <2>1, BeginStep
  <2>2. CASE OpenMySQL(r)
    BY <2>2, OpenMySQLStep
  <2>3. CASE TakeTime(r)
    BY <2>3, TakeTimeStep
  <2>4. CASE Skip(r)
    BY <2>4, SkipStep
  <2>5. CASE Exec(r)
    BY <2>5, ExecStep
  <2>6. CASE ExecFails(r)
    BY <2>6, ExecFailsStep
  <2>7. CASE Finish(r)
    BY <2>7, FinishStep
  <2>8. CASE Crash(r)
    BY <2>8, CrashStep
  <2> QED
    BY <1>3, <2>1, <2>2, <2>3, <2>4, <2>5, <2>6, <2>7, <2>8 DEF Work
<1>4. CASE UNCHANGED vars
  BY <1>4, StutterStep
<1> QED
  BY <1>1, <1>2, <1>3, <1>4 DEF Next

\* The strengthening of the invariants of Accounting: passes read the clock
\* once, count the policies they have left behind, and tally closed records.
THEOREM PassInvariant == Spec => []PassInv
<1> QED
  BY PassInvInit, PassInvStep, PTL DEF Spec

\* The state of passes and records is what the types say: no stop time is read
\* as NULL, and no record vanishes.
THEOREM AccountingTypeCorrect == Spec => []TypeOK
<1>1. PassInv => TypeOK
  BY DEF PassInv
<1> QED
  BY <1>1, PassInvariant, PTL

\* result.SessionsClosed is the number of sessions the pass has closed, and no
\* session is counted by two passes, however passes overlap and fail.
THEOREM CountsStayHonest == Spec => []CountsAreHonest
<1>1. PassInv => CountsAreHonest
  BY DEF PassInv
<1> QED
  BY <1>1, PassInvariant, PTL

-----------------------------------------------------------------------------
\* Passes.

\* A pass leaves the loop only at its end or by a crash.
LEMMA LoopEnds ==
    ASSUME PassInv, [Next]_vars, NEW r \in Runs,
           pc[r] = "loop", pc'[r] = "idle", outcome'[r] # "crashed"
    PROVE  Finish(r)
<1>1. pc \in [Runs -> {"idle", "open", "now", "loop"}] /\ outcome \in [Runs -> Outcomes]
  BY DEF PassInv, TypeOK
<1>2. ASSUME NEW q \in Runs, q # r, Begin(q) \/ Work(q) \/ Crash(q) PROVE FALSE
  <2>1. pc' = pc \/ \E l \in {"idle", "open", "now", "loop"} : Goto(q, l)
    BY <1>2 DEF Begin, Work, Crash, OpenMySQL, TakeTime, Skip, Exec, ExecFails, Finish, Return
  <2> QED
    BY <1>1, <1>2, <2>1 DEF Goto
<1>3. ~Begin(r) /\ ~OpenMySQL(r) /\ ~TakeTime(r)
  BY DEF Begin, OpenMySQL, TakeTime
<1>4. ~Skip(r) /\ ~Exec(r) /\ ~ExecFails(r)
  BY DEF Skip, Exec, ExecFails
<1>5. ~Crash(r)
  BY <1>1 DEF Crash, Return
<1>6. ~Tick /\ ~NAS /\ ~(UNCHANGED vars)
  BY DEF Tick, NAS, NASStart, NASUpdate, NASStop, vars
<1> QED
  BY <1>2, <1>3, <1>4, <1>5, <1>6 DEF Next, Work

\* A pass that ends by itself has dealt with every enabled policy once.
THEOREM PassesAreComplete == Spec => EveryPolicyProcessed
<1>1. PassInv /\ [Next]_vars =>
        \A r \in Runs :
            pc[r] = "loop" /\ pc'[r] = "idle" /\ outcome'[r] # "crashed" =>
                processed[r] = Cardinality(Enabled(Tenant[r]))
  <2> SUFFICES ASSUME PassInv, [Next]_vars, NEW r \in Runs,
                      pc[r] = "loop", pc'[r] = "idle", outcome'[r] # "crashed"
               PROVE  processed[r] = Cardinality(Enabled(Tenant[r]))
    OBVIOUS
  <2>1. ~(policy[r] <= Len(Policies(Tenant[r])))
    BY LoopEnds DEF Finish, InLoop
  <2>2. /\ Known(r)
        /\ policy[r] \in 1..(Len(Policies(Tenant[r])) + 1)
        /\ processed[r] = Cardinality(Done(r))
    BY DEF PassInv, LoopInv
  <2>3. Enabled(Tenant[r]) \subseteq 1..Len(Policies(Tenant[r]))
        /\ Len(Policies(Tenant[r])) \in Nat
    BY <2>2, EnabledFacts, PoliciesFacts DEF Known
  <2>4. Done(r) = Enabled(Tenant[r])
    BY <2>1, <2>2, <2>3 DEF Done
  <2> QED
    BY <2>2, <2>4
<1> QED
  BY <1>1, PassInvariant, PTL DEF Spec, EveryPolicyProcessed

-----------------------------------------------------------------------------
\* Records.

\* What the UPDATE of a policy closes is stale under the session's own limit.
LEMMA MatchingIsStale ==
    ASSUME PoliciesApart, PassInv, NEW r \in Runs, InLoop(r),
           Current(r).timeout # Disabled, NEW s \in Matching(r)
    PROVE  s \in Sessions /\ Promise!Stale(s)
<1>1. /\ s \in Sessions /\ row[s] # NoRow /\ row[s].stop = NoTime
      /\ Database[Home[s].tenant] = Database[Tenant[r]]
      /\ Address[Home[s].device] = Current(r).address
      /\ row[s].update < start[r] - Current(r).timeout
  BY DEF Matching
<1>2. Known(r) /\ policy[r] \in 1..(Len(Policies(Tenant[r])) + 1)
      /\ policy[r] <= Len(Policies(Tenant[r]))
  BY DEF PassInv, LoopInv, InLoop
<1>3. policy[r] \in Enabled(Tenant[r])
  <2>1. policy[r] \in DOMAIN Policies(Tenant[r])
    BY <1>2, PoliciesFacts DEF Known
  <2> QED
    BY <2>1 DEF Enabled, Current
<1>4. Limit[s] = Current(r).timeout /\ Current(r).timeout \in Nat
  BY <1>1, <1>2, <1>3, EnabledFacts DEF PoliciesApart, Current, Known
<1>5. /\ row[s].update \in Nat /\ start[r] \in Nat /\ clock \in Nat /\ start[r] <= clock
  <2>1. row[s] \in Rows
    BY <1>1 DEF PassInv, TypeOK
  <2> QED
    BY <2>1 DEF PassInv, TypeOK, ClockInv, Rows
<1>6. row[s].update + Limit[s] < clock
  BY <1>1, <1>4, <1>5
<1> QED
  BY <1>1, <1>4, <1>6 DEF Promise!Stale, Promise!IsOpen

\* Every step is a step of the promise, or leaves clock and records alone.
LEMMA PromiseStep ==
    ASSUME PoliciesApart, PassInv, [Next]_vars
    PROVE  [Promise!Next]_<<clock, row>>
<1>1. CASE Tick
  BY <1>1 DEF Tick, Promise!Next, Promise!Tick
<1>2. CASE NAS
  <2>1. PICK s \in Sessions : NASStart(s) \/ NASUpdate(s) \/ NASStop(s)
    BY <1>2 DEF NAS
  <2>2. CASE NASStart(s)
    <3>1. Promise!NASStart(s)
      BY <2>2 DEF NASStart, Promise!NASStart, Promise!Opened
    <3> QED
      BY <3>1 DEF Promise!Next
  <2>3. CASE NASUpdate(s)
    <3>1. Promise!NASUpdate(s)
      BY <2>3 DEF NASUpdate, Promise!NASUpdate
    <3> QED
      BY <3>1 DEF Promise!Next
  <2>4. CASE NASStop(s)
    <3>1. Promise!NASStop(s)
      BY <2>4 DEF NASStop, Promise!NASStop
    <3> QED
      BY <3>1 DEF Promise!Next
  <2> QED
    BY <2>1, <2>2, <2>3, <2>4
<1>3. ASSUME NEW r \in Runs, InLoop(r), Current(r).timeout # Disabled,
             CloseAll(r, Matching(r)), UNCHANGED clock
      PROVE  Promise!Next
  <2>1. Matching(r) \in SUBSET Sessions /\ \A s \in Matching(r) : Promise!Stale(s)
    BY <1>3, MatchingIsStale
  <2>2. Promise!Close(Matching(r))
    BY <1>3, <2>1 DEF CloseAll, Promise!Close
  <2> QED
    BY <2>1, <2>2 DEF Promise!Next
<1>4. ASSUME NEW r \in Runs, Begin(r) \/ Work(r) \/ Crash(r)
      PROVE  [Promise!Next]_<<clock, row>>
  <2>1. CASE Begin(r) \/ OpenMySQL(r) \/ TakeTime(r) \/ Skip(r) \/ Finish(r) \/ Crash(r)
    BY <2>1 DEF Begin, OpenMySQL, TakeTime, Skip, Finish, Crash, world
  <2>2. CASE Exec(r)
    BY <1>3, <2>2 DEF Exec
  <2>3. CASE ExecFails(r)
    BY <1>3, <2>3 DEF ExecFails
  <2> QED
    BY <1>4, <2>1, <2>2, <2>3 DEF Work
<1>5. CASE UNCHANGED vars
  BY <1>5 DEF vars
<1> QED
  BY <1>1, <1>2, <1>4, <1>5 DEF Next

\* Accounting implements StaleSessions: whatever passes overlap, fail or die,
\* they close stale records of their own assignment and nothing else.
THEOREM PassesKeepPromise == ASSUME PoliciesApart PROVE Spec => PromiseKept
<1>1. Init => Promise!Init
  BY DEF Init, Promise!Init
<1>2. PassInv /\ [Next]_vars => [Promise!Next]_<<clock, row>>
  BY PromiseStep
<1> QED
  BY <1>1, <1>2, PassInvariant, PTL DEF Spec, PromiseKept, Promise!Spec

\* The NAS writes its own causes, and maintenance closes under a timeout.
LEMMA CausesStay ==
    ASSUME PoliciesApart, PassInv, NoTimeoutNoCleanup, [Next]_vars
    PROVE  NoTimeoutNoCleanup'
<1>0. NoTimeoutNoCleanup' <=>
        \A s \in Sessions :
            row'[s] # NoRow => (row'[s].cause = "Stale-Session" => Limit[s] # Disabled)
  BY DEF NoTimeoutNoCleanup, Limit
<1>1. CASE UNCHANGED row
  BY <1>0, <1>1 DEF NoTimeoutNoCleanup
<1>2. row \in [Sessions -> Rows \cup {NoRow}]
  BY DEF PassInv, TypeOK
<1>3. ASSUME NEW s \in Sessions, Promise!NASStart(s) PROVE NoTimeoutNoCleanup'
  BY <1>0, <1>2, <1>3 DEF Promise!NASStart, Promise!Opened, NoTimeoutNoCleanup
<1>4. ASSUME NEW s \in Sessions, Promise!NASUpdate(s) PROVE NoTimeoutNoCleanup'
  <2>1. row[s] \in Rows /\ row[s] # NoRow
    BY <1>2, <1>4 DEF Promise!NASUpdate
  <2>2. row'[s].cause = row[s].cause /\ \A u \in Sessions \ {s} : row'[u] = row[u]
    BY <1>2, <1>4, <2>1 DEF Promise!NASUpdate, Rows
  <2> QED
    BY <1>0, <2>1, <2>2 DEF NoTimeoutNoCleanup
<1>5. ASSUME NEW s \in Sessions, Promise!NASStop(s) PROVE NoTimeoutNoCleanup'
  <2>1. row[s] \in Rows /\ row[s] # NoRow
    BY <1>2, <1>5 DEF Promise!NASStop
  <2>2. row'[s].cause = "NAS" /\ \A u \in Sessions \ {s} : row'[u] = row[u]
    BY <1>2, <1>5, <2>1 DEF Promise!NASStop, Rows
  <2> QED
    BY <1>0, <2>2 DEF NoTimeoutNoCleanup
<1>6. ASSUME NEW S \in SUBSET Sessions, Promise!Close(S) PROVE NoTimeoutNoCleanup'
  <2>1. \A s \in S : Limit[s] # Disabled
    BY <1>6 DEF Promise!Close, Promise!Stale
  <2>2. \A s \in Sessions \ S : row'[s] = row[s]
    BY <1>6 DEF Promise!Close
  <2> QED
    BY <1>0, <2>1, <2>2 DEF NoTimeoutNoCleanup
<1>7. [Promise!Next]_<<clock, row>>
  BY PromiseStep
<1> QED
  BY <1>1, <1>3, <1>4, <1>5, <1>6, <1>7 DEF Promise!Next, Promise!Tick

\* A session of an assignment without a timeout is never closed by maintenance,
\* where policies are apart.
THEOREM NoTimeoutIsRespected == ASSUME PoliciesApart PROVE Spec => []NoTimeoutNoCleanup
<1>1. Init => NoTimeoutNoCleanup
  BY DEF Init, NoTimeoutNoCleanup
<1>2. PassInv /\ NoTimeoutNoCleanup /\ [Next]_vars => NoTimeoutNoCleanup'
  BY CausesStay
<1> QED
  BY <1>1, <1>2, PassInvariant, PTL DEF Spec
=============================================================================
