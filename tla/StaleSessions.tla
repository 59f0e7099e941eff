--------------------------- MODULE StaleSessions ---------------------------
(***************************************************************************)
(* What stale-session maintenance promises about the accounting records, as *)
(* ADR-0006 puts it and without passes, policies or queries: a record that  *)
(* is open may be closed for the NAS when its last known activity is older   *)
(* than the timeout of the session's own NAS assignment, its stop time is    *)
(* then that activity, and a record that is closed is left to the NAS.       *)
(***************************************************************************)
EXTENDS Naturals

CONSTANTS
    Sessions,
    Limit,      \* Limit[s]: the timeout that governs session s, or Disabled
    Disabled,
    NoRow,      \* marks a session without a record
    NoTime      \* NULL

VARIABLES
    clock,
    row         \* row[s]: the accounting record of s

\* The record of a session that begins now.
Opened(now) == [update |-> now, stop |-> NoTime, cause |-> "none"]

IsOpen(s) == row[s] # NoRow /\ row[s].stop = NoTime

Init ==
    /\ clock = 0
    /\ row = [s \in Sessions |-> NoRow]

Tick ==
    /\ clock' = clock + 1
    /\ UNCHANGED row

\* What the NAS reports through FreeRADIUS.
NASStart(s) ==
    /\ row[s] = NoRow
    /\ row' = [row EXCEPT ![s] = Opened(clock)]
    /\ UNCHANGED clock

NASUpdate(s) ==
    /\ row[s] # NoRow
    /\ row' = [row EXCEPT ![s].update = clock]
    /\ UNCHANGED clock

NASStop(s) ==
    /\ row[s] # NoRow
    /\ row' = [row EXCEPT ![s] = [@ EXCEPT !.stop = clock, !.cause = "NAS"]]
    /\ UNCHANGED clock

Stale(s) ==
    /\ IsOpen(s)
    /\ Limit[s] # Disabled
    /\ row[s].update + Limit[s] < clock

\* Maintenance closes some of the stale sessions.
Close(S) ==
    /\ \A s \in S : Stale(s)
    /\ row' = [s \in Sessions |->
                 IF s \in S
                   THEN [row[s] EXCEPT !.stop = row[s].update, !.cause = "Stale-Session"]
                   ELSE row[s]]
    /\ UNCHANGED clock

Next ==
    \/ Tick
    \/ \E s \in Sessions : NASStart(s) \/ NASUpdate(s) \/ NASStop(s)
    \/ \E S \in SUBSET Sessions : Close(S)

Spec == Init /\ [][Next]_<<clock, row>>
=============================================================================
