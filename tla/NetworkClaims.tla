--------------------------- MODULE NetworkClaims ---------------------------
(***************************************************************************)
(* What EnsureDockerNetwork and the clean-up of initialize promise about    *)
(* Docker network names, without directories, requests or clean-up: a      *)
(* runtime claims a free name at most once, may give up its own claim as   *)
(* long as it has not settled, and keeps the name for good once it has.    *)
(***************************************************************************)
CONSTANTS Procs, Networks, Free, Foreign

VARIABLES
    holder,     \* holder[n]: the runtime that claims n, or Free, or Foreign
    settled     \* the runtimes that are initialised

Init ==
    /\ holder \in [Networks -> {Free, Foreign}]
    /\ settled = {}

Claim(p, n) ==
    /\ holder[n] = Free
    /\ p \notin settled
    /\ \A m \in Networks : holder[m] # p
    /\ holder' = [holder EXCEPT ![n] = p]
    /\ UNCHANGED settled

GiveUp(p, n) ==
    /\ holder[n] = p
    /\ p \notin settled
    /\ holder' = [holder EXCEPT ![n] = Free]
    /\ UNCHANGED settled

Settle(p, n) ==
    /\ holder[n] = p
    /\ settled' = settled \cup {p}
    /\ UNCHANGED holder

\* Somebody who is no runtime takes the name.
Seize(n) ==
    /\ holder[n] = Free
    /\ holder' = [holder EXCEPT ![n] = Foreign]
    /\ UNCHANGED settled

Next ==
    \E n \in Networks :
        \/ \E p \in Procs : Claim(p, n) \/ GiveUp(p, n) \/ Settle(p, n)
        \/ Seize(n)

Spec == Init /\ [][Next]_<<holder, settled>>
=============================================================================
