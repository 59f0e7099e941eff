--------------------------- MODULE RuntimeProofs ---------------------------
(***************************************************************************)
(* Proofs about Runtime, for any number of invocations, directories and    *)
(* network names, any set of faults, and with or without a quiet directory.*)
(***************************************************************************)
EXTENDS Runtime, TLAPS

-----------------------------------------------------------------------------
\* The operators control flow is written with keep the types of what they set.

LEMMA LayoutInPaths ==
    ASSUME NEW k \in Steps
    PROVE  Layout[k] \in Paths
BY DEF Steps, Paths

LEMMA PresentInEntries ==
    ASSUME NEW r \in Roots
    PROVE  Present(r) \in SUBSET Entries
BY DEF Present, Entries

LEMMA PutType ==
    ASSUME TypeOK, NEW p \in Procs, Put(p)
    PROVE  /\ tree' \in [Roots -> [Paths -> Procs \cup {Nobody, Operator}]]
           /\ kind' \in [Roots -> {"absent", "file", "dir"}]
<1>1. Layout[step[p]] \in Paths
  BY LayoutInPaths DEF TypeOK
<1>2. root[p] \in Roots
  BY DEF TypeOK
<1> QED
  BY <1>1, <1>2 DEF TypeOK, Put

LEMMA WorkType ==
    ASSUME TypeOK, NEW p \in Procs, Work(p)
    PROVE  TypeOK'
<1>1. CASE Stat(p)
  BY ZenonT(40), <1>1 DEF Stat, Goto, FailRoot, FailFilesystem, Return, TypeOK,
              Locations, Outcomes, world, args
<1>2. CASE MkdirRoot(p)
  BY ZenonT(40), <1>2 DEF MkdirRoot, PassRoot, Goto, FailRoot, FailFilesystem, Return,
              TypeOK, Locations, Outcomes, args
<1>3. CASE ListRoot(p)
  BY ZenonT(40), <1>3 DEF ListRoot, PassRoot, Goto, FailRoot, FailFilesystem, Return,
              TypeOK, Locations, Outcomes, world, args
<1>4. CASE Inspect(p)
  BY ZenonT(40), <1>4 DEF Inspect, Verify, PassNetwork, DockerError, Goto, Return,
              TypeOK, Locations, Outcomes, world, args
<1>5. CASE NetworkCreate(p)
  BY <1>5 DEF NetworkCreate, PassNetwork, Goto, TypeOK, Locations, args
<1>6. CASE NetworkConflict(p)
  BY <1>6 DEF NetworkConflict, Goto, TypeOK, Locations, world, args
<1>7. CASE NetworkCreateFails(p)
  BY <1>7 DEF NetworkCreateFails, Goto, Return, TypeOK, Locations, Outcomes,
              args
<1>8. CASE Reinspect(p)
  BY <1>8 DEF Reinspect, Verify, PassNetwork, DockerError, Goto, Return,
              TypeOK, Locations, Outcomes, world, args
<1>9. CASE Populate(p)
  <2>1. /\ tree' \in [Roots -> [Paths -> Procs \cup {Nobody, Operator}]]
        /\ kind' \in [Roots -> {"absent", "file", "dir"}]
    BY <1>9, PutType DEF Populate
  <2>2. step' \in [Procs -> Steps]
    BY <1>9 DEF Populate, AtLast, Layout, Steps, TypeOK
  <2> QED
    BY <1>9, <2>1, <2>2 DEF Populate, Return, Goto, TypeOK, Locations,
                            Outcomes, args
<1>10. CASE PopulateFails(p)
  <2>1. /\ tree' \in [Roots -> [Paths -> Procs \cup {Nobody, Operator}]]
        /\ kind' \in [Roots -> {"absent", "file", "dir"}]
    BY <1>10, PutType DEF PopulateFails, TypeOK
  <2> QED
    BY <1>10, <2>1 DEF PopulateFails, FailFilesystem, Goto, TypeOK, Locations,
                       Outcomes, args
<1>11. CASE NetworkRemove(p)
  BY <1>11 DEF NetworkRemove, Goto, TypeOK, Locations, args
<1>12. CASE ListContents(p)
  <2>1. root[p] \in Roots
    BY DEF TypeOK
  <2>2. Present(root[p]) \in SUBSET Entries
    BY <2>1, PresentInEntries
  <2>3. doomed' \in [Procs -> SUBSET Entries]
    BY <1>12, <2>2 DEF ListContents, TypeOK
  <2> QED
    BY <1>12, <2>3 DEF ListContents, Goto, TypeOK, Locations, world, args
<1>13. CASE RemoveEntry(p)
  BY <1>13 DEF RemoveEntry, TypeOK, args
<1>14. CASE RemoveEntryFails(p)
  BY <1>14 DEF RemoveEntryFails, Goto, TypeOK, Locations, world, args
<1>15. CASE Cleaned(p)
  BY <1>15 DEF Cleaned, Goto, TypeOK, Locations, world, args
<1> QED
  BY <1>1, <1>2, <1>3, <1>4, <1>5, <1>6, <1>7, <1>8, <1>9, <1>10, <1>11,
     <1>12, <1>13, <1>14, <1>15 DEF Work

LEMMA StepType == TypeOK /\ [Next]_vars => TypeOK'
<1> SUFFICES ASSUME TypeOK, [Next]_vars
             PROVE  TypeOK'
  OBVIOUS
<1>1. ASSUME NEW p \in Procs, Start(p)
      PROVE  TypeOK'
  BY <1>1 DEF Start, Goto, TypeOK, Locations, world, args
<1>2. ASSUME NEW p \in Procs, Reject(p)
      PROVE  TypeOK'
  BY <1>2 DEF Reject, Return, Goto, TypeOK, Locations, Outcomes, world, args
<1>3. ASSUME NEW p \in Procs, Work(p)
      PROVE  TypeOK'
  BY <1>3, WorkType
<1>4. ASSUME NEW p \in Procs, Crash(p)
      PROVE  TypeOK'
  <2>1. /\ tree' \in [Roots -> [Paths -> Procs \cup {Nobody, Operator}]]
        /\ kind' \in [Roots -> {"absent", "file", "dir"}]
    BY <1>4, PutType DEF Crash, TypeOK
  <2> QED
    BY <1>4, <2>1 DEF Crash, Return, Goto, TypeOK, Locations, Outcomes, args
<1>5. ASSUME NEW n \in Networks, OperatorNetwork(n)
      PROVE  TypeOK'
  BY <1>5 DEF OperatorNetwork, TypeOK, args
<1>6. ASSUME NEW r \in Roots, OperatorFile(r)
      PROVE  TypeOK'
  BY <1>6 DEF OperatorFile, TypeOK, Paths, args
<1>7. ASSUME NEW r \in Roots, OperatorRemoves(r)
      PROVE  TypeOK'
  BY <1>7 DEF OperatorRemoves, EmptyTree, TypeOK, args
<1>8. CASE UNCHANGED vars
  BY <1>8 DEF vars, args, TypeOK
<1> QED
  BY <1>1, <1>2, <1>3, <1>4, <1>5, <1>6, <1>7, <1>8 DEF Next

\* Every variable keeps its type.
THEOREM TypeCorrect == Spec => []TypeOK
<1>1. Init => TypeOK
  <2> SUFFICES ASSUME Init
               PROVE  TypeOK
    OBVIOUS
  <2>1. EmptyTree \in [Paths -> Procs \cup {Nobody, Operator}]
    BY DEF EmptyTree
  <2>2. tree \in [Roots -> [Paths -> Procs \cup {Nobody, Operator}]]
    BY <2>1 DEF Init
  <2>3. 1 \in Steps
    BY DEF Steps
  <2>4. root \in [Procs -> Roots]
    BY EnvironmentAssumption DEF Init
  <2> QED
    BY <2>2, <2>3, <2>4 DEF Init, TypeOK, Locations, Outcomes
<1> QED
  BY <1>1, StepType, PTL DEF Spec

-----------------------------------------------------------------------------
\* Who holds a network name.  SuccessOwnsNetwork is not inductive: that nobody
\* removes the network of an initialised runtime follows from what every
\* invocation knows of its name at every point, from the first inspection to
\* the end of the clean-up.

\* How the local variables go together.
ControlInv ==
    \A p \in Procs :
        /\ pc[p] \in {"idle", "inspect", "create", "reinspect"} => ~ensured[p]
        /\ pc[p] = "populate" => ensured[p]
        /\ pc[p] = "rmnet" => created[p]
        /\ created[p] => ensured[p]
        /\ outcome[p] = "none" <=> pc[p] \notin {"rmnet", "listclean", "clean", "done"}
        /\ outcome[p] = "ok" => pc[p] = "done" /\ ensured[p]

\* An ID is only ever found on the network its runtime asks for.
NameInv ==
    \A p \in Procs : \A n \in Networks : network[n] = p => n = net[p]

\* An ID is on no network before its invocation has got through
\* EnsureDockerNetwork or has given up.
FreshInv ==
    \A p \in Procs : outcome[p] = "none" /\ ~ensured[p] =>
        \A n \in Networks : network[n] # p

\* From then on the name is held, until initialize removes the network.
Holding(p) ==
    ensured[p] /\ (outcome[p] \in {"none", "ok"} \/ pc[p] = "rmnet")

HeldInv == \A p \in Procs : Holding(p) => network[net[p]] = p

NetworkInv == ControlInv /\ NameInv /\ FreshInv /\ HeldInv

LEMMA InitNetworkInv == Init => NetworkInv
BY IdentityAssumption DEF Init, NetworkInv, ControlInv, NameInv, FreshInv,
                          HeldInv, Holding

LEMMA StepControlInv ==
    ASSUME TypeOK, ControlInv, Next
    PROVE  ControlInv'
<1> USE DEF ControlInv, TypeOK, Goto, Return
<1>1. ASSUME NEW p \in Procs, Start(p) \/ Reject(p) \/ Crash(p)
      PROVE  ControlInv'
  BY <1>1 DEF Start, Reject, Crash, Running
<1>2. ASSUME NEW p \in Procs, Stat(p) \/ MkdirRoot(p) \/ ListRoot(p)
      PROVE  ControlInv'
  BY <1>2 DEF Stat, MkdirRoot, ListRoot, FailRoot, FailFilesystem, PassRoot
<1>3. ASSUME NEW p \in Procs, Inspect(p) \/ Reinspect(p)
      PROVE  ControlInv'
  BY <1>3 DEF Inspect, Reinspect, Verify, PassNetwork, DockerError
<1>4. ASSUME NEW p \in Procs,
             NetworkCreate(p) \/ NetworkConflict(p) \/ NetworkCreateFails(p)
      PROVE  ControlInv'
  BY <1>4 DEF NetworkCreate, NetworkConflict, NetworkCreateFails, PassNetwork
<1>5. ASSUME NEW p \in Procs, Populate(p) \/ PopulateFails(p)
      PROVE  ControlInv'
  BY <1>5 DEF Populate, PopulateFails, FailFilesystem
<1>6. ASSUME NEW p \in Procs,
             \/ NetworkRemove(p) \/ ListContents(p)
             \/ RemoveEntry(p) \/ RemoveEntryFails(p) \/ Cleaned(p)
      PROVE  ControlInv'
  BY <1>6 DEF NetworkRemove, ListContents, RemoveEntry, RemoveEntryFails, Cleaned
<1>7. ASSUME NEW n \in Networks, OperatorNetwork(n)
      PROVE  ControlInv'
  BY <1>7 DEF OperatorNetwork
<1>8. ASSUME NEW r \in Roots, OperatorFile(r) \/ OperatorRemoves(r)
      PROVE  ControlInv'
  BY <1>8 DEF OperatorFile, OperatorRemoves
<1> QED
  BY <1>1, <1>2, <1>3, <1>4, <1>5, <1>6, <1>7, <1>8 DEF Next, Work

\* NetworkInv from step to step, given that control stays as ControlInv has it.
HoldersInv == NameInv /\ FreshInv /\ HeldInv

\* A step that touches no network and after which nobody holds more than before.
LEMMA QuietHoldersInv ==
    ASSUME HoldersInv, network' = network, net' = net,
           \A q \in Procs : Holding(q)' => Holding(q),
           \A q \in Procs : outcome'[q] = "none" /\ ~ensured'[q] =>
                              outcome[q] = "none" /\ ~ensured[q]
    PROVE  HoldersInv'
BY DEF HoldersInv, NameInv, FreshInv, HeldInv

LEMMA StepHoldersInv ==
    ASSUME TypeOK, ControlInv, HoldersInv, ControlInv', Next
    PROVE  HoldersInv'
<1> USE IdentityAssumption
<1> USE DEF HoldersInv, NameInv, FreshInv, HeldInv, Holding, ControlInv,
            TypeOK, Goto, Return, args, world
<1>1. ASSUME NEW p \in Procs, Start(p) \/ Reject(p) \/ Crash(p)
      PROVE  HoldersInv'
  <2>1. CASE Start(p)
    BY <1>1, <2>1, QuietHoldersInv DEF Start
  <2>2. CASE Reject(p)
    BY <1>1, <2>2, QuietHoldersInv DEF Reject
  <2>3. CASE Crash(p)
    BY <1>1, <2>3, QuietHoldersInv DEF Crash, Running
  <2> QED
    BY <1>1, <2>1, <2>2, <2>3
<1>2. ASSUME NEW p \in Procs, Stat(p) \/ MkdirRoot(p) \/ ListRoot(p)
      PROVE  HoldersInv'
  BY <1>2 DEF Stat, MkdirRoot, ListRoot, FailRoot, FailFilesystem, PassRoot
<1>3. ASSUME NEW p \in Procs, Inspect(p) \/ Reinspect(p)
      PROVE  HoldersInv'
  <2>1. ~ensured[p] /\ outcome[p] = "none"
    BY <1>3 DEF Inspect, Reinspect
  <2>2. ~Owns(p)
    BY <2>1 DEF Owns
  <2>3. UNCHANGED <<network, net, ensured>>
    BY <1>3, <2>2 DEF Inspect, Reinspect, Verify, DockerError
  <2>4. \/ outcome' = outcome
        \/ \E why \in {"badNetwork", "dockerError"} :
              outcome' = [outcome EXCEPT ![p] = why]
    BY <1>3, <2>2 DEF Inspect, Reinspect, Verify, DockerError
  <2>5. \A q \in Procs : /\ outcome'[q] = "none" => outcome[q] = "none"
                         /\ outcome'[q] = "ok" => outcome[q] = "ok"
    BY <2>4
  <2>6. \E l \in Locations \ {"rmnet"} : pc' = [pc EXCEPT ![p] = l]
    BY <1>3, <2>2 DEF Inspect, Reinspect, Verify, DockerError, Locations
  <2>7. \A q \in Procs : pc'[q] = "rmnet" => pc[q] = "rmnet"
    BY <2>6
  <2> QED
    BY <2>3, <2>5, <2>7, QuietHoldersInv
<1>4. ASSUME NEW p \in Procs, NetworkCreate(p)
      PROVE  HoldersInv'
  BY <1>4 DEF NetworkCreate, PassNetwork
<1>5. ASSUME NEW p \in Procs, NetworkConflict(p) \/ NetworkCreateFails(p)
      PROVE  HoldersInv'
  <2>1. CASE UNCHANGED network
    BY <1>5, <2>1, QuietHoldersInv DEF NetworkConflict, NetworkCreateFails
  <2>2. CASE /\ network[net[p]] = NoNetwork
             /\ network' = [network EXCEPT ![net[p]] = p]
             /\ NetworkCreateFails(p)
    BY <2>2 DEF NetworkCreateFails
  <2> QED
    BY <1>5, <2>1, <2>2 DEF NetworkConflict, NetworkCreateFails
<1>6. ASSUME NEW p \in Procs, Populate(p) \/ PopulateFails(p)
      PROVE  HoldersInv'
  BY SMTT(30), <1>6 DEF Populate, PopulateFails, FailFilesystem
<1>7. ASSUME NEW p \in Procs, NetworkRemove(p)
      PROVE  HoldersInv'
  BY <1>7 DEF NetworkRemove
<1>8. ASSUME NEW p \in Procs,
             \/ ListContents(p) \/ RemoveEntry(p)
             \/ RemoveEntryFails(p) \/ Cleaned(p)
      PROVE  HoldersInv'
  BY <1>8 DEF ListContents, RemoveEntry, RemoveEntryFails, Cleaned
<1>9. ASSUME NEW n \in Networks, OperatorNetwork(n)
      PROVE  HoldersInv'
  BY <1>9 DEF OperatorNetwork
<1>10. ASSUME NEW r \in Roots, OperatorFile(r) \/ OperatorRemoves(r)
       PROVE  HoldersInv'
  BY <1>10 DEF OperatorFile, OperatorRemoves
<1> QED
  BY <1>1, <1>2, <1>3, <1>4, <1>5, <1>6, <1>7, <1>8, <1>9, <1>10 DEF Next, Work

LEMMA StepNetworkInv == TypeOK /\ NetworkInv /\ [Next]_vars => NetworkInv'
<1>1. ASSUME TypeOK, NetworkInv, Next
      PROVE  NetworkInv'
  <2>1. ControlInv'
    BY <1>1, StepControlInv DEF NetworkInv
  <2>2. HoldersInv'
    BY <1>1, <2>1, StepHoldersInv DEF NetworkInv, HoldersInv
  <2> QED
    BY <2>1, <2>2 DEF NetworkInv, HoldersInv
<1>2. ASSUME NetworkInv, UNCHANGED vars
      PROVE  NetworkInv'
  BY <1>2 DEF vars, args, NetworkInv, ControlInv, NameInv, FreshInv, HeldInv,
              Holding
<1> QED
  BY <1>1, <1>2

THEOREM NetworkInvariant == Spec => []NetworkInv
BY TypeCorrect, InitNetworkInv, StepNetworkInv, PTL DEF Spec

\* The network of an initialised runtime carries its ID for ever, whatever
\* other invocations do.
THEOREM SuccessKeepsNetwork == Spec => []SuccessOwnsNetwork
<1>1. NetworkInv => SuccessOwnsNetwork
  BY DEF NetworkInv, ControlInv, HeldInv, Holding, SuccessOwnsNetwork
<1> QED
  BY <1>1, NetworkInvariant, PTL

-----------------------------------------------------------------------------
\* Runtime implements NetworkClaims.

Settled == {p \in Procs : outcome[p] = "ok"}

\* Everything but the last step of Populate leaves the set of initialised
\* runtimes alone.
LEMMA SettledStep ==
    ASSUME TypeOK, ControlInv, Next
    PROVE  \/ Settled' = Settled
           \/ \E p \in Procs : /\ pc[p] = "populate"
                              /\ network' = network
                              /\ Settled' = Settled \cup {p}
<1> DEFINE Unsettling(p) == \E why \in Outcomes \ {"ok"} :
                              outcome' = [outcome EXCEPT ![p] = why]
<1>1. ASSUME NEW p \in Procs, outcome[p] # "ok", Unsettling(p)
      PROVE  Settled' = Settled
  BY <1>1 DEF Settled, TypeOK
<1>2. ASSUME outcome' = outcome
      PROVE  Settled' = Settled
  BY <1>2 DEF Settled
<1>3. ASSUME NEW p \in Procs, pc[p] # "done"
      PROVE  outcome[p] # "ok"
  BY <1>3 DEF ControlInv
<1> HIDE DEF Unsettling
<1>4. ASSUME NEW p \in Procs, Start(p)
      PROVE  Settled' = Settled
  BY <1>4, <1>2 DEF Start
<1>5. ASSUME NEW p \in Procs, Reject(p) \/ Crash(p)
      PROVE  Settled' = Settled
  <2>1. pc[p] # "done" /\ Unsettling(p)
    BY <1>5 DEF Reject, Crash, Running, Return, Unsettling, Outcomes
  <2> QED
    BY <2>1, <1>1, <1>3
<1>6. ASSUME NEW p \in Procs, Stat(p) \/ MkdirRoot(p) \/ ListRoot(p)
      PROVE  Settled' = Settled
  <2>1. pc[p] # "done" /\ (outcome' = outcome \/ Unsettling(p))
    BY <1>6 DEF Stat, MkdirRoot, ListRoot, FailRoot, FailFilesystem, PassRoot,
                Return, Unsettling, Outcomes
  <2> QED
    BY <2>1, <1>1, <1>2, <1>3
<1>7. ASSUME NEW p \in Procs,
             \/ Inspect(p) \/ NetworkCreate(p) \/ NetworkConflict(p)
             \/ NetworkCreateFails(p) \/ Reinspect(p)
      PROVE  Settled' = Settled
  <2>1. pc[p] # "done" /\ (outcome' = outcome \/ Unsettling(p))
    BY <1>7 DEF Inspect, NetworkCreate, NetworkConflict, NetworkCreateFails,
                Reinspect, Verify, PassNetwork, DockerError, Return,
                Unsettling, Outcomes
  <2> QED
    BY <2>1, <1>1, <1>2, <1>3
<1>8. ASSUME NEW p \in Procs, PopulateFails(p)
      PROVE  Settled' = Settled
  <2>1. pc[p] # "done" /\ Unsettling(p)
    BY <1>8 DEF PopulateFails, FailFilesystem, Unsettling, Outcomes
  <2> QED
    BY <2>1, <1>1, <1>3
<1>9. ASSUME NEW p \in Procs,
             \/ NetworkRemove(p) \/ ListContents(p)
             \/ RemoveEntry(p) \/ RemoveEntryFails(p) \/ Cleaned(p)
      PROVE  Settled' = Settled
  BY <1>9, <1>2 DEF NetworkRemove, ListContents, RemoveEntry,
                    RemoveEntryFails, Cleaned
<1>10. ASSUME NEW p \in Procs, Populate(p), outcome' # outcome
       PROVE  /\ pc[p] = "populate"
              /\ network' = network
              /\ Settled' = Settled \cup {p}
  <2>1. /\ pc[p] = "populate"
        /\ network' = network
        /\ outcome' = [outcome EXCEPT ![p] = "ok"]
    BY <1>10 DEF Populate, Return
  <2> QED
    BY <2>1 DEF Settled, TypeOK
<1>11. ASSUME \/ \E n \in Networks : OperatorNetwork(n)
              \/ \E r \in Roots : OperatorFile(r) \/ OperatorRemoves(r)
       PROVE  Settled' = Settled
  BY <1>11, <1>2 DEF OperatorNetwork, OperatorFile, OperatorRemoves
<1> QED
  BY <1>2, <1>4, <1>5, <1>6, <1>7, <1>8, <1>9, <1>10, <1>11 DEF Next, Work

\* How a network changes: a free one is claimed by its invocation or by
\* somebody else, or an invocation removes the network it has created.
Claimed(p) ==
    /\ pc[p] = "create"
    /\ network[net[p]] = NoNetwork
    /\ network' = [network EXCEPT ![net[p]] = p]

Removed(p) ==
    /\ pc[p] = "rmnet"
    /\ network' = [network EXCEPT ![net[p]] = NoNetwork]

LEMMA InvocationNetworkStep ==
    ASSUME NEW p \in Procs, Start(p) \/ Reject(p) \/ Work(p) \/ Crash(p)
    PROVE  network' = network \/ Claimed(p) \/ Removed(p)
<1>1. CASE Start(p) \/ Reject(p) \/ Crash(p)
  BY <1>1 DEF Start, Reject, Crash, world
<1>2. CASE Stat(p) \/ MkdirRoot(p) \/ ListRoot(p)
  BY <1>2 DEF Stat, MkdirRoot, ListRoot, world
<1>3. CASE Inspect(p) \/ NetworkConflict(p) \/ Reinspect(p)
  BY <1>3 DEF Inspect, NetworkConflict, Reinspect, world
<1>4. CASE NetworkCreate(p) \/ NetworkCreateFails(p)
  BY <1>4 DEF NetworkCreate, NetworkCreateFails, Claimed
<1>5. CASE Populate(p) \/ PopulateFails(p)
  BY <1>5 DEF Populate, PopulateFails
<1>6. CASE NetworkRemove(p)
  BY <1>6 DEF NetworkRemove, Removed
<1>7. CASE ListContents(p) \/ RemoveEntry(p) \/ RemoveEntryFails(p) \/ Cleaned(p)
  BY <1>7 DEF ListContents, RemoveEntry, RemoveEntryFails, Cleaned, world
<1> QED
  BY <1>1, <1>2, <1>3, <1>4, <1>5, <1>6, <1>7 DEF Work

LEMMA NetworkStep ==
    ASSUME Next
    PROVE  \/ network' = network
           \/ \E p \in Procs : Claimed(p) \/ Removed(p)
           \/ \E n \in Networks : OperatorNetwork(n)
<1>1. ASSUME NEW r \in Roots, OperatorFile(r) \/ OperatorRemoves(r)
      PROVE  network' = network
  BY <1>1 DEF OperatorFile, OperatorRemoves
<1> QED
  BY <1>1, InvocationNetworkStep DEF Next

\* NetworkRemove, which names a network and not its ID, only ever removes the
\* network that its own invocation has created.
THEOREM RemovalByCreator == Spec => NetworksRemovedByCreator
<1> DEFINE A == \A n \in Networks :
                  network[n] # NoNetwork /\ network'[n] # network[n] =>
                      \E p \in Procs : /\ network[n] = p
                                       /\ pc[p] = "rmnet"
                                       /\ network'[n] = NoNetwork
<1>1. ASSUME TypeOK, NetworkInv, Next
      PROVE  A
  <2>1. ASSUME NEW p \in Procs, Claimed(p)
        PROVE  A
    BY <1>1, <2>1 DEF Claimed, TypeOK
  <2>2. ASSUME NEW p \in Procs, Removed(p)
        PROVE  A
    <3>1. network[net[p]] = p
      BY <1>1, <2>2 DEF Removed, NetworkInv, ControlInv, HeldInv, Holding
    <3> QED
      BY <1>1, <2>2, <3>1 DEF Removed, TypeOK
  <2>3. ASSUME NEW n \in Networks, OperatorNetwork(n)
        PROVE  A
    BY <1>1, <2>3 DEF OperatorNetwork, TypeOK
  <2> QED
    BY <1>1, <2>1, <2>2, <2>3, NetworkStep
<1>2. ASSUME UNCHANGED vars
      PROVE  A
  BY <1>2 DEF vars
<1>3. TypeOK /\ NetworkInv /\ [Next]_vars => [A]_vars
  BY <1>1, <1>2
<1> QED
  BY <1>3, TypeCorrect, NetworkInvariant, PTL DEF Spec, NetworksRemovedByCreator

\* The requests to the Docker daemon, interleaved in any way, amount to claims
\* of names as NetworkClaims has them.
THEOREM RuntimeImplementsClaims == Spec => ClaimsRefined
<1>1. Init => Claims!Init
  BY DEF Init, Claims!Init
<1>2. ASSUME TypeOK, NetworkInv, Next
      PROVE  [Claims!Next]_<<network, Settled>>
  <2>1. ASSUME NEW p \in Procs, Claimed(p), Settled' = Settled
        PROVE  Claims!Next
    <3>1. p \notin Settled /\ \A m \in Networks : network[m] # p
      BY <1>2, <2>1 DEF Claimed, NetworkInv, ControlInv, FreshInv, Settled
    <3>2. Claims!Claim(p, net[p])
      BY <2>1, <3>1 DEF Claims!Claim, Claimed, Settled
    <3>3. net[p] \in Networks
      BY <1>2 DEF TypeOK
    <3> QED
      BY <3>2, <3>3 DEF Claims!Next
  <2>2. ASSUME NEW p \in Procs, Removed(p), Settled' = Settled
        PROVE  Claims!Next
    <3>1. p \notin Settled /\ network[net[p]] = p
      BY <1>2, <2>2 DEF Removed, NetworkInv, ControlInv, HeldInv, Holding, Settled
    <3>2. Claims!GiveUp(p, net[p])
      BY <2>2, <3>1 DEF Claims!GiveUp, Removed, Settled
    <3>3. net[p] \in Networks
      BY <1>2 DEF TypeOK
    <3> QED
      BY <3>2, <3>3 DEF Claims!Next
  <2>3. ASSUME NEW n \in Networks, OperatorNetwork(n)
        PROVE  Claims!Next
    <3>1. Claims!Seize(n)
      BY <2>3 DEF Claims!Seize, OperatorNetwork
    <3> QED
      BY <3>1 DEF Claims!Next
  <2>4. ASSUME NEW p \in Procs, pc[p] = "populate", network' = network,
               Settled' = Settled \cup {p}
        PROVE  Claims!Next
    <3>1. network[net[p]] = p
      BY <1>2, <2>4 DEF NetworkInv, ControlInv, HeldInv, Holding
    <3>2. net[p] \in Networks
      BY <1>2 DEF TypeOK
    <3>3. PICK n \in Networks : n = net[p]
      BY <3>2
    <3>4. Claims!Settle(p, n)
      BY <2>4, <3>1, <3>3 DEF Claims!Settle, Settled
    <3> QED
      BY <3>4 DEF Claims!Next
  <2>5. ASSUME \E p \in Procs : Claimed(p) \/ Removed(p),
               \E p \in Procs : /\ pc[p] = "populate"
                               /\ network' = network
                               /\ Settled' = Settled \cup {p}
        PROVE  network' = network
    BY <2>5
  <2>6. ControlInv
    BY <1>2 DEF NetworkInv
  <2> QED
    BY <1>2, <2>1, <2>2, <2>3, <2>4, <2>5, <2>6, SettledStep, NetworkStep
<1>3. ASSUME UNCHANGED vars
      PROVE  UNCHANGED <<network, Settled>>
  BY <1>3 DEF vars, Settled
<1>4. TypeOK /\ NetworkInv /\ [Next]_vars => [Claims!Next]_<<network, Settled>>
  BY <1>2, <1>3
<1> QED
  BY <1>1, <1>4, TypeCorrect, NetworkInvariant, PTL
     DEF Spec, ClaimsRefined, Claims!Spec, Settled

-----------------------------------------------------------------------------
\* What is in a runtime directory.

\* Only a directory holds anything.
KindInv == \A r \in Roots : kind[r] # "dir" => tree[r] = EmptyTree

\* A serial directory has one invocation at a time.
AloneInv ==
    \A p, q \in Procs :
        Running(p) /\ Running(q) /\ root[p] = root[q] /\ root[p] \in SerialRoots => p = q

\* From the first look at a serial directory on it stays empty...
Looked(p) ==
    \/ pc[p] \in {"mkroot", "inspect", "create", "reinspect"}
    \/ ensured[p] /\ pc[p] \in {"stat", "list"}

ClearInv ==
    \A p \in Procs : root[p] \in SerialRoots /\ Looked(p) => tree[root[p]] = EmptyTree

\* ...until the invocation fills it; then it is the only one that does.
Filling(p) == pc[p] \in {"populate", "rmnet", "listclean", "clean"}

OwnInv ==
    \A p \in Procs : root[p] \in SerialRoots /\ Filling(p) =>
        \A path \in Paths : tree[root[p]][path] \in {Nobody, p}

\* What Populate has created so far.
PutInv ==
    \A p \in Procs : root[p] \in SerialRoots /\ pc[p] = "populate" =>
        \A k \in 1..(step[p] - 1) : tree[root[p]][Layout[k]] = p

\* An invocation starts with the first element of Layout, and writes nothing before EnsureDockerNetwork has returned.
FirstInv == \A p \in Procs : ~Filling(p) /\ pc[p] # "done" => step[p] = 1

UntouchedInv ==
    \A p \in Procs : ~ensured[p] => \A r \in Roots : \A path \in Paths : tree[r][path] # p

\* The clean-up has listed everything that is still there...
CleanInv ==
    \A p \in Procs : root[p] \in SerialRoots /\ pc[p] = "clean" =>
        \A path \in Paths : tree[root[p]][path] = p => Entry[path] \in doomed[p]

\* ...and has removed it when it is over without an error.
Failed(p) == outcome[p] \notin {"none", "ok", "crashed"}

GoneInv ==
    \A p \in Procs : root[p] \in SerialRoots /\ pc[p] = "done" /\ Failed(p) /\ ~dirty[p] =>
        \A path \in Paths : tree[root[p]][path] # p

DirectoryInv ==
    /\ KindInv /\ AloneInv /\ ClearInv /\ OwnInv /\ PutInv /\ FirstInv /\ UntouchedInv
    /\ CleanInv /\ GoneInv /\ InitializedRuntimeStays

-----------------------------------------------------------------------------
\* The step of one invocation leaves the variables of the others alone.
Others(p) ==
    \A q \in Procs \ {p} :
        /\ pc'[q] = pc[q] /\ ensured'[q] = ensured[q] /\ step'[q] = step[q]
        /\ doomed'[q] = doomed[q] /\ outcome'[q] = outcome[q] /\ dirty'[q] = dirty[q]
        /\ created'[q] = created[q]

LEMMA OthersKept ==
    ASSUME TypeOK, NEW p \in Procs, Start(p) \/ Reject(p) \/ Work(p) \/ Crash(p)
    PROVE  Others(p) /\ root' = root
<1> USE DEF TypeOK, Others, Goto, Return, args, world
<1>1. CASE Start(p) \/ Reject(p) \/ Crash(p)
  BY <1>1 DEF Start, Reject, Crash
<1>2. CASE Stat(p) \/ MkdirRoot(p) \/ ListRoot(p)
  BY <1>2 DEF Stat, MkdirRoot, ListRoot, FailRoot, FailFilesystem, PassRoot
<1>3. CASE Inspect(p) \/ Reinspect(p)
  BY <1>3 DEF Inspect, Reinspect, Verify, PassNetwork, DockerError
<1>4. CASE NetworkCreate(p) \/ NetworkConflict(p) \/ NetworkCreateFails(p)
  BY <1>4 DEF NetworkCreate, NetworkConflict, NetworkCreateFails, PassNetwork
<1>5. CASE Populate(p) \/ PopulateFails(p)
  BY <1>5 DEF Populate, PopulateFails, FailFilesystem
<1>6. CASE NetworkRemove(p) \/ ListContents(p)
  BY <1>6 DEF NetworkRemove, ListContents
<1>7. CASE RemoveEntry(p) \/ RemoveEntryFails(p) \/ Cleaned(p)
  BY <1>7 DEF RemoveEntry, RemoveEntryFails, Cleaned
<1> QED
  BY <1>1, <1>2, <1>3, <1>4, <1>5, <1>6, <1>7 DEF Work

\* How an invocation changes a directory.
WriteTo(p) == pc[p] = "populate" /\ Ready(p) /\ Put(p)

MakeRoot(p) ==
    /\ pc[p] = "mkroot"
    /\ kind' = [kind EXCEPT ![root[p]] = "dir"]
    /\ tree' = tree

LEMMA TreeStep ==
    ASSUME NEW p \in Procs, Start(p) \/ Reject(p) \/ Work(p) \/ Crash(p)
    PROVE  \/ UNCHANGED <<kind, tree>>
           \/ MakeRoot(p)
           \/ WriteTo(p)
           \/ RemoveEntry(p)
<1> USE DEF world
<1>1. CASE Start(p) \/ Reject(p) \/ Crash(p)
  BY <1>1 DEF Start, Reject, Crash, WriteTo
<1>2. CASE Stat(p) \/ MkdirRoot(p) \/ ListRoot(p)
  BY <1>2 DEF Stat, MkdirRoot, ListRoot, MakeRoot
<1>3. CASE Inspect(p) \/ Reinspect(p)
  BY <1>3 DEF Inspect, Reinspect
<1>4. CASE NetworkCreate(p) \/ NetworkConflict(p) \/ NetworkCreateFails(p)
  BY <1>4 DEF NetworkCreate, NetworkConflict, NetworkCreateFails
<1>5. CASE Populate(p) \/ PopulateFails(p)
  BY <1>5 DEF Populate, PopulateFails, WriteTo
<1>6. CASE NetworkRemove(p) \/ ListContents(p)
  BY <1>6 DEF NetworkRemove, ListContents
<1>7. CASE RemoveEntry(p) \/ RemoveEntryFails(p) \/ Cleaned(p)
  BY <1>7 DEF RemoveEntryFails, Cleaned
<1> QED
  BY <1>1, <1>2, <1>3, <1>4, <1>5, <1>6, <1>7 DEF Work

\* What the four changes amount to.
LEMMA TreeChange ==
    ASSUME TypeOK, NEW p \in Procs,
           UNCHANGED <<kind, tree>> \/ MakeRoot(p) \/ WriteTo(p) \/ RemoveEntry(p)
    PROVE  /\ \A r \in Roots \ {root[p]} : tree'[r] = tree[r] /\ kind'[r] = kind[r]
           /\ \A path \in Paths :
                \/ tree'[root[p]][path] = tree[root[p]][path]
                \/ pc[p] = "populate" /\ tree'[root[p]][path] = p
                \/ pc[p] = "clean" /\ tree'[root[p]][path] = Nobody
<1> USE DEF TypeOK
<1>1. CASE UNCHANGED <<kind, tree>> \/ MakeRoot(p)
  BY <1>1 DEF MakeRoot
<1>2. CASE WriteTo(p)
  BY <1>2, LayoutInPaths DEF WriteTo, Put
<1>3. CASE RemoveEntry(p)
  BY <1>3 DEF RemoveEntry
<1> QED
  BY <1>1, <1>2, <1>3

\* The same for what others do.
LEMMA OperatorChange ==
    ASSUME TypeOK, NEW r \in Roots, OperatorFile(r) \/ OperatorRemoves(r)
    PROVE  /\ UNCHANGED <<pc, root, net, ensured, created, step, doomed, outcome, dirty, network>>
           /\ \A s \in Roots \ {r} : tree'[s] = tree[s] /\ kind'[s] = kind[s]
           /\ \A path \in Paths :
                \/ tree'[r][path] = tree[r][path]
                \/ path = "existing.txt" /\ tree'[r][path] = Operator
                \/ OperatorRemoves(r) /\ tree'[r][path] = Nobody
           /\ r \in SerialRoots => Quiet(r)
BY DEF TypeOK, OperatorFile, OperatorRemoves, EmptyTree, args

\* Where an invocation goes.
LEMMA StepAlone ==
    ASSUME TypeOK, AloneInv, Next
    PROVE  AloneInv'
<1> USE DEF AloneInv, TypeOK, Running
<1>1. ASSUME NEW p \in Procs, Start(p)
      PROVE  AloneInv'
  BY <1>1, OthersKept DEF Start, Quiet, Others, args
<1>2. ASSUME NEW p \in Procs, Reject(p)
      PROVE  AloneInv'
  BY <1>2, OthersKept DEF Reject, Return, Goto, Others, args
<1>3. ASSUME NEW p \in Procs, Work(p) \/ Crash(p)
      PROVE  AloneInv'
  <2>1. Running(p)
    BY <1>3 DEF Work, Crash, Stat, MkdirRoot, ListRoot, Inspect, NetworkCreate,
                NetworkConflict, NetworkCreateFails, Reinspect, Populate, PopulateFails,
                NetworkRemove, ListContents, RemoveEntry, RemoveEntryFails, Cleaned
  <2> QED
    BY <1>3, <2>1, OthersKept DEF Others
<1>4. ASSUME NEW n \in Networks, OperatorNetwork(n)
      PROVE  AloneInv'
  BY <1>4 DEF OperatorNetwork, args
<1>5. ASSUME NEW r \in Roots, OperatorFile(r) \/ OperatorRemoves(r)
      PROVE  AloneInv'
  BY <1>5, OperatorChange
<1> QED
  BY <1>1, <1>2, <1>3, <1>4, <1>5 DEF Next

LEMMA StepKind ==
    ASSUME TypeOK, KindInv, Next
    PROVE  KindInv'
<1> USE DEF KindInv, TypeOK
<1>1. ASSUME NEW p \in Procs, Start(p) \/ Reject(p) \/ Work(p) \/ Crash(p)
      PROVE  KindInv'
  <2>1. CASE UNCHANGED <<kind, tree>>
    BY <2>1
  <2>2. CASE MakeRoot(p)
    BY <2>2 DEF MakeRoot
  <2>3. CASE WriteTo(p)
    BY <2>3 DEF WriteTo, Put
  <2>4. CASE RemoveEntry(p)
    <3>1. ASSUME NEW r \in Roots, kind[r] # "dir"
          PROVE  tree'[r] = EmptyTree
      BY <2>4, <3>1 DEF RemoveEntry, EmptyTree
    <3> QED
      BY <2>4, <3>1 DEF RemoveEntry
  <2> QED
    BY <1>1, <2>1, <2>2, <2>3, <2>4, TreeStep
<1>2. ASSUME NEW n \in Networks, OperatorNetwork(n)
      PROVE  KindInv'
  BY <1>2 DEF OperatorNetwork
<1>3. ASSUME NEW r \in Roots, OperatorFile(r) \/ OperatorRemoves(r)
      PROVE  KindInv'
  BY <1>3 DEF OperatorFile, OperatorRemoves
<1> QED
  BY <1>1, <1>2, <1>3 DEF Next

\* What p does in its directory concerns no other invocation that runs there.
LEMMA Undisturbed ==
    ASSUME TypeOK, AloneInv, NEW p \in Procs, Start(p) \/ Reject(p) \/ Work(p) \/ Crash(p),
           NEW q \in Procs \ {p}, Running(q), root[q] \in SerialRoots
    PROVE  tree'[root[q]] = tree[root[q]] /\ kind'[root[q]] = kind[root[q]]
<1>1. CASE UNCHANGED <<kind, tree>>
  BY <1>1
<1>2. CASE MakeRoot(p) \/ WriteTo(p) \/ RemoveEntry(p)
  <2>1. Running(p)
    BY <1>2 DEF MakeRoot, WriteTo, RemoveEntry, Running
  <2>2. root[q] \in Roots \ {root[p]}
    BY <2>1 DEF AloneInv, TypeOK
  <2> QED
    BY <1>2, <2>2, TreeChange
<1> QED
  BY <1>1, <1>2, TreeStep

LEMMA StepClear ==
    ASSUME TypeOK, ControlInv, KindInv, AloneInv, ClearInv, Next
    PROVE  ClearInv'
<1> USE DEF ClearInv, Looked
<1>1. ASSUME NEW p \in Procs, Start(p) \/ Reject(p) \/ Work(p) \/ Crash(p)
      PROVE  ClearInv'
  <2>1. ASSUME NEW q \in Procs \ {p}, root'[q] \in SerialRoots, Looked(q)'
        PROVE  tree'[root'[q]] = EmptyTree
    <3>1. Looked(q) /\ root'[q] = root[q] /\ Running(q)
      BY <1>1, <2>1, OthersKept DEF Others, Running
    <3> QED
      BY <1>1, <2>1, <3>1, Undisturbed
  <2>2. ASSUME root'[p] \in SerialRoots, Looked(p)'
        PROVE  tree'[root'[p]] = EmptyTree
    <3>1. root' = root /\ root[p] \in Roots
      BY <1>1, OthersKept DEF TypeOK
    <3>2. CASE Start(p) \/ Reject(p) \/ Crash(p)
      BY <1>1, <2>2, <3>2 DEF Start, Reject, Crash, Goto, Return, TypeOK, ControlInv
    <3>3. CASE Stat(p)
      <4>1. tree' = tree
        BY <3>3 DEF Stat, world
      <4>2. CASE ensured[p]
        BY <2>2, <3>1, <3>3, <4>1, <4>2 DEF Stat
      <4>3. CASE ~ensured[p]
        <5>1. kind[root[p]] = "absent"
          BY <2>2, <3>3, <4>3 DEF Stat, Goto, FailRoot, Return, TypeOK
        <5> QED
          BY <3>1, <4>1, <5>1 DEF KindInv
      <4> QED
        BY <4>2, <4>3
    <3>4. CASE MkdirRoot(p)
      BY <2>2, <3>1, <3>4 DEF MkdirRoot
    <3>5. CASE ListRoot(p)
      <4>1. tree' = tree
        BY <3>5 DEF ListRoot, world
      <4>2. CASE ensured[p]
        BY <2>2, <3>1, <3>5, <4>1, <4>2 DEF ListRoot
      <4>3. CASE ~ensured[p]
        <5>1. EmptyRoot(root[p])
          BY <2>2, <3>5, <4>3 DEF ListRoot, Goto, FailRoot, Return, TypeOK
        <5>2. \A path \in Paths : tree[root[p]][path] = Nobody
          BY <5>1 DEF EmptyRoot, Present
        <5> QED
          BY <3>1, <4>1, <5>2 DEF EmptyTree, TypeOK
      <4> QED
        BY <4>2, <4>3
    <3>6. CASE Inspect(p) \/ Reinspect(p)
      BY <2>2, <3>1, <3>6 DEF Inspect, Reinspect, world
    <3>7. CASE NetworkCreate(p) \/ NetworkConflict(p) \/ NetworkCreateFails(p)
      BY <2>2, <3>1, <3>7 DEF NetworkCreate, NetworkConflict, NetworkCreateFails, world
    <3>8. CASE Populate(p) \/ PopulateFails(p)
      BY <2>2, <3>8 DEF Populate, PopulateFails, FailFilesystem, Goto, Return, TypeOK
    <3>9. CASE NetworkRemove(p) \/ ListContents(p)
      BY <2>2, <3>9 DEF NetworkRemove, ListContents, Goto, TypeOK
    <3>10. CASE RemoveEntry(p) \/ RemoveEntryFails(p) \/ Cleaned(p)
      BY <2>2, <3>10 DEF RemoveEntry, RemoveEntryFails, Cleaned, Goto, TypeOK
    <3> QED
      BY <1>1, <3>2, <3>3, <3>4, <3>5, <3>6, <3>7, <3>8, <3>9, <3>10 DEF Work
  <2> QED
    BY <2>1, <2>2
<1>2. ASSUME NEW n \in Networks, OperatorNetwork(n)
      PROVE  ClearInv'
  BY <1>2 DEF OperatorNetwork, args
<1>3. ASSUME NEW r \in Roots, OperatorFile(r) \/ OperatorRemoves(r)
      PROVE  ClearInv'
  <2>1. ASSUME NEW q \in Procs, root[q] \in SerialRoots, Looked(q)
        PROVE  tree'[root[q]] = tree[root[q]]
    <3>1. Running(q)
      BY <2>1 DEF Running
    <3>2. root[q] \in Roots \ {r}
      BY <1>3, <2>1, <3>1, OperatorChange DEF Quiet, TypeOK
    <3> QED
      BY <1>3, <3>2, OperatorChange
  <2> QED
    BY <1>3, <2>1, OperatorChange
<1> QED
  BY <1>1, <1>2, <1>3 DEF Next
\* The operator keeps out of a directory somebody works in.
LEMMA OperatorUndisturbing ==
    ASSUME TypeOK, NEW r \in Roots, OperatorFile(r) \/ OperatorRemoves(r),
           NEW q \in Procs, Running(q), root[q] \in SerialRoots
    PROVE  tree'[root[q]] = tree[root[q]]
<1>1. root[q] \in Roots \ {r}
  BY OperatorChange DEF Quiet, TypeOK
<1> QED
  BY <1>1, OperatorChange

\* An invocation starts to fill its directory right after it has looked at it.
LEMMA FillingStep ==
    ASSUME TypeOK, ControlInv, NEW p \in Procs,
           Start(p) \/ Reject(p) \/ Work(p) \/ Crash(p), Filling(p)'
    PROVE  Filling(p) \/ (Looked(p) /\ tree' = tree)
<1> USE DEF Filling, Looked, ControlInv, TypeOK, Goto, Return, world
<1>1. CASE Start(p) \/ Reject(p) \/ Crash(p)
  BY <1>1 DEF Start, Reject, Crash
<1>2. CASE Stat(p) \/ MkdirRoot(p) \/ ListRoot(p)
  BY <1>2 DEF Stat, MkdirRoot, ListRoot, FailRoot, FailFilesystem, PassRoot
<1>3. CASE Inspect(p) \/ Reinspect(p)
  BY <1>3 DEF Inspect, Reinspect
<1>4. CASE NetworkCreate(p) \/ NetworkConflict(p) \/ NetworkCreateFails(p)
  BY <1>4 DEF NetworkCreate, NetworkConflict, NetworkCreateFails, PassNetwork
<1>5. CASE Populate(p) \/ PopulateFails(p)
  BY <1>5 DEF Populate, PopulateFails
<1>6. CASE NetworkRemove(p) \/ ListContents(p)
  BY <1>6 DEF NetworkRemove, ListContents
<1>7. CASE RemoveEntry(p) \/ RemoveEntryFails(p) \/ Cleaned(p)
  BY <1>7 DEF RemoveEntry, RemoveEntryFails, Cleaned
<1> QED
  BY <1>1, <1>2, <1>3, <1>4, <1>5, <1>6, <1>7 DEF Work

LEMMA StepOwn ==
    ASSUME TypeOK, ControlInv, AloneInv, ClearInv, OwnInv, Next
    PROVE  OwnInv'
<1> USE DEF OwnInv
<1>1. ASSUME NEW p \in Procs, Start(p) \/ Reject(p) \/ Work(p) \/ Crash(p)
      PROVE  OwnInv'
  <2>1. ASSUME NEW q \in Procs \ {p}, root'[q] \in SerialRoots, Filling(q)',
               NEW path \in Paths
        PROVE  tree'[root'[q]][path] \in {Nobody, q}
    <3>1. Filling(q) /\ root'[q] = root[q] /\ Running(q)
      BY <1>1, <2>1, OthersKept DEF Others, Running, Filling
    <3> QED
      BY <1>1, <2>1, <3>1, Undisturbed
  <2>2. ASSUME root'[p] \in SerialRoots, Filling(p)', NEW path \in Paths
        PROVE  tree'[root'[p]][path] \in {Nobody, p}
    <3>1. root' = root
      BY <1>1, OthersKept
    <3>2. CASE Filling(p)
      BY <1>1, <2>2, <3>1, <3>2, TreeStep, TreeChange
    <3>3. CASE Looked(p) /\ tree' = tree
      BY <2>2, <3>1, <3>3 DEF ClearInv, EmptyTree
    <3> QED
      BY <1>1, <2>2, <3>2, <3>3, FillingStep
  <2> QED
    BY <2>1, <2>2
<1>2. ASSUME NEW n \in Networks, OperatorNetwork(n)
      PROVE  OwnInv'
  BY <1>2 DEF OperatorNetwork, args, Filling
<1>3. ASSUME NEW r \in Roots, OperatorFile(r) \/ OperatorRemoves(r)
      PROVE  OwnInv'
  BY <1>3, OperatorChange, OperatorUndisturbing DEF Filling, Running
<1> QED
  BY <1>1, <1>2, <1>3 DEF Next

LEMMA LayoutInjective ==
    ASSUME NEW k \in Steps, NEW l \in Steps, k # l
    PROVE  Layout[k] # Layout[l]
BY DEF Steps, Layout

LEMMA StepFirst ==
    ASSUME TypeOK, FirstInv, Next
    PROVE  FirstInv'
<1> USE DEF FirstInv, Filling
<1>1. ASSUME NEW p \in Procs, Start(p) \/ Reject(p) \/ Work(p) \/ Crash(p)
      PROVE  FirstInv'
  <2>1. ASSUME NEW q \in Procs \ {p}, ~Filling(q)', pc'[q] # "done"
        PROVE  step'[q] = 1
    BY <1>1, <2>1, OthersKept DEF Others
  <2>2. CASE ~Filling(p) /\ pc[p] # "done"
    <3>1. step' = step
      BY <1>1, <2>2 DEF Start, Reject, Crash, Work, Stat, MkdirRoot, ListRoot, Inspect,
            NetworkCreate, NetworkConflict, NetworkCreateFails, Reinspect, Populate,
            PopulateFails, NetworkRemove, ListContents, RemoveEntry, RemoveEntryFails, Cleaned
    <3> QED
      BY <2>1, <2>2, <3>1
  <2>3. CASE pc[p] = "populate"
    <3>1. CASE Populate(p)
      BY <2>3, <3>1 DEF Populate, Return, Goto, TypeOK
    <3>2. CASE PopulateFails(p) \/ Crash(p)
      BY <2>3, <3>2 DEF PopulateFails, Crash, FailFilesystem, Return, Goto, TypeOK
    <3>3. Populate(p) \/ PopulateFails(p) \/ Crash(p)
      BY <1>1, <2>3 DEF Start, Reject, Work, Stat, MkdirRoot, ListRoot, Inspect,
            NetworkCreate, NetworkConflict, NetworkCreateFails, Reinspect,
            NetworkRemove, ListContents, RemoveEntry, RemoveEntryFails, Cleaned
    <3> QED
      BY <2>1, <2>3, <3>1, <3>2, <3>3
  <2>4. CASE pc[p] \in {"rmnet", "listclean", "clean", "done"}
    <3>1. pc'[p] \in {"rmnet", "listclean", "clean", "done"}
      BY <1>1, <2>4 DEF Start, Reject, Crash, Work, Stat, MkdirRoot, ListRoot, Inspect,
            NetworkCreate, NetworkConflict, NetworkCreateFails, Reinspect, Populate,
            PopulateFails, NetworkRemove, ListContents, RemoveEntry, RemoveEntryFails,
            Cleaned, Goto, Return, TypeOK
    <3> QED
      BY <2>1, <3>1
  <2> QED
    BY <2>2, <2>3, <2>4
<1>2. ASSUME NEW n \in Networks, OperatorNetwork(n)
      PROVE  FirstInv'
  BY <1>2 DEF OperatorNetwork
<1>3. ASSUME NEW r \in Roots, OperatorFile(r) \/ OperatorRemoves(r)
      PROVE  FirstInv'
  BY <1>3, OperatorChange
<1> QED
  BY <1>1, <1>2, <1>3 DEF Next

LEMMA StepPut ==
    ASSUME TypeOK, ControlInv, AloneInv, OwnInv, PutInv, FirstInv, FirstInv', Next
    PROVE  PutInv'
<1> USE DEF PutInv
<1>1. ASSUME NEW p \in Procs, Start(p) \/ Reject(p) \/ Work(p) \/ Crash(p)
      PROVE  PutInv'
  <2>1. ASSUME NEW q \in Procs \ {p}, root'[q] \in SerialRoots, pc'[q] = "populate",
               NEW k \in 1..(step'[q] - 1)
        PROVE  tree'[root'[q]][Layout[k]] = q
    <3>1. /\ pc[q] = "populate" /\ root'[q] = root[q] /\ step'[q] = step[q]
          /\ Running(q)
      BY <1>1, <2>1, OthersKept DEF Others, Running
    <3> QED
      BY <1>1, <2>1, <3>1, Undisturbed
  <2>2. ASSUME root'[p] \in SerialRoots, pc'[p] = "populate",
               NEW k \in 1..(step'[p] - 1)
        PROVE  tree'[root'[p]][Layout[k]] = p
    <3>1. root' = root
      BY <1>1, OthersKept
    <3>2. CASE Populate(p)
      <4>1. /\ pc[p] = "populate" /\ step'[p] = step[p] + 1 /\ WriteTo(p)
            /\ step[p] \in Steps /\ step'[p] \in Steps
        BY <2>2, <3>2 DEF Populate, Return, Goto, WriteTo, TypeOK, AtLast, Steps, Layout
      <4>2. k \in 1..(step[p] - 1) \/ k = step[p]
        BY <2>2, <4>1 DEF Steps
      <4>3. k \in Steps /\ root[p] \in Roots
        BY <2>2, <4>1 DEF Steps, TypeOK
      <4>4. CASE k = step[p]
        <5>1. tree[root[p]][Layout[k]] \in {Nobody, p}
          BY <2>2, <3>1, <4>1, <4>3, LayoutInPaths DEF OwnInv, Filling
        <5> QED
          BY <3>1, <4>1, <4>3, <4>4, <5>1, LayoutInPaths DEF WriteTo, Put, TypeOK
      <4>5. CASE k \in 1..(step[p] - 1)
        <5>1. tree[root[p]][Layout[k]] = p
          BY <2>2, <3>1, <4>1, <4>5
        <5>2. Layout[k] \in Paths
          BY <4>3, LayoutInPaths
        <5> QED
          BY <3>1, <4>1, <5>1, <5>2, TreeChange
      <4> QED
        BY <4>2, <4>4, <4>5
    <3>3. CASE ~Populate(p)
      <4>1. step'[p] = 1
        <5>1. pc[p] # "populate"
          <6>1. CASE pc[p] = "populate"
            <7>1. PopulateFails(p) \/ Crash(p)
              BY <1>1, <3>3, <6>1 DEF Start, Reject, Work, Stat, MkdirRoot, ListRoot,
                    Inspect, NetworkCreate, NetworkConflict, NetworkCreateFails, Reinspect,
                    NetworkRemove, ListContents, RemoveEntry, RemoveEntryFails, Cleaned
            <7> QED
              BY <2>2, <7>1 DEF PopulateFails, Crash, FailFilesystem, Goto, Return, TypeOK
          <6> QED
            BY <6>1
        <5>2. ~Filling(p) /\ pc[p] # "done"
          BY <1>1, <2>2, <5>1 DEF Filling, Start, Reject, Crash, Work, Stat, MkdirRoot,
                ListRoot, Inspect, NetworkCreate, NetworkConflict, NetworkCreateFails,
                Reinspect, Populate, PopulateFails, NetworkRemove, ListContents,
                RemoveEntry, RemoveEntryFails, Cleaned, Goto, Return, TypeOK
        <5>3. step'[p] = step[p]
          BY <1>1, <3>3 DEF Start, Reject, Crash, Work, Stat, MkdirRoot, ListRoot, Inspect,
                NetworkCreate, NetworkConflict, NetworkCreateFails, Reinspect,
                PopulateFails, NetworkRemove, ListContents, RemoveEntry,
                RemoveEntryFails, Cleaned
        <5> QED
          BY <5>2, <5>3 DEF FirstInv
      <4> QED
        BY <2>2, <4>1
    <3> QED
      BY <3>2, <3>3
  <2> QED
    BY <2>1, <2>2
<1>2. ASSUME NEW n \in Networks, OperatorNetwork(n)
      PROVE  PutInv'
  BY <1>2 DEF OperatorNetwork, args
<1>3. ASSUME NEW r \in Roots, OperatorFile(r) \/ OperatorRemoves(r)
      PROVE  PutInv'
  BY <1>3, OperatorChange, OperatorUndisturbing DEF Running
<1> QED
  BY <1>1, <1>2, <1>3 DEF Next
LEMMA EnsuredStays ==
    ASSUME TypeOK, NEW p \in Procs, Start(p) \/ Reject(p) \/ Work(p) \/ Crash(p), ensured[p]
    PROVE  ensured'[p]
<1> USE DEF TypeOK
<1>1. CASE Inspect(p) \/ Reinspect(p)
  BY <1>1 DEF Inspect, Reinspect, Verify, PassNetwork, DockerError
<1>2. CASE NetworkCreate(p)
  BY <1>2 DEF NetworkCreate, PassNetwork
<1>3. CASE ~(Inspect(p) \/ Reinspect(p) \/ NetworkCreate(p))
  <2>1. ensured' = ensured
    BY <1>3 DEF Start, Reject, Crash, Work, Stat, MkdirRoot, ListRoot, NetworkConflict,
          NetworkCreateFails, Populate, PopulateFails, NetworkRemove, ListContents,
          RemoveEntry, RemoveEntryFails, Cleaned
  <2> QED
    BY <2>1
<1> QED
  BY <1>1, <1>2, <1>3

LEMMA StepUntouched ==
    ASSUME TypeOK, ControlInv, UntouchedInv, Next
    PROVE  UntouchedInv'
<1> USE IdentityAssumption DEF UntouchedInv
<1>1. ASSUME NEW p \in Procs, Start(p) \/ Reject(p) \/ Work(p) \/ Crash(p)
      PROVE  UntouchedInv'
  <2>1. ASSUME NEW q \in Procs, ~ensured'[q]
        PROVE  ~ensured[q]
    BY <1>1, <2>1, OthersKept, EnsuredStays DEF Others
  <2>2. ASSUME NEW q \in Procs, ~ensured[q], NEW r \in Roots, NEW path \in Paths
        PROVE  tree'[r][path] # q
    <3>1. tree[r][path] # q
      BY <2>2
    <3>2. tree'[r][path] = tree[r][path] \/ (pc[p] = "populate" /\ tree'[r][path] = p)
             \/ tree'[r][path] = Nobody
      BY <1>1, TreeStep, TreeChange
    <3> QED
      BY <2>2, <3>1, <3>2 DEF ControlInv
  <2> QED
    BY <2>1, <2>2
<1>2. ASSUME NEW n \in Networks, OperatorNetwork(n)
      PROVE  UntouchedInv'
  BY <1>2 DEF OperatorNetwork
<1>3. ASSUME NEW r \in Roots, OperatorFile(r) \/ OperatorRemoves(r)
      PROVE  UntouchedInv'
  <2>1. ensured' = ensured
    BY <1>3, OperatorChange
  <2>2. ASSUME NEW q \in Procs, NEW s \in Roots, NEW path \in Paths, tree'[s][path] = q
        PROVE  tree[s][path] = q
    BY <1>3, <2>2, OperatorChange
  <2> QED
    BY <2>1, <2>2
<1> QED
  BY <1>1, <1>2, <1>3 DEF Next

LEMMA StepClean ==
    ASSUME TypeOK, AloneInv, CleanInv, Next
    PROVE  CleanInv'
<1> USE DEF CleanInv
<1>1. ASSUME NEW p \in Procs, Start(p) \/ Reject(p) \/ Work(p) \/ Crash(p)
      PROVE  CleanInv'
  <2>1. ASSUME NEW q \in Procs \ {p}, root'[q] \in SerialRoots, pc'[q] = "clean",
               NEW path \in Paths, tree'[root'[q]][path] = q
        PROVE  Entry[path] \in doomed'[q]
    <3>1. /\ pc[q] = "clean" /\ root'[q] = root[q] /\ doomed'[q] = doomed[q]
          /\ Running(q)
      BY <1>1, <2>1, OthersKept DEF Others, Running
    <3> QED
      BY <1>1, <2>1, <3>1, Undisturbed
  <2>2. ASSUME root'[p] \in SerialRoots, pc'[p] = "clean",
               NEW path \in Paths, tree'[root'[p]][path] = p
        PROVE  Entry[path] \in doomed'[p]
    <3>1. root' = root /\ root[p] \in Roots
      BY <1>1, OthersKept DEF TypeOK
    <3>2. CASE ListContents(p)
      <4>1. tree' = tree /\ doomed'[p] = Present(root[p])
        BY <2>2, <3>2 DEF ListContents, Goto, TypeOK, world
      <4> QED
        BY <2>2, <3>1, <4>1, IdentityAssumption DEF Present
    <3>3. CASE RemoveEntry(p)
      <4> DEFINE e == FirstOf(doomed[p])
      <4>1. /\ pc[p] = "clean"
            /\ doomed'[p] = doomed[p] \ {e}
            /\ tree'[root[p]][path] = IF Entry[path] = e THEN Nobody ELSE tree[root[p]][path]
        BY <3>1, <3>3 DEF RemoveEntry, TypeOK
      <4>2. Entry[path] # e /\ tree[root[p]][path] = p
        BY <2>2, <3>1, <4>1, IdentityAssumption
      <4> QED
        BY <2>2, <3>1, <4>1, <4>2
    <3>4. ListContents(p) \/ RemoveEntry(p)
      BY <1>1, <2>2 DEF Start, Reject, Crash, Work, Stat, MkdirRoot, ListRoot, Inspect,
            FailRoot, FailFilesystem, PassRoot, Verify, PassNetwork, DockerError,
            NetworkCreate, NetworkConflict, NetworkCreateFails, Reinspect, Populate,
            PopulateFails, NetworkRemove, RemoveEntryFails, Cleaned, Goto, Return, TypeOK
    <3> QED
      BY <3>2, <3>3, <3>4
  <2> QED
    BY <2>1, <2>2
<1>2. ASSUME NEW n \in Networks, OperatorNetwork(n)
      PROVE  CleanInv'
  BY <1>2 DEF OperatorNetwork, args
<1>3. ASSUME NEW r \in Roots, OperatorFile(r) \/ OperatorRemoves(r)
      PROVE  CleanInv'
  BY <1>3, OperatorChange, OperatorUndisturbing DEF Running
<1> QED
  BY <1>1, <1>2, <1>3 DEF Next

\* How an invocation that has failed comes to its end.
LEMMA EndStep ==
    ASSUME TypeOK, ControlInv, NEW p \in Procs,
           Start(p) \/ Reject(p) \/ Work(p) \/ Crash(p),
           pc'[p] = "done", Failed(p)', ~dirty'[p]
    PROVE  /\ tree' = tree
           /\ \/ ~ensured[p]
              \/ pc[p] = "listclean" /\ kind[root[p]] = "absent"
              \/ pc[p] = "clean" /\ doomed[p] = {}
<1> USE DEF ControlInv, TypeOK, Goto, Return, world
<1>1. CASE Start(p) \/ Reject(p) \/ Crash(p)
  BY <1>1 DEF Start, Reject, Crash, Failed
<1>2. CASE Stat(p) \/ MkdirRoot(p) \/ ListRoot(p)
  BY <1>2 DEF Stat, MkdirRoot, ListRoot, FailRoot, FailFilesystem, PassRoot
<1>3. CASE Inspect(p) \/ Reinspect(p)
  BY <1>3 DEF Inspect, Reinspect
<1>4. CASE NetworkCreate(p) \/ NetworkConflict(p) \/ NetworkCreateFails(p)
  BY <1>4 DEF NetworkCreate, NetworkConflict, NetworkCreateFails
<1>5. CASE Populate(p) \/ PopulateFails(p)
  BY <1>5 DEF Populate, PopulateFails, FailFilesystem, Failed
<1>6. CASE NetworkRemove(p) \/ ListContents(p)
  BY <1>6 DEF NetworkRemove, ListContents
<1>7. CASE RemoveEntry(p) \/ RemoveEntryFails(p) \/ Cleaned(p)
  BY <1>7 DEF RemoveEntry, RemoveEntryFails, Cleaned
<1> QED
  BY <1>1, <1>2, <1>3, <1>4, <1>5, <1>6, <1>7 DEF Work

LEMMA StepGone ==
    ASSUME TypeOK, ControlInv, KindInv, UntouchedInv, CleanInv, GoneInv, Next
    PROVE  GoneInv'
<1> USE IdentityAssumption DEF GoneInv
<1>1. ASSUME NEW p \in Procs, Start(p) \/ Reject(p) \/ Work(p) \/ Crash(p)
      PROVE  GoneInv'
  <2>1. ASSUME NEW q \in Procs \ {p}, root'[q] \in SerialRoots, pc'[q] = "done",
               Failed(q)', ~dirty'[q], NEW path \in Paths
        PROVE  tree'[root'[q]][path] # q
    <3>1. /\ pc[q] = "done" /\ root'[q] = root[q] /\ Failed(q) /\ ~dirty[q]
          /\ root[q] \in Roots
      BY <1>1, <2>1, OthersKept DEF Others, Failed, TypeOK
    <3>2. tree[root[q]][path] # q
      BY <2>1, <3>1
    <3>3. tree'[root[q]][path] \in {tree[root[q]][path], p, Nobody}
      BY <1>1, <3>1, TreeStep, TreeChange
    <3> QED
      BY <3>1, <3>2, <3>3
  <2>2. ASSUME root'[p] \in SerialRoots, pc'[p] = "done", Failed(p)', ~dirty'[p],
               NEW path \in Paths
        PROVE  tree'[root'[p]][path] # p
    <3>1. root' = root /\ root[p] \in Roots
      BY <1>1, OthersKept DEF TypeOK
    <3>2. tree' = tree
      BY <1>1, <2>2, EndStep
    <3>3. tree[root[p]][path] # p
      <4>1. CASE ~ensured[p]
        BY <3>1, <4>1 DEF UntouchedInv
      <4>2. CASE pc[p] = "listclean" /\ kind[root[p]] = "absent"
        BY <3>1, <4>2 DEF KindInv, EmptyTree
      <4>3. CASE pc[p] = "clean" /\ doomed[p] = {}
        BY <2>2, <3>1, <4>3 DEF CleanInv
      <4> QED
        BY <1>1, <2>2, <4>1, <4>2, <4>3, EndStep
    <3> QED
      BY <3>1, <3>2, <3>3
  <2> QED
    BY <2>1, <2>2
<1>2. ASSUME NEW n \in Networks, OperatorNetwork(n)
      PROVE  GoneInv'
  BY <1>2 DEF OperatorNetwork, args, Failed
<1>3. ASSUME NEW r \in Roots, OperatorFile(r) \/ OperatorRemoves(r)
      PROVE  GoneInv'
  <2>1. ASSUME NEW q \in Procs, NEW s \in Roots, NEW path \in Paths, tree'[s][path] = q
        PROVE  tree[s][path] = q
    BY <1>3, <2>1, OperatorChange
  <2>2. UNCHANGED <<pc, root, outcome, dirty>>
    BY <1>3, OperatorChange
  <2> QED
    BY <2>1, <2>2 DEF Failed, TypeOK
<1> QED
  BY <1>1, <1>2, <1>3 DEF Next

\* Where an initialised runtime is, nobody fills or cleans a directory.
LEMMA CompleteAlone ==
    ASSUME ControlInv, OwnInv, NEW p \in Procs, Complete(p), outcome[p] = "ok",
           root[p] \in SerialRoots, NEW q \in Procs, Filling(q)
    PROVE  root[q] # root[p]
<1>1. 5 \in Steps /\ Layout[5] = ".env" /\ ".env" \in Paths /\ IsFile(5)
  BY DEF Steps, Layout, Paths, IsFile
<1>2. tree[root[p]][".env"] = p
  BY <1>1 DEF Complete
<1>3. p # q
  BY DEF ControlInv, Filling
<1> QED
  BY <1>1, <1>2, <1>3, IdentityAssumption DEF OwnInv

LEMMA StepComplete ==
    ASSUME TypeOK, ControlInv, OwnInv, PutInv, InitializedRuntimeStays, Next
    PROVE  InitializedRuntimeStays'
<1> USE IdentityAssumption DEF InitializedRuntimeStays
<1>1. ASSUME NEW p \in Procs, Start(p) \/ Reject(p) \/ Work(p) \/ Crash(p)
      PROVE  InitializedRuntimeStays'
  <2>0. root' = root
    BY <1>1, OthersKept
  <2>1. ASSUME NEW q \in Procs, outcome[q] = "ok", root[q] \in SerialRoots
        PROVE  Complete(q)'
    <3>1. Complete(q) /\ root[q] \in Roots
      BY <2>1 DEF TypeOK
    <3>2. tree'[root[q]] = tree[root[q]]
      <4>1. CASE UNCHANGED <<kind, tree>> \/ MakeRoot(p)
        BY <4>1 DEF MakeRoot
      <4>2. CASE WriteTo(p) \/ RemoveEntry(p)
        <5>1. Filling(p)
          BY <4>2 DEF WriteTo, RemoveEntry, Filling
        <5>2. root[q] \in Roots \ {root[p]}
          BY <2>1, <3>1, <5>1, CompleteAlone
        <5> QED
          BY <4>2, <5>2, TreeChange
      <4> QED
        BY <1>1, <4>1, <4>2, TreeStep
    <3> QED
      BY <2>0, <3>1, <3>2 DEF Complete
  <2>2. ASSUME outcome[p] # "ok", outcome'[p] = "ok", root[p] \in SerialRoots
        PROVE  Complete(p)'
    <3>1. Populate(p) /\ AtLast(p)
      BY <1>1, <2>2 DEF Start, Reject, Crash, Work, Stat, MkdirRoot, ListRoot, Inspect,
            FailRoot, FailFilesystem, PassRoot, Verify, PassNetwork, DockerError,
            NetworkCreate, NetworkConflict, NetworkCreateFails, Reinspect, Populate,
            PopulateFails, NetworkRemove, ListContents, RemoveEntry, RemoveEntryFails,
            Cleaned, Goto, Return, TypeOK
    <3>2. pc[p] = "populate" /\ WriteTo(p) /\ step[p] = 7 /\ root[p] \in Roots
      BY <3>1 DEF Populate, WriteTo, AtLast, Layout, TypeOK
    <3>3. ASSUME NEW k \in Steps
          PROVE  tree'[root[p]][Layout[k]] = p
      <4>1. CASE k = 7
        <5>1. tree[root[p]][Layout[7]] \in {Nobody, p}
          BY <2>2, <3>2, <4>1, LayoutInPaths DEF OwnInv, Filling
        <5> QED
          BY <3>2, <4>1, <5>1, LayoutInPaths DEF WriteTo, Put, TypeOK
      <4>2. CASE k \in 1..6
        <5>1. tree[root[p]][Layout[k]] = p
          BY <2>2, <3>2, <4>2 DEF PutInv
        <5> QED
          BY <3>2, <5>1, LayoutInPaths, TreeChange
      <4> QED
        BY <4>1, <4>2 DEF Steps
    <3> QED
      BY <2>0, <3>3 DEF Complete
  <2>3. ASSUME NEW q \in Procs \ {p}, outcome'[q] = "ok"
        PROVE  outcome[q] = "ok"
    BY <1>1, <2>3, OthersKept DEF Others
  <2> QED
    BY <2>0, <2>1, <2>2, <2>3
<1>2. ASSUME NEW n \in Networks, OperatorNetwork(n)
      PROVE  InitializedRuntimeStays'
  BY <1>2 DEF OperatorNetwork, args, Complete
<1>3. ASSUME NEW r \in Roots, OperatorFile(r) \/ OperatorRemoves(r)
      PROVE  InitializedRuntimeStays'
  <2>1. ASSUME NEW q \in Procs, outcome[q] = "ok", root[q] \in SerialRoots, NEW k \in Steps
        PROVE  tree'[root[q]][Layout[k]] = tree[root[q]][Layout[k]]
    <3>1. root[q] \in Roots /\ Layout[k] \in Paths
      BY LayoutInPaths DEF TypeOK
    <3>2. Layout[k] # "existing.txt"
      BY DEF Steps, Layout
    <3>3. OperatorRemoves(r) => root[q] # r
      BY <2>1 DEF OperatorRemoves
    <3> QED
      BY <1>3, <3>1, <3>2, <3>3, OperatorChange
  <2>2. UNCHANGED <<root, outcome>>
    BY <1>3, OperatorChange
  <2> QED
    BY <2>1, <2>2 DEF Complete
<1> QED
  BY <1>1, <1>2, <1>3 DEF Next
LEMMA InitDirectoryInv == Init => DirectoryInv
<1> SUFFICES ASSUME Init
             PROVE  DirectoryInv
  OBVIOUS
<1>1. KindInv
  BY DEF Init, KindInv
<1>2. AloneInv /\ ClearInv /\ OwnInv /\ PutInv /\ FirstInv /\ CleanInv /\ GoneInv
  BY DEF Init, AloneInv, Running, ClearInv, Looked, OwnInv, Filling, PutInv, FirstInv,
         CleanInv, GoneInv
<1>3. UntouchedInv
  BY IdentityAssumption DEF Init, UntouchedInv, EmptyTree
<1>4. InitializedRuntimeStays
  BY DEF Init, InitializedRuntimeStays
<1> QED
  BY <1>1, <1>2, <1>3, <1>4 DEF DirectoryInv

LEMMA StepDirectoryInv ==
    TypeOK /\ ControlInv /\ DirectoryInv /\ [Next]_vars => DirectoryInv'
<1>1. ASSUME TypeOK, ControlInv, DirectoryInv, Next
      PROVE  DirectoryInv'
  <2> USE <1>1 DEF DirectoryInv
  <2>1. KindInv' /\ AloneInv'
    BY StepKind, StepAlone
  <2>2. ClearInv' /\ OwnInv'
    BY StepClear, StepOwn
  <2>3. FirstInv'
    BY StepFirst
  <2>4. PutInv'
    BY <2>3, StepPut
  <2>5. UntouchedInv' /\ CleanInv'
    BY StepUntouched, StepClean
  <2>6. GoneInv' /\ InitializedRuntimeStays'
    BY StepGone, StepComplete
  <2> QED
    BY <2>1, <2>2, <2>3, <2>4, <2>5, <2>6
<1>2. ASSUME DirectoryInv, UNCHANGED vars
      PROVE  DirectoryInv'
  BY <1>2 DEF vars, args, DirectoryInv, KindInv, AloneInv, Running, ClearInv, Looked,
              OwnInv, Filling, PutInv, FirstInv, UntouchedInv, CleanInv, GoneInv, Failed,
              InitializedRuntimeStays, Complete
<1> QED
  BY <1>1, <1>2

\* The strengthening of what is said of runtime directories: who has put what where,
\* and what the program counter of an invocation says of its directory.
THEOREM DirectoryInvariant == Spec => []DirectoryInv
<1>1. NetworkInv => ControlInv
  BY DEF NetworkInv
<1> QED
  BY <1>1, InitDirectoryInv, StepDirectoryInv, TypeCorrect, NetworkInvariant, PTL DEF Spec

\* An initialised runtime is complete from then on, as long as nobody else works in
\* its directory at the time.
THEOREM RuntimeStays == Spec => []InitializedRuntimeStays
<1>1. DirectoryInv => InitializedRuntimeStays
  BY DEF DirectoryInv
<1> QED
  BY <1>1, DirectoryInvariant, PTL

\* The clean-up, which removes every entry of the directory, removes only what its
\* own invocation has put there.
THEOREM CleanupRemovesOwn == Spec => OnlyOwnEntriesRemoved
<1> DEFINE A == \A r \in SerialRoots : \A path \in Paths :
                  tree[r][path] # Nobody /\ tree'[r][path] # tree[r][path] =>
                      \/ tree[r][path] \in Procs /\ pc[tree[r][path]] = "clean"
                      \/ kind'[r] = "absent"
<1>1. ASSUME TypeOK, OwnInv, Next
      PROVE  A
  <2>1. ASSUME NEW p \in Procs, Start(p) \/ Reject(p) \/ Work(p) \/ Crash(p),
               NEW r \in SerialRoots, NEW path \in Paths,
               tree[r][path] # Nobody, tree'[r][path] # tree[r][path]
        PROVE  tree[r][path] \in Procs /\ pc[tree[r][path]] = "clean"
    <3>0. r \in Roots
      BY EnvironmentAssumption
    <3>1. r = root[p]
      BY <1>1, <2>1, <3>0, TreeStep, TreeChange
    <3>2. pc[p] = "clean" \/ (pc[p] = "populate" /\ tree'[r][path] = p)
      BY <1>1, <2>1, <3>1, TreeStep, TreeChange
    <3>3. tree[r][path] = p
      BY <1>1, <2>1, <3>1, <3>2 DEF OwnInv, Filling
    <3> QED
      BY <2>1, <3>2, <3>3
  <2>2. ASSUME NEW n \in Networks, OperatorNetwork(n)
        PROVE  A
    BY <2>2 DEF OperatorNetwork
  <2>3. ASSUME NEW r \in Roots, OperatorFile(r)
        PROVE  A
    BY <1>1, <2>3 DEF OperatorFile, TypeOK
  <2>4. ASSUME NEW r \in Roots, OperatorRemoves(r)
        PROVE  A
    BY <1>1, <2>4 DEF OperatorRemoves, TypeOK
  <2> QED
    BY <1>1, <2>1, <2>2, <2>3, <2>4 DEF Next
<1>2. ASSUME UNCHANGED vars
      PROVE  A
  BY <1>2 DEF vars
<1>3. TypeOK /\ DirectoryInv /\ [Next]_vars => [A]_vars
  BY <1>1, <1>2 DEF DirectoryInv
<1> QED
  BY <1>3, TypeCorrect, DirectoryInvariant, PTL DEF Spec, OnlyOwnEntriesRemoved

-----------------------------------------------------------------------------
\* What an invocation that has failed leaves of its network.

\* A clean-up without an error has removed the network that was created...
NetGoneInv ==
    \A p \in Procs : created[p] /\ Failed(p) /\ pc[p] # "rmnet" /\ ~dirty[p] =>
        \A n \in Networks : network[n] # p

\* ...and, unless the daemon's answer is lost, there is no other one.
NetFreshInv ==
    \A p \in Procs : ~created[p] /\ "lostReply" \notin Faults =>
        \A n \in Networks : network[n] # p

LEMMA StepNetFresh ==
    ASSUME TypeOK, NetworkInv, NetFreshInv, Next
    PROVE  NetFreshInv'
<1> USE IdentityAssumption DEF NetFreshInv, TypeOK
<1>1. ASSUME NEW p \in Procs, Start(p) \/ Reject(p) \/ Work(p) \/ Crash(p)
      PROVE  NetFreshInv'
  <2>1. CASE NetworkCreate(p)
    BY <2>1 DEF NetworkCreate, PassNetwork
  <2>2. CASE NetworkCreateFails(p)
    BY <2>2 DEF NetworkCreateFails
  <2>3. CASE NetworkRemove(p)
    BY <2>3 DEF NetworkRemove
  <2>4. CASE Inspect(p) \/ Reinspect(p)
    <3>1. ~Owns(p)
      BY <2>4 DEF Inspect, Reinspect, Owns, NetworkInv, FreshInv, ControlInv
    <3>2. created' = created /\ network' = network
      BY <2>4, <3>1 DEF Inspect, Reinspect, Verify, DockerError, world
    <3> QED
      BY <3>2
  <2>5. CASE ~(NetworkCreate(p) \/ NetworkCreateFails(p) \/ NetworkRemove(p)
               \/ Inspect(p) \/ Reinspect(p))
    <3>1. created' = created /\ network' = network
      BY <1>1, <2>5 DEF Start, Reject, Crash, Work, Stat, MkdirRoot, ListRoot,
            NetworkConflict, Populate, PopulateFails, ListContents, RemoveEntry,
            RemoveEntryFails, Cleaned, world
    <3> QED
      BY <3>1
  <2> QED
    BY <2>1, <2>2, <2>3, <2>4, <2>5
<1>2. ASSUME NEW n \in Networks, OperatorNetwork(n)
      PROVE  NetFreshInv'
  BY <1>2 DEF OperatorNetwork
<1>3. ASSUME NEW r \in Roots, OperatorFile(r) \/ OperatorRemoves(r)
      PROVE  NetFreshInv'
  BY <1>3 DEF OperatorFile, OperatorRemoves
<1> QED
  BY <1>1, <1>2, <1>3 DEF Next

\* When the look at the directory fails, the network that was created is removed.
LEMMA CreatorsRemove ==
    ASSUME TypeOK, ControlInv, NEW p \in Procs, Stat(p) \/ MkdirRoot(p) \/ ListRoot(p),
           created'[p], Failed(p)'
    PROVE  pc'[p] = "rmnet"
<1>1. created'[p] = created[p] /\ created[p] /\ ensured[p]
  BY DEF Stat, MkdirRoot, ListRoot, ControlInv
<1>2. outcome[p] = "none"
  BY DEF Stat, MkdirRoot, ListRoot, ControlInv
<1>3. outcome' # outcome
  BY <1>2 DEF Failed
<1> QED
  BY <1>1, <1>3 DEF Stat, MkdirRoot, ListRoot, FailRoot, FailFilesystem, PassRoot, Goto, TypeOK

LEMMA StepNetGone ==
    ASSUME TypeOK, NetworkInv, NetGoneInv, Next
    PROVE  NetGoneInv'
<1> USE IdentityAssumption DEF NetGoneInv, Failed
<1>1. ASSUME NEW p \in Procs, Start(p) \/ Reject(p) \/ Work(p) \/ Crash(p)
      PROVE  NetGoneInv'
  <2>1. ASSUME NEW q \in Procs \ {p}, created'[q], Failed(q)', pc'[q] # "rmnet",
               ~dirty'[q], NEW n \in Networks
        PROVE  network'[n] # q
    <3>1. network[n] # q
      BY <1>1, <2>1, OthersKept DEF Others
    <3>2. network' = network \/ Claimed(p) \/ Removed(p)
      BY <1>1, InvocationNetworkStep
    <3> QED
      BY <3>1, <3>2 DEF Claimed, Removed, TypeOK
  <2>2. ASSUME created'[p], Failed(p)', pc'[p] # "rmnet", ~dirty'[p], NEW n \in Networks
        PROVE  network'[n] # p
    <3> USE <2>2 DEF TypeOK, Goto, Return, NetworkInv, ControlInv
    <3>1. CASE Start(p) \/ Reject(p) \/ Crash(p)
      <4>1. CASE Start(p)
        BY <4>1 DEF Start
      <4>2. CASE Reject(p)
        BY <4>2 DEF Reject
      <4>3. CASE Crash(p)
        BY <4>3 DEF Crash
      <4> QED
        BY <3>1, <4>1, <4>2, <4>3
    <3>2. CASE Stat(p) \/ MkdirRoot(p) \/ ListRoot(p)
      BY <2>2, <3>2, CreatorsRemove
    <3>3. CASE Inspect(p) \/ Reinspect(p)
      BY <3>3 DEF Inspect, Reinspect, Verify, PassNetwork, DockerError
    <3>4. CASE NetworkCreate(p) \/ NetworkConflict(p) \/ NetworkCreateFails(p)
      BY <3>4 DEF NetworkCreate, NetworkConflict, NetworkCreateFails, PassNetwork
    <3>5. CASE Populate(p) \/ PopulateFails(p)
      BY <3>5 DEF Populate, PopulateFails, FailFilesystem
    <3>6. CASE NetworkRemove(p)
      <4>1. network' = [network EXCEPT ![net[p]] = NoNetwork]
        BY <3>6 DEF NetworkRemove
      <4> QED
        BY <4>1 DEF NameInv
    <3>7. CASE ListContents(p) \/ RemoveEntry(p) \/ RemoveEntryFails(p) \/ Cleaned(p)
      BY <3>7 DEF ListContents, RemoveEntry, RemoveEntryFails, Cleaned, world
    <3> QED
      BY <1>1, <3>1, <3>2, <3>3, <3>4, <3>5, <3>6, <3>7 DEF Work
  <2> QED
    BY <2>1, <2>2
<1>2. ASSUME NEW n \in Networks, OperatorNetwork(n)
      PROVE  NetGoneInv'
  BY <1>2 DEF OperatorNetwork, TypeOK
<1>3. ASSUME NEW r \in Roots, OperatorFile(r) \/ OperatorRemoves(r)
      PROVE  NetGoneInv'
  BY <1>3 DEF OperatorFile, OperatorRemoves
<1> QED
  BY <1>1, <1>2, <1>3 DEF Next

\* An invocation that fails, and whose clean-up meets no error, leaves neither files
\* nor a network behind.
THEOREM FailureIsUndone == Spec => []FailureLeavesNothing
<1>1. Init => NetFreshInv /\ NetGoneInv
  BY IdentityAssumption DEF Init, NetFreshInv, NetGoneInv
<1>2. TypeOK /\ NetworkInv /\ NetFreshInv /\ NetGoneInv /\ [Next]_vars
        => (NetFreshInv /\ NetGoneInv)'
  <2>1. ASSUME NetFreshInv, NetGoneInv, UNCHANGED vars
        PROVE  (NetFreshInv /\ NetGoneInv)'
    BY <2>1 DEF vars, NetFreshInv, NetGoneInv, Failed
  <2> QED
    BY <2>1, StepNetFresh, StepNetGone
<1>3. TypeOK /\ NetworkInv /\ DirectoryInv /\ NetFreshInv /\ NetGoneInv
        => FailureLeavesNothing
  BY DEF DirectoryInv, GoneInv, NetFreshInv, NetGoneInv, FailureLeavesNothing, Failed,
         NetworkInv, ControlInv, TypeOK
<1> QED
  BY <1>1, <1>2, <1>3, TypeCorrect, NetworkInvariant, DirectoryInvariant, PTL DEF Spec
=============================================================================
