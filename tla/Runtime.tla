------------------------------ MODULE Runtime ------------------------------
(***************************************************************************)
(* `radius-director init <runtime-directory> <network-name>`: every         *)
(* invocation of the command is a process that checks the runtime           *)
(* directory, makes sure the Docker network exists, checks the directory    *)
(* again, fills it, and undoes its work when filling it fails.  Several     *)
(* invocations may run at the same time, on the same or on different        *)
(* directories and networks, and share the filesystem and the Docker daemon.*)
(*                                                                         *)
(* One action is one system call or one request to the Docker daemon.       *)
(*                                                                         *)
(* runtime.New draws a random runtime ID for each invocation and nothing    *)
(* else ever holds that ID, so the invocation p itself stands for the ID.   *)
(***************************************************************************)
EXTENDS Naturals, Sequences

CONSTANTS
    Procs,          \* the invocations of `init`, each one also its runtime ID
    Roots,          \* runtime directories
    Networks,       \* Docker network names
    Nobody,         \* marks a path that does not exist
    Operator,       \* the writer of what no invocation wrote
    NoNetwork,      \* marks a network name the daemon does not know
    Unlabelled,     \* a network without the runtime-id label
    Faults,         \* what may go wrong, a subset of AllFaults
    SerialRoots,    \* directories nobody touches while an init runs in them
    Placements      \* which invocations get which directories

AllFaults == {"io", "docker", "lostReply", "crash"}

ASSUME IdentityAssumption ==
    /\ Nobody \notin Procs \cup {Operator}
    /\ Operator \notin Procs
    /\ NoNetwork \notin Procs \cup {Unlabelled}
    /\ Unlabelled \notin Procs

ASSUME EnvironmentAssumption ==
    /\ Faults \subseteq AllFaults
    /\ Placements \subseteq [Procs -> Roots]
    /\ SerialRoots \subseteq Roots

-----------------------------------------------------------------------------
\* The runtime directory.

\* What InitializeFilesystem creates, in its order: four directories, then
\* three files.
Layout ==
    << "assets/templates", "assets/schemas", "config", "generated",
       ".env", "config/example.yaml", "compose.yaml" >>

Steps == 1..7
IsFile(k) == k \in 5..7

\* "existing.txt" stands for whatever an operator keeps in the directory.
Paths == {Layout[k] : k \in Steps} \cup {"existing.txt"}

\* The entry of the directory that holds a path: what ReadDir lists and
\* RemoveAll takes away with everything below it.
Entry == [path \in Paths |->
            CASE path \in {"assets/templates", "assets/schemas"} -> "assets"
              [] path = "config/example.yaml"                    -> "config"
              [] OTHER                                           -> path]

Entries == {Entry[path] : path \in Paths}

\* ReadDir sorts by name.
Rank == [e \in Entries |->
           CASE e = ".env"         -> 1
             [] e = "assets"       -> 2
             [] e = "compose.yaml" -> 3
             [] e = "config"       -> 4
             [] e = "existing.txt" -> 5
             [] e = "generated"    -> 6]

FirstOf(D) == CHOOSE e \in D : \A f \in D : Rank[e] <= Rank[f]

VARIABLES
    kind,       \* kind[r]: what is at r
    tree,       \* tree[r][path]: who wrote the path, Nobody when it is absent
    network     \* network[n]: the runtime ID the network's label carries

VARIABLES
    pc,         \* the call the invocation makes next
    root,       \* its arguments
    net,
    ensured,    \* EnsureDockerNetwork has returned without an error
    created,    \* networkCreated
    step,       \* the next element of Layout to create
    doomed,     \* entries cleanupRuntimeContents has listed and not removed
    outcome,    \* why the invocation ends, "none" while it is undecided
    dirty       \* cleanupErrors is not empty

world == <<kind, tree, network>>
args  == <<root, net>>
vars  == <<kind, tree, network, pc, root, net, ensured, created, step,
           doomed, outcome, dirty>>

Locations ==
    {"idle", "stat", "mkroot", "list", "inspect", "create", "reinspect",
     "populate", "rmnet", "listclean", "clean", "done"}

Outcomes ==
    {"none", "ok", "rejected", "badRoot", "badNetwork", "dockerError",
     "ioError", "crashed"}

TypeOK ==
    /\ kind    \in [Roots -> {"absent", "file", "dir"}]
    /\ tree    \in [Roots -> [Paths -> Procs \cup {Nobody, Operator}]]
    /\ network \in [Networks -> Procs \cup {NoNetwork, Unlabelled}]
    /\ pc      \in [Procs -> Locations]
    /\ root    \in [Procs -> Roots]
    /\ net     \in [Procs -> Networks]
    /\ ensured \in [Procs -> BOOLEAN]
    /\ created \in [Procs -> BOOLEAN]
    /\ step    \in [Procs -> Steps]
    /\ doomed  \in [Procs -> SUBSET Entries]
    /\ outcome \in [Procs -> Outcomes]
    /\ dirty   \in [Procs -> BOOLEAN]

-----------------------------------------------------------------------------
EmptyTree == [path \in Paths |-> Nobody]

Present(r) == {Entry[path] : path \in {q \in Paths : tree[r][q] # Nobody}}

\* A directory may be missing, be a file, be empty, or hold an operator's work.
Init ==
    /\ kind \in [Roots -> {"absent", "file", "dir"}]
    /\ tree \in [Roots -> {EmptyTree, [EmptyTree EXCEPT !["existing.txt"] = Operator]}]
    /\ \A r \in Roots : kind[r] # "dir" => tree[r] = EmptyTree
    /\ network \in [Networks -> {NoNetwork, Unlabelled}]
    /\ pc = [p \in Procs |-> "idle"]
    /\ root \in Placements
    /\ \A r \in Roots : (\A p \in Procs : root[p] # r) => kind[r] = "absent"
    /\ net \in [Procs -> Networks]
    /\ ensured = [p \in Procs |-> FALSE]
    /\ created = [p \in Procs |-> FALSE]
    /\ step = [p \in Procs |-> 1]
    /\ doomed = [p \in Procs |-> {}]
    /\ outcome = [p \in Procs |-> "none"]
    /\ dirty = [p \in Procs |-> FALSE]

Running(p) == pc[p] \notin {"idle", "done"}

\* Nobody works in r right now.
Quiet(r) == \A q \in Procs : Running(q) => root[q] # r

\* Where control goes.
Goto(p, l) == pc' = [pc EXCEPT ![p] = l]

Return(p, why) ==
    /\ Goto(p, "done")
    /\ outcome' = [outcome EXCEPT ![p] = why]

\* Mutant: initialize forgets the network it has created.
FailKeepsNetwork(p, why) ==
    /\ Goto(p, "listclean")
    /\ outcome' = [outcome EXCEPT ![p] = why]

\* An error of InitializeFilesystem: initialize starts to clean up.
FailFilesystem(p, why) ==
    /\ Goto(p, IF created[p] THEN "rmnet" ELSE "listclean")
    /\ outcome' = [outcome EXCEPT ![p] = why]

\* Mutants: every error of ensureRuntimeRoot, or none, is cleaned up after.
FailAlwaysCleans(p, why) == FailFilesystem(p, why)
FailNeverCleans(p, why) == Return(p, why)

\* ensureRuntimeRoot returns an error: initialize gives up at once, or, when
\* the call is the one inside InitializeFilesystem, cleans up first.
FailRoot(p, why) ==
    IF ensured[p] THEN FailFilesystem(p, why) ELSE Return(p, why)

\* ensureRuntimeRoot returns nil.
PassRoot(p) ==
    /\ Goto(p, IF ensured[p] THEN "populate" ELSE "inspect")
    /\ UNCHANGED outcome

\* EnsureDockerNetwork returns (made, nil).
PassNetwork(p, made) ==
    /\ ensured' = [ensured EXCEPT ![p] = TRUE]
    /\ created' = [created EXCEPT ![p] = made]
    /\ Goto(p, "stat")
    /\ UNCHANGED outcome

-----------------------------------------------------------------------------
\* main and Init: the Docker client, New and currentRuntimeIdentity.

Start(p) ==
    /\ pc[p] = "idle"
    /\ root[p] \in SerialRoots => Quiet(root[p])
    /\ Goto(p, "stat")
    /\ UNCHANGED <<world, args, ensured, created, step, doomed, outcome, dirty>>

\* No Docker client, an empty or padded network name, no random bytes.
Reject(p) ==
    /\ pc[p] = "idle"
    /\ Return(p, "rejected")
    /\ UNCHANGED <<world, args, ensured, created, step, doomed, dirty>>

-----------------------------------------------------------------------------
\* ensureRuntimeRoot, called by initialize and again by InitializeFilesystem.

Stat(p) ==
    /\ pc[p] = "stat"
    /\ \/ /\ kind[root[p]] = "absent"
          /\ Goto(p, "mkroot")
          /\ UNCHANGED outcome
       \/ /\ kind[root[p]] = "dir"
          /\ Goto(p, "list")
          /\ UNCHANGED outcome
       \/ /\ kind[root[p]] = "file"
          /\ FailRoot(p, "badRoot")
       \/ /\ "io" \in Faults
          /\ FailRoot(p, "ioError")
    /\ UNCHANGED <<world, args, ensured, created, step, doomed, dirty>>

\* MkdirAll succeeds when the directory has appeared in the meantime, and
\* what it then holds is not looked at.
MkdirRoot(p) ==
    /\ pc[p] = "mkroot"
    /\ \/ /\ kind[root[p]] # "file"
          /\ kind' = [kind EXCEPT ![root[p]] = "dir"]
          /\ PassRoot(p)
       \/ /\ kind[root[p]] = "file" \/ "io" \in Faults
          /\ FailRoot(p, "ioError")
          /\ UNCHANGED kind
    /\ UNCHANGED <<tree, network, args, ensured, created, step, doomed, dirty>>

\* Mutants: only a runtime's own marker file counts; no directory will do.
RootWithoutCompose(r) == tree[r]["compose.yaml"] = Nobody
RootNever(r) == FALSE

EmptyRoot(r) == Present(r) = {}

ListRoot(p) ==
    /\ pc[p] = "list"
    /\ \/ /\ kind[root[p]] = "dir" /\ EmptyRoot(root[p])
          /\ PassRoot(p)
       \/ /\ kind[root[p]] = "dir" /\ ~EmptyRoot(root[p])
          /\ FailRoot(p, "badRoot")
       \/ /\ kind[root[p]] # "dir" \/ "io" \in Faults
          /\ FailRoot(p, "ioError")
    /\ UNCHANGED <<world, args, ensured, created, step, doomed, dirty>>

-----------------------------------------------------------------------------
\* EnsureDockerNetwork.

\* Mutant: the label only has to be there.
OwnsAnyLabel(p) == network[net[p]] # Unlabelled

\* verifyRuntimeNetwork: the label is there and is this runtime's own ID.
Owns(p) == network[net[p]] = p

\* What EnsureDockerNetwork does with the network an inspection has found.
Verify(p) ==
    \/ /\ Owns(p)
       /\ PassNetwork(p, FALSE)
    \/ /\ ~Owns(p)
       /\ Return(p, "badNetwork")
       /\ UNCHANGED <<ensured, created>>

DockerError(p) ==
    /\ "docker" \in Faults
    /\ Return(p, "dockerError")
    /\ UNCHANGED <<ensured, created>>

Inspect(p) ==
    /\ pc[p] = "inspect"
    /\ \/ /\ network[net[p]] # NoNetwork
          /\ Verify(p)
       \/ /\ network[net[p]] = NoNetwork
          /\ Goto(p, "create")
          /\ UNCHANGED <<ensured, created, outcome>>
       \/ DockerError(p)
    /\ UNCHANGED <<world, args, step, doomed, dirty>>

NetworkCreate(p) ==
    /\ pc[p] = "create"
    /\ network[net[p]] = NoNetwork
    /\ network' = [network EXCEPT ![net[p]] = p]
    /\ PassNetwork(p, TRUE)
    /\ UNCHANGED <<kind, tree, args, step, doomed, dirty>>

\* Mutant: AlreadyExists counts as success.
ConflictIsCreation(p) ==
    /\ pc[p] = "create"
    /\ network[net[p]] # NoNetwork
    /\ PassNetwork(p, TRUE)
    /\ UNCHANGED <<world, args, step, doomed, dirty>>

\* The daemon answers AlreadyExists: look again at who owns the network.
NetworkConflict(p) ==
    /\ pc[p] = "create"
    /\ network[net[p]] # NoNetwork
    /\ Goto(p, "reinspect")
    /\ UNCHANGED <<world, args, ensured, created, step, doomed, outcome, dirty>>

\* Any other error of NetworkCreate.  When only the daemon's answer is lost,
\* the network exists all the same.
NetworkCreateFails(p) ==
    /\ pc[p] = "create"
    /\ \/ /\ "docker" \in Faults
          /\ UNCHANGED network
       \/ /\ "lostReply" \in Faults
          /\ network[net[p]] = NoNetwork
          /\ network' = [network EXCEPT ![net[p]] = p]
    /\ Return(p, "dockerError")
    /\ UNCHANGED <<kind, tree, args, ensured, created, step, doomed, dirty>>

Reinspect(p) ==
    /\ pc[p] = "reinspect"
    /\ \/ /\ network[net[p]] # NoNetwork
          /\ Verify(p)
       \/ /\ network[net[p]] = NoNetwork
          /\ Return(p, "dockerError")
          /\ UNCHANGED <<ensured, created>>
       \/ DockerError(p)
    /\ UNCHANGED <<world, args, step, doomed, dirty>>

-----------------------------------------------------------------------------
\* InitializeFilesystem after its check of the directory.

\* MkdirAll makes the parents it misses and leaves a directory that is there
\* alone; WriteFile replaces a file and needs its parent.
Ready(p) ==
    IsFile(step[p]) =>
      /\ kind[root[p]] = "dir"
      /\ step[p] = 6 => tree[root[p]]["config"] # Nobody

Put(p) ==
    LET path == Layout[step[p]] IN
    /\ tree' = [tree EXCEPT ![root[p]][path] =
                  IF ~IsFile(step[p]) /\ @ # Nobody THEN @ ELSE p]
    /\ kind' = [kind EXCEPT ![root[p]] = "dir"]

\* Mutant: the loop runs once too often.
BeyondLast(p) == step[p] > Len(Layout)

AtLast(p) == step[p] = Len(Layout)

Populate(p) ==
    /\ pc[p] = "populate"
    /\ Ready(p)
    /\ Put(p)
    /\ IF AtLast(p)
         THEN Return(p, "ok") /\ UNCHANGED step
         ELSE /\ step' = [step EXCEPT ![p] = @ + 1]
              /\ UNCHANGED <<pc, outcome>>
    /\ UNCHANGED <<network, args, ensured, created, doomed, dirty>>

\* The parent is gone, or the call fails and may leave the path half made.
PopulateFails(p) ==
    /\ pc[p] = "populate"
    /\ \/ /\ ~Ready(p)
          /\ UNCHANGED <<kind, tree>>
       \/ /\ "io" \in Faults
          /\ Ready(p)
          /\ Put(p) \/ UNCHANGED <<kind, tree>>
    /\ FailFilesystem(p, "ioError")
    /\ UNCHANGED <<network, args, ensured, created, step, doomed, dirty>>

-----------------------------------------------------------------------------
\* What initialize undoes: the network it has created, by its name, and every
\* entry of the directory.

NetworkRemove(p) ==
    /\ pc[p] = "rmnet"
    /\ \/ /\ network[net[p]] # NoNetwork
          /\ network' = [network EXCEPT ![net[p]] = NoNetwork]
          /\ UNCHANGED dirty
       \/ /\ network[net[p]] # NoNetwork
          /\ "lostReply" \in Faults
          /\ network' = [network EXCEPT ![net[p]] = NoNetwork]
          /\ dirty' = [dirty EXCEPT ![p] = TRUE]
       \/ /\ network[net[p]] = NoNetwork \/ "docker" \in Faults
          /\ dirty' = [dirty EXCEPT ![p] = TRUE]
          /\ UNCHANGED network
    /\ Goto(p, "listclean")
    /\ UNCHANGED <<kind, tree, args, ensured, created, step, doomed, outcome>>

ListContents(p) ==
    /\ pc[p] = "listclean"
    /\ \/ /\ kind[root[p]] = "dir"
          /\ doomed' = [doomed EXCEPT ![p] = Present(root[p])]
          /\ Goto(p, "clean")
          /\ UNCHANGED dirty
       \/ /\ kind[root[p]] = "absent"
          /\ Goto(p, "done")
          /\ UNCHANGED <<doomed, dirty>>
       \/ /\ kind[root[p]] = "file" \/ "io" \in Faults
          /\ dirty' = [dirty EXCEPT ![p] = TRUE]
          /\ Goto(p, "done")
          /\ UNCHANGED doomed
    /\ UNCHANGED <<world, args, ensured, created, step, outcome>>

\* RemoveAll of an entry that is gone succeeds.
RemoveEntry(p) ==
    /\ pc[p] = "clean"
    /\ doomed[p] # {}
    /\ LET e == FirstOf(doomed[p]) IN
         /\ tree' = [tree EXCEPT ![root[p]] =
                       [path \in Paths |-> IF Entry[path] = e THEN Nobody
                                                              ELSE @[path]]]
         /\ doomed' = [doomed EXCEPT ![p] = @ \ {e}]
    /\ UNCHANGED <<kind, network, pc, args, ensured, created, step, outcome, dirty>>

RemoveEntryFails(p) ==
    /\ pc[p] = "clean"
    /\ doomed[p] # {}
    /\ "io" \in Faults
    /\ dirty' = [dirty EXCEPT ![p] = TRUE]
    /\ Goto(p, "done")
    /\ UNCHANGED <<world, args, ensured, created, step, doomed, outcome>>

Cleaned(p) ==
    /\ pc[p] = "clean"
    /\ doomed[p] = {}
    /\ Goto(p, "done")
    /\ UNCHANGED <<world, args, ensured, created, step, doomed, outcome, dirty>>

-----------------------------------------------------------------------------
\* The environment.

\* The process is killed; a file it was writing may be there in part.
Crash(p) ==
    /\ "crash" \in Faults
    /\ Running(p)
    /\ \/ UNCHANGED <<kind, tree>>
       \/ pc[p] = "populate" /\ Ready(p) /\ IsFile(step[p]) /\ Put(p)
    /\ Return(p, "crashed")
    /\ UNCHANGED <<network, args, ensured, created, step, doomed, dirty>>

\* `docker network create` by hand, without the label.
OperatorNetwork(n) ==
    /\ network[n] = NoNetwork
    /\ network' = [network EXCEPT ![n] = Unlabelled]
    /\ UNCHANGED <<kind, tree, pc, args, ensured, created, step, doomed,
                   outcome, dirty>>

\* Somebody puts a file of their own into an existing directory.
OperatorFile(r) ==
    /\ kind[r] = "dir"
    /\ tree[r]["existing.txt"] = Nobody
    /\ r \in SerialRoots => Quiet(r)
    /\ tree' = [tree EXCEPT ![r]["existing.txt"] = Operator]
    /\ UNCHANGED <<kind, network, pc, args, ensured, created, step, doomed,
                   outcome, dirty>>

\* Somebody deletes a directory that holds no initialised runtime.
OperatorRemoves(r) ==
    /\ kind[r] = "dir"
    /\ \A p \in Procs : outcome[p] = "ok" => root[p] # r
    /\ r \in SerialRoots => Quiet(r)
    /\ kind' = [kind EXCEPT ![r] = "absent"]
    /\ tree' = [tree EXCEPT ![r] = EmptyTree]
    /\ UNCHANGED <<network, pc, args, ensured, created, step, doomed,
                   outcome, dirty>>

-----------------------------------------------------------------------------
\* The steps of an invocation that has been started.
Work(p) ==
    \/ Stat(p) \/ MkdirRoot(p) \/ ListRoot(p)
    \/ Inspect(p) \/ NetworkCreate(p) \/ NetworkConflict(p)
    \/ NetworkCreateFails(p) \/ Reinspect(p)
    \/ Populate(p) \/ PopulateFails(p)
    \/ NetworkRemove(p) \/ ListContents(p)
    \/ RemoveEntry(p) \/ RemoveEntryFails(p) \/ Cleaned(p)

Next ==
    \/ \E p \in Procs : Start(p) \/ Reject(p) \/ Work(p) \/ Crash(p)
    \/ \E n \in Networks : OperatorNetwork(n)
    \/ \E r \in Roots : OperatorFile(r) \/ OperatorRemoves(r)

Spec == Init /\ [][Next]_vars

\* The operating system runs every process, and every call of it returns.
FairSpec == Spec /\ \A p \in Procs : WF_vars(Work(p))

-----------------------------------------------------------------------------
\* What the invocations promise one another about network names: see
\* NetworkClaims.  An initialised runtime has settled its claim.
Claims == INSTANCE NetworkClaims
            WITH Free <- NoNetwork, Foreign <- Unlabelled, holder <- network,
                 settled <- {p \in Procs : outcome[p] = "ok"}

-----------------------------------------------------------------------------
\* Properties.

\* The paths an initialised runtime consists of are all there and its files
\* are those of invocation p.
Complete(p) ==
    \A k \in Steps :
        LET w == tree[root[p]][Layout[k]] IN
        IF IsFile(k) THEN w = p ELSE w # Nobody

\* An invocation that reports success owns its Docker network, and keeps it:
\* whatever other invocations do to the same network name, the label stays the
\* ID of the runtime that was initialised.
SuccessOwnsNetwork ==
    \A p \in Procs : outcome[p] = "ok" => network[net[p]] = p

\* Only the invocation that created a network removes it, only while it undoes
\* a failed initialisation, and nobody relabels a network: NetworkRemove is
\* called with a name, so this rests on who may hold the name at that point.
NetworksRemovedByCreator ==
    [][\A n \in Networks :
         network[n] # NoNetwork /\ network'[n] # network[n] =>
             \E p \in Procs : /\ network[n] = p
                              /\ pc[p] = "rmnet"
                              /\ network'[n] = NoNetwork]_vars

\* As long as nobody else works in the directory, the runtime an invocation
\* has reported as initialised is complete at that moment and ever after,
\* through every later invocation on the same directory or network.
InitializedRuntimeStays ==
    \A p \in Procs : outcome[p] = "ok" /\ root[p] \in SerialRoots => Complete(p)


\* Concurrent invocations handle network names like the owners of NetworkClaims:
\* a name is claimed once, given back by its claimant only, and kept for good
\* once the runtime is initialised.
ClaimsRefined == Claims!Spec

\* What an invocation finds in a runtime directory that nobody else works in
\* meanwhile it never changes or removes: cleanupRuntimeContents takes away
\* every entry of the directory, and yet only what the failed invocation has
\* itself put there.
OnlyOwnEntriesRemoved ==
    [][\A r \in SerialRoots : \A path \in Paths :
         tree[r][path] # Nobody /\ tree'[r][path] # tree[r][path] =>
             \/ tree[r][path] \in Procs /\ pc[tree[r][path]] = "clean"
             \/ kind'[r] = "absent"]_vars

\* An invocation that has returned an error, and whose clean-up met no error
\* of its own, leaves neither files nor a Docker network behind.
FailureLeavesNothing ==
    \A p \in Procs :
        pc[p] = "done" /\ outcome[p] \notin {"ok", "crashed"} /\ ~dirty[p] =>
            /\ root[p] \in SerialRoots => \A path \in Paths : tree[root[p]][path] # p
            /\ created[p] \/ "lostReply" \notin Faults =>
                 \A n \in Networks : network[n] # p

\* A network that is refused as the network of a different runtime was created
\* for another runtime directory: initialising the same directory with the same
\* network again, after a crash or a lost answer, is not refused.
RefusedNetworkIsAnotherRuntimes ==
    \A p \in Procs :
        outcome[p] = "badNetwork" /\ network[net[p]] \in Procs =>
            root[network[net[p]]] # root[p]

\* No invocation leaks a network unless it says so: in the end, every network
\* that carries a runtime ID is that of an initialised runtime, or of an
\* invocation that has reported that its clean-up failed.
NetworksSettle ==
    \A n \in Networks :
        <>[](\A p \in Procs :
               network[n] = p => outcome[p] = "ok" \/ (pc[p] = "done" /\ dirty[p]))

\* Competitors never starve one another: when an invocation may use its
\* directory then, unless somebody else owns the network name it asks for or
\* the filesystem or the daemon fails one of those that ask for it, some
\* invocation holds that name in the end, having initialised its runtime.
Usable(p) ==
    /\ pc[p] = "stat" /\ ~ensured[p]
    /\ kind[root[p]] # "file" /\ Present(root[p]) = {}

SomeoneWins ==
    \A n \in Networks :
        (\E p \in Procs : net[p] = n /\ Usable(p)) ~>
            \/ network[n] = Unlabelled
            \/ \E q \in Procs : net[q] = n /\ outcome[q] \in {"ioError", "dockerError"}
            \/ \E q \in Procs : net[q] = n /\ outcome[q] = "ok" /\ network[n] = q
=============================================================================
