------------------------------- MODULE Writer -------------------------------
(***************************************************************************)
(* `radius-director generate`, from the validated configuration to the      *)
(* files below the output directory: output.Build lists what is to be       *)
(* written, writer.Write writes it path by path over whatever earlier       *)
(* generations, and other people, have left there.                          *)
(*                                                                         *)
(* A path is the sequence of its names below the output directory.  What a  *)
(* file says is told apart only by the generation that has written it.      *)
(* Tenant identifiers are single names, so that isWithinRoot always holds.  *)
(***************************************************************************)
EXTENDS Naturals, Sequences, SequencesExt

CONSTANTS
    Gens,           \* runs of `generate`, numbered in the order they begin
    Configuration,  \* the configurations in use: name -> content
    Foreign,        \* paths of files that somebody else keeps in the directory
    Operator,       \* who wrote those
    Faults,         \* a subset of {"io", "crash"}
    Serial          \* TRUE: one generate at a time

ASSUME GenAssumption ==
    /\ Gens \subseteq Nat
    /\ Operator \notin Gens

Names == DOMAIN Configuration

-----------------------------------------------------------------------------
\* output.Build, and the deployment files runGenerate appends: what a
\* configuration c wants.  c.tenants is a sequence of tenants with an id, the
\* rendered entries and the paths to remove; c.deployment is a sequence of
\* entries; an entry has a path, a kind and, if it is a link, the path it leads
\* to as the validation of templates computes it; a file leads to itself.

Below(t, path) == <<t.id>> \o path

BuildFiles(c) ==
    FlattenSeq([i \in DOMAIN c.tenants |->
        LET t == c.tenants[i] IN
        [j \in DOMAIN t.rendered |->
            [t.rendered[j] EXCEPT !.path = Below(t, @), !.to = Below(t, @)]]])

Files(c) == BuildFiles(c) \o c.deployment

Removals(c) ==
    FlattenSeq([i \in DOMAIN c.tenants |->
        LET t == c.tenants[i] IN
        [j \in DOMAIN t.remove |-> Below(t, t.remove[j])]])

\* writeManifests splits a removal path into the tenant and a path below it.
Splits(r) == Len(r) >= 2

ManifestPath(id) == <<id, ".radius-director", "manifest.yaml">>

ManifestJob(id) ==
    [path |-> ManifestPath(id), kind |-> "manifest", to |-> ManifestPath(id)]

Manifests(c) == [i \in DOMAIN c.tenants |-> ManifestJob(c.tenants[i].id)]

\* Mutant: the manifests come last.
FilesFirst(c) == Files(c) \o Manifests(c)

\* What Write writes, in its order.
Jobs(c) == Manifests(c) \o Files(c)

Parents(path) == {SubSeq(path, 1, k) : k \in 1..(Len(path) - 1)}

Planned(c) == {Jobs(c)[i].path : i \in DOMAIN Jobs(c)}

\* Where somebody wants a file or a link.
Wanted == (UNION {Planned(Configuration[n]) : n \in Names}) \cup Foreign

\* Whoever goes by a link gets to where it leads: `from` is on the way of path.
Moved(path, from, to) == to \o SubSeq(path, Len(from) + 1, Len(path))

LinkJobs ==
    {job \in UNION {ToSet(Jobs(Configuration[n])) : n \in Names} : job.kind = "symlink"}

Lead(paths) ==
    paths \cup UNION {{Moved(path, l.path, l.to) : path \in {q \in paths : IsPrefix(l.path, q)}}
                      : l \in LinkJobs}

\* Where they can get to, by as many links as Enter follows.
Leaves == Lead(Lead(Lead(Wanted)))

Paths == Leaves \cup UNION {Parents(path) : path \in Leaves}

\* An entry has a path below the output directory and is a file or a link.
Entry == [path : Seq(STRING) \ {<< >>}, kind : {"regular", "symlink"},
          to : Seq(STRING) \ {<< >>}]

ASSUME PlanAssumption ==
    /\ Foreign \subseteq Seq(STRING) \ {<< >>}
    /\ \A f \in Foreign : Foreign \cap Parents(f) = {}
    /\ \A n \in Names :
         /\ Configuration[n].tenants \in
                Seq([id : STRING, rendered : Seq([path : Seq(STRING), kind : {"regular", "symlink"},
                                                  to : Seq(STRING)]),
                     remove : Seq(Seq(STRING))])
         /\ Files(Configuration[n]) \in Seq(Entry)
         /\ Removals(Configuration[n]) \in Seq(Seq(STRING) \ {<< >>})

\* No link is planned below another one: it would be made where that one leads.
ASSUME LinkAssumption ==
    \A a, b \in LinkJobs : a.path \notin Parents(b.path)

\* No template brings a manifest of its own.
ASSUME KindAssumption ==
    \A m, n \in Names :
        \A i \in DOMAIN Jobs(Configuration[m]), j \in DOMAIN Jobs(Configuration[n]) :
            LET a == Jobs(Configuration[m])[i]
                b == Jobs(Configuration[n])[j]
            IN  a.path = b.path => (a.kind = "manifest" <=> b.kind = "manifest")

\* A configuration writes below the directories of its own tenants: rendered
\* files by the way they are built, deployment files for the tenants they
\* belong to.  Nobody but the program makes manifests.
ASSUME TenantAssumption ==
    \A m, n \in Names : \A i \in DOMAIN Configuration[m].tenants :
        LET id == Configuration[m].tenants[i].id
        IN  /\ ManifestPath(id) \notin Foreign
            /\ \A f \in DOMAIN Files(Configuration[n]) :
                 Head(Files(Configuration[n])[f].path) = id =>
                     \E j \in DOMAIN Configuration[n].tenants :
                         Configuration[n].tenants[j].id = id

-----------------------------------------------------------------------------
\* What is at a path: nothing, a directory, a link with the generation that made
\* it and the path it leads to, or a file with the generations whose text it
\* holds, those that gave up while they wrote it and those that have it open to
\* write.

Absent == [kind |-> "absent"]
Dir    == [kind |-> "dir"]
Regular(text, torn, open) ==
    [kind |-> "regular", text |-> text, torn |-> torn, open |-> open]
Symlink(w, to) ==
    [kind |-> "symlink", text |-> {w}, torn |-> {}, open |-> {}, to |-> to]

IsLink(node) == node.kind = "symlink"
IsFile(node) == node.kind = "regular" \/ IsLink(node)

\* Everybody who has had a hand in what a file or link says.
Hands(node) == node.text \cup node.torn \cup node.open

Writers == Gens \cup {Operator}

Nodes ==
    {Absent, Dir}
    \cup [kind : {"regular"}, text : SUBSET Writers, torn : SUBSET Gens,
          open : SUBSET Gens]
    \cup [kind : {"symlink"}, text : {{w} : w \in Writers}, torn : {{}}, open : {{}},
          to : Seq(STRING) \ {<< >>}]

\* The kernel's way to a path: it follows every link on it, the last name's too
\* (stat, open), or all but that one's (lstat, unlink, symlink).  Enter follows
\* three links at most, the kernel forty; what is still a link then is ELOOP.

At(tree, path) == IF path \in DOMAIN tree THEN tree[path] ELSE Absent

LinksOn(tree, path) == {q \in Parents(path) \cup {path} : IsLink(At(tree, q))}

Hop(tree, path) ==
    LET links == LinksOn(tree, path)
        first == CHOOSE q \in links : \A r \in links : Len(q) <= Len(r)
    IN  IF links = {} THEN path ELSE Moved(path, first, tree[first].to)

Enter(tree, path) ==
    IF LinksOn(tree, path) = {} THEN path ELSE Hop(tree, Hop(tree, Hop(tree, path)))

Spot(tree, path) ==
    IF Len(path) = 1 THEN path ELSE Append(Enter(tree, Front(path)), Last(path))

VARIABLES
    disk,       \* disk[path]: what is there
    pc,         \* the system call a generation makes next
    conf,       \* the configuration it has loaded
    at,         \* the element of Jobs it is working on
    outcome     \* how it ends, "none" while it is undecided

vars == <<disk, pc, conf, at, outcome>>

Locations == {"idle", "mkdir", "lstat", "unlink", "open", "fill", "link", "done"}

Outcomes == {"none", "ok", "refused", "badRemoval", "blocked", "ioError", "crashed"}

Loaded(g) == Configuration[conf[g]]
Job(g)  == Jobs(Loaded(g))[at[g]]
Here(g) == Job(g).path

\* Where lstat, unlink and symlink find the path of the job, and where open does.
There(g)  == Spot(disk, Here(g))
Target(g) == Enter(disk, Here(g))

Running(g) == pc[g] \notin {"idle", "done"}

TypeOK ==
    /\ disk \in [Paths -> Nodes]
    /\ pc \in [Gens -> Locations]
    /\ conf \in [Gens -> Names]
    /\ at \in [Gens -> Nat]
    /\ outcome \in [Gens -> Outcomes]
    /\ \A g \in Gens : Running(g) => at[g] \in DOMAIN Jobs(Loaded(g))

Init ==
    /\ disk = [path \in Paths |->
                 IF path \in Foreign THEN Regular({Operator}, {}, {})
                 ELSE IF path \in UNION {Parents(f) : f \in Foreign} THEN Dir
                 ELSE Absent]
    /\ pc = [g \in Gens |-> "idle"]
    /\ conf \in [Gens -> Names]
    /\ at = [g \in Gens |-> 1]
    /\ outcome = [g \in Gens |-> "none"]

Goto(g, l) == pc' = [pc EXCEPT ![g] = l]

Return(g, why) ==
    /\ Goto(g, "done")
    /\ outcome' = [outcome EXCEPT ![g] = why]

\* Mutant: the loop runs once too often.
BeyondEnd(g) == at[g] > Len(Jobs(Loaded(g)))

AtEnd(g) == at[g] = Len(Jobs(Loaded(g)))

\* The loop of Write, and before it that of writeManifests, goes on or is over.
NextJob(g) ==
    IF AtEnd(g)
      THEN Return(g, "ok") /\ UNCHANGED at
      ELSE Goto(g, "mkdir") /\ at' = [at EXCEPT ![g] = @ + 1] /\ UNCHANGED outcome

-----------------------------------------------------------------------------
\* runGenerate up to the first system call of Write.

MayBegin(g) ==
    /\ pc[g] = "idle"
    /\ \A h \in Gens : h < g => pc[h] # "idle"
    /\ Serial => \A h \in Gens : ~Running(h)

\* Loading, validating, rendering or building the deployment fails.
Refuse(g) ==
    /\ MayBegin(g)
    /\ Return(g, "refused")
    /\ UNCHANGED <<disk, conf, at>>

\* All removal paths are split before anything is written.
Begin(g) ==
    /\ MayBegin(g)
    /\ \A i \in DOMAIN Removals(Loaded(g)) : Splits(Removals(Loaded(g))[i])
    /\ IF Jobs(Loaded(g)) = <<>>
         THEN Return(g, "ok")
         ELSE Goto(g, "mkdir") /\ UNCHANGED outcome
    /\ UNCHANGED <<disk, conf, at>>

BadRemoval(g) ==
    /\ MayBegin(g)
    /\ \E i \in DOMAIN Removals(Loaded(g)) : ~Splits(Removals(Loaded(g))[i])
    /\ Return(g, "badRemoval")
    /\ UNCHANGED <<disk, conf, at>>

-----------------------------------------------------------------------------
\* One element of Jobs: the directory, whatever is in the way, the file.

\* Something else stands where a directory is needed, a file, a link to one or a
\* link to nothing: os.MkdirAll goes by links to directories.
Obstructed(g) ==
    \E q \in Parents(Here(g)) :
        /\ At(disk, Enter(disk, q)) # Dir
        /\ At(disk, Spot(disk, q)) # Absent

\* The way to the job's path leads over a file, or in a circle.
Broken(g) == \E q \in Parents(Here(g)) : At(disk, Enter(disk, q)) \notin {Absent, Dir}

\* The directory is there; it may have been removed since it was made.
Reachable(path) == \A q \in Parents(path) : At(disk, q) = Dir

Empty(dir) == \A path \in Paths : dir \in Parents(path) => disk[path] = Absent

\* A manifest is written over its predecessor, everything else replaces it.
MkdirParents(g) ==
    /\ pc[g] = "mkdir"
    /\ \/ /\ ~Obstructed(g)
          /\ LET made == {Enter(disk, q) : q \in Parents(Here(g))}
             IN  disk' = [path \in Paths |-> IF path \in made THEN Dir ELSE disk[path]]
          /\ Goto(g, IF Job(g).kind = "manifest" THEN "open" ELSE "lstat")
          /\ UNCHANGED outcome
       \/ /\ Obstructed(g)
          /\ Return(g, "blocked")
          /\ UNCHANGED disk
    /\ UNCHANGED <<conf, at>>

Create(g) == IF Job(g).kind = "symlink" THEN "link" ELSE "open"

\* Mutant: a link is made without looking for what it replaces.
LstatFilesOnly(g) ==
    /\ pc[g] = "lstat"
    /\ \/ /\ At(disk, There(g)) = Absent \/ Job(g).kind = "symlink"
          /\ Goto(g, Create(g))
          /\ UNCHANGED outcome
       \/ /\ At(disk, There(g)) = Dir
          /\ Return(g, "blocked")
       \/ /\ IsFile(At(disk, There(g)))
          /\ Goto(g, "unlink")
          /\ UNCHANGED outcome
    /\ UNCHANGED <<disk, conf, at>>

\* Mutant: os.RemoveAll takes a directory and what is in it.
LstatRemovesAll(g) ==
    /\ pc[g] = "lstat"
    /\ disk' = [path \in Paths |->
                  IF IsPrefix(There(g), path) THEN Absent ELSE disk[path]]
    /\ Goto(g, Create(g))
    /\ UNCHANGED <<conf, at, outcome>>

\* Mutant: what is there already is kept.
LstatKeeps(g) ==
    /\ pc[g] = "lstat"
    /\ IF IsFile(At(disk, There(g)))
         THEN NextJob(g)
         ELSE Goto(g, Create(g)) /\ UNCHANGED <<at, outcome>>
    /\ UNCHANGED <<disk, conf>>

\* removeExisting, the look...
Lstat(g) ==
    /\ pc[g] = "lstat"
    /\ LET node == At(disk, There(g)) IN
       \/ /\ node = Absent /\ ~Broken(g)
          /\ Goto(g, Create(g))
          /\ UNCHANGED outcome
       \/ /\ node = Absent /\ Broken(g)
          /\ Return(g, "ioError")
       \/ /\ node = Dir
          /\ Return(g, "blocked")
       \/ /\ node \notin {Absent, Dir}
          /\ Goto(g, "unlink")
          /\ UNCHANGED outcome
    /\ UNCHANGED <<disk, conf, at>>

\* ...and the removal.  Somebody else may have been faster: nothing is left to
\* be removed, or a directory, which os.Remove takes only when it is empty.
Removable(node, path) == IsFile(node) \/ (node = Dir /\ Empty(path))

Unlink(g) ==
    /\ pc[g] = "unlink"
    /\ \/ /\ Removable(At(disk, There(g)), There(g))
          /\ disk' = [disk EXCEPT ![There(g)] = Absent]
          /\ Goto(g, Create(g))
          /\ UNCHANGED outcome
       \/ /\ ~Removable(At(disk, There(g)), There(g))
          /\ Return(g, "ioError")
          /\ UNCHANGED disk
    /\ UNCHANGED <<conf, at>>

\* os.WriteFile opens the file, creating or truncating it, and goes by a link...
Open(g) ==
    /\ pc[g] = "open"
    /\ LET node == At(disk, Target(g)) IN
       \/ /\ node = Absent /\ Reachable(Target(g))
          /\ disk' = [disk EXCEPT ![Target(g)] = Regular({}, {}, {g})]
          /\ Goto(g, "fill")
          /\ UNCHANGED outcome
       \/ /\ node.kind = "regular"
          /\ disk' = [disk EXCEPT ![Target(g)] = Regular({}, {}, node.open \cup {g})]
          /\ Goto(g, "fill")
          /\ UNCHANGED outcome
       \/ /\ node = Dir
          /\ Return(g, "blocked")
          /\ UNCHANGED disk
       \/ /\ IsLink(node) \/ (node = Absent /\ ~Reachable(Target(g)))
          /\ Return(g, "ioError")
          /\ UNCHANGED disk
    /\ UNCHANGED <<conf, at>>

\* What the file holds when all of the text has been written, or less.
Filled(node, g) == Regular(node.text \cup {g}, node.torn, node.open \ {g})
Torn(node, g)   == Regular(node.text, node.torn \cup {g}, node.open \ {g})

\* The file that g has open, if it is still there: nobody sees what is written
\* to one that was unlinked meanwhile.
HasOpen(g, path) == disk[path].kind = "regular" /\ g \in disk[path].open

\* ...and writes.
Fill(g) ==
    /\ pc[g] = "fill"
    /\ disk' = [path \in Paths |->
                  IF HasOpen(g, path) THEN Filled(disk[path], g) ELSE disk[path]]
    /\ NextJob(g)
    /\ UNCHANGED conf

MakeLink(g) ==
    /\ pc[g] = "link"
    /\ LET node == At(disk, There(g)) IN
       \/ /\ node = Absent /\ Reachable(There(g))
          /\ disk' = [disk EXCEPT ![There(g)] = Symlink(g, Job(g).to)]
          /\ NextJob(g)
       \/ /\ node = Absent /\ ~Reachable(There(g))
          /\ Return(g, "ioError")
          /\ UNCHANGED <<disk, at>>
       \/ /\ node # Absent
          /\ Return(g, "blocked")
          /\ UNCHANGED <<disk, at>>
    /\ UNCHANGED conf

\* Any of these calls may fail for a reason of its own, and the process may
\* be killed; a file that is open then keeps less than it should.
Fail(g) ==
    /\ Running(g)
    /\ disk' = IF pc[g] = "fill"
                 THEN [path \in Paths |->
                         IF HasOpen(g, path) THEN Torn(disk[path], g) ELSE disk[path]]
                 ELSE disk
    /\ \/ "io" \in Faults /\ Return(g, "ioError")
       \/ "crash" \in Faults /\ Return(g, "crashed")
    /\ UNCHANGED <<conf, at>>

-----------------------------------------------------------------------------
Work(g) ==
    \/ MkdirParents(g) \/ Lstat(g) \/ Unlink(g)
    \/ Open(g) \/ Fill(g) \/ MakeLink(g)

Next ==
    \E g \in Gens : Refuse(g) \/ Begin(g) \/ BadRemoval(g) \/ Work(g) \/ Fail(g)

Spec == Init /\ [][Next]_vars

-----------------------------------------------------------------------------
\* Properties.

\* Configurations of which one wants a link, the other something below it or a
\* file in its place.  Where they meet, os.MkdirAll and os.WriteFile go by the
\* link, to a path that may be anybody's.
Crosses(c, d) ==
    \E a \in ToSet(Jobs(c)), b \in ToSet(Jobs(d)) :
        /\ a.kind = "symlink"
        /\ \/ a.path \in Parents(b.path)
           \/ a.path = b.path /\ b.kind # "symlink"

Crossing ==
    UNION {{<<m, n>> : n \in {k \in Names : Crosses(Configuration[m], Configuration[k])}}
           : m \in Names}

\* No two of the configurations that are loaded do.
LinksApart == \A g, h \in Gens : <<conf[g], conf[h]>> \notin Crossing

\* The node is what generation g wants there, and all of it.
IsWhole(node, g) ==
    \/ node = Regular({g}, {}, {})
    \/ IsLink(node) /\ node.text = {g}

Whole(path, g) == IsWhole(disk[path], g)

\* When generate reports success, and is the only one at work, every planned
\* path is that generation's and complete, whatever earlier generations that
\* failed or were killed have left behind; provided that links are apart.
SuccessWritesPlan ==
    [][\A g \in Gens :
         outcome'[g] = "ok" /\ outcome[g] # "ok" /\ LinksApart =>
             \A path \in Planned(Loaded(g)) : Whole(path, g)']_vars

\* Files outside the managed configuration stay as they are, provided that links
\* are apart: a path changes only when a running generation plans it or needs it
\* as a directory, and no directory is ever removed with anything in it.
OnlyManagedPathsTouched ==
    [][\A path \in Paths :
         disk'[path] # disk[path] /\ LinksApart =>
             /\ disk[path] = Dir => Empty(path)
             /\ \E g \in Gens :
                  /\ Running(g)
                  /\ \/ path \in Planned(Loaded(g))
                     \/ /\ \E f \in Planned(Loaded(g)) : path \in Parents(f)
                        /\ disk[path] = Absent]_vars

\* "Files outside the managed configuration boundary must not be modified": a
\* file that somebody else keeps changes only when a running generation plans
\* that very path, whatever links are planned.
ForeignFilesStay ==
    [][\A path \in Foreign :
         disk'[path] # disk[path] =>
             \E g \in Gens : Running(g) /\ path \in Planned(Loaded(g))]_vars

\* The container applies the removals of a tenant's manifest to the tenant's
\* files.  At no moment, and after no crash, is the manifest of a tenant older
\* than a file of that tenant, provided that links are apart.
Younger(path, g) ==
    /\ IsFile(disk[path])
    /\ \E h \in Hands(disk[path]) \cap Gens : h > g

ManifestNeverOlder ==
    LinksApart =>
        \A n \in Names : \A i \in DOMAIN Configuration[n].tenants :
            LET id == Configuration[n].tenants[i].id
                m  == disk[ManifestPath(id)]
            IN  m.kind = "regular" =>
                  \E g \in Hands(m) \cap Gens :
                    \A path \in Paths : Head(path) = id => ~Younger(path, g)

\* What an aborted or an earlier generation leaves never stands in the way of
\* the next one, as long as no configuration wants a file where another one
\* wants a directory, or a link.
PlansFit == \A f \in Wanted : Wanted \cap Parents(f) = {}

NeverBlocked == PlansFit /\ LinksApart => \A g \in Gens : outcome[g] # "blocked"
=============================================================================
