----------------------------- MODULE Entrypoint -----------------------------
(***************************************************************************)
(* entrypoint.sh, the script a tenant's FreeRADIUS container starts with,  *)
(* while `generate` may be at work on the tenant's tree, which is mounted  *)
(* into the container: cp -a of the tree over the configuration the image  *)
(* brings, entry by entry, then the removals of the manifest.              *)
(*                                                                         *)
(* A path of the container is written like the one it is a copy of, with   *)
(* the tenant in front.  Generated removals satisfy fs.ValidPath, so that  *)
(* the script's branches for absolute paths and for ".." are never taken.  *)
(***************************************************************************)
EXTENDS Writer

CONSTANTS
    Containers,  \* tenants that have a container
    Image,       \* paths of the files the FreeRADIUS image brings
    ImageLinks,  \* the links it brings: path -> the path it leads to
    Quoted,      \* removals that yaml.v3 puts in quotes and awk leaves there
    MaxStarts    \* bounds the starts of a container

ASSUME ImageAssumption ==
    /\ Image \subseteq Seq(STRING) \ {<< >>}
    /\ Containers = {Head(path) : path \in Image}
    /\ \A l \in DOMAIN ImageLinks :
         /\ {l, ImageLinks[l]} \subseteq Seq(STRING) \ {<< >>}
         /\ Head(l) \in Containers /\ Head(ImageLinks[l]) = Head(l) /\ Len(l) > 1
         /\ \A f \in Image \cup DOMAIN ImageLinks : l \notin Parents(f)
    /\ Image \cap DOMAIN ImageLinks = {}
    /\ MaxStarts \in Nat

\* Compose knows the containers of the tenants that have been configured, and
\* a directory has a finite listing.
ASSUME ContainerAssumption ==
    /\ \A t \in Containers : \E n \in Names : \E i \in DOMAIN Configuration[n].tenants :
         Configuration[n].tenants[i].id = t
    /\ IsFiniteSet(Paths)

Brought == Image \cup DOMAIN ImageLinks

Places ==
    LET named == Brought \cup {ImageLinks[l] : l \in DOMAIN ImageLinks}
    IN  Paths \cup named \cup UNION {Parents(path) : path \in named}

VARIABLES
    etc,     \* etc[t][path]: what the container of t has there
    step,    \* the line of the script it is at
    todo,    \* the paths cp has still to visit, in this order
    failed,  \* cp has reported an error
    used,    \* the manifest as it was read
    lines,   \* the removals still to be made
    starts,  \* the starts so far
    steady,  \* history: no generate was at work since the container started
    apart    \* history: no two generates have been at work at once

container == <<etc, step, todo, failed, used, lines, starts>>
allvars == <<vars, container, steady, apart>>

Steps == {"off", "check", "copy", "read", "remove", "running"}

Under(path, dir) == IsPrefix(dir, path)

\* All the lines awk finds in a whole manifest, without those that name no
\* file because of their quotes.
Plainly(removals) == {r \in removals : r \notin Quoted}

LinesOf(g, t) ==
    Plainly({r \in ToSet(Removals(Loaded(g))) : Head(r) = t})

\* What awk finds in a manifest that breaks off: the first lines, and a last
\* one that may have become the path of a directory above.
Cuts(g, t) ==
    LET all  == Removals(Loaded(g))
        mine == {k \in DOMAIN all : Head(all[k]) = t}
    IN  {{}} \cup
        UNION {LET first == {all[j] : j \in {i \in mine : i < k}}
               IN  {Plainly(first \cup end) :
                      end \in {{}} \cup {{q} : q \in Parents(all[k]) \ {<<t>>}}}
               : k \in mine}

Entire(node) == \E g \in Gens : node = Regular({g}, {}, {})

Pieces(node, t) ==
    {{}} \cup UNION {Cuts(g, t) \cup {LinesOf(g, t)} : g \in Hands(node) \cap Gens}

Readings(node, t) ==
    IF Entire(node)
      THEN {LinesOf(g, t) : g \in node.text}
      ELSE {a \cup b : a, b \in Pieces(node, t)}

Fresh(t) ==
    [path \in Places |->
        IF path \in Image /\ Head(path) = t THEN Regular({Operator}, {}, {})
        ELSE IF path \in DOMAIN ImageLinks /\ Head(path) = t
          THEN Symlink(Operator, ImageLinks[path])
        ELSE IF \E f \in Brought : Head(f) = t /\ path \in Parents(f) THEN Dir
        ELSE Absent]

\* Whatever a manifest may list, or seem to list when it breaks off.
Listed ==
    LET all == UNION {ToSet(Removals(Configuration[n])) : n \in Names}
    IN  all \cup UNION {Parents(r) : r \in all}

ContainerTypeOK ==
    /\ TypeOK
    /\ etc \in [Containers -> [Places -> Nodes]]
    /\ step \in [Containers -> Steps]
    /\ todo \in [Containers -> Seq(Paths)]
    /\ failed \in [Containers -> BOOLEAN]
    /\ used \in [Containers -> Nodes]
    /\ lines \in [Containers -> SUBSET Listed]
    /\ starts \in [Containers -> 0..MaxStarts]
    /\ steady \in [Containers -> BOOLEAN]
    /\ apart \in BOOLEAN
    /\ \A t \in Containers :
         step[t] \in {"read", "remove", "running"} => etc[t][ManifestPath(t)] = Absent

EInit ==
    /\ Init
    /\ etc = [t \in Containers |-> Fresh(t)]
    /\ step = [t \in Containers |-> "off"]
    /\ todo = [t \in Containers |-> << >>]
    /\ failed = [t \in Containers |-> FALSE]
    /\ used = [t \in Containers |-> Absent]
    /\ lines = [t \in Containers |-> {}]
    /\ starts = [t \in Containers |-> 0]
    /\ steady = [t \in Containers |-> FALSE]
    /\ apart = TRUE

-----------------------------------------------------------------------------
To(t, s) == step' = [step EXCEPT ![t] = s]

\* The script is over: it has ended, or FreeRADIUS takes its place.
Leave(t, s) ==
    /\ To(t, s)
    /\ todo' = [todo EXCEPT ![t] = << >>]
    /\ failed' = [failed EXCEPT ![t] = FALSE]
    /\ lines' = [lines EXCEPT ![t] = {}]
    /\ steady' = [steady EXCEPT ![t] = FALSE]

\* The container is made anew from the image, or an old one starts again: that
\* one still has what the last start copied, and lacks what it removed.
Start(t, anew) ==
    /\ step[t] = "off"
    /\ starts[t] < MaxStarts
    /\ To(t, "check")
    /\ etc' = IF anew THEN [etc EXCEPT ![t] = Fresh(t)] ELSE etc
    /\ starts' = [starts EXCEPT ![t] = @ + 1]
    /\ steady' = [steady EXCEPT ![t] = \A g \in Gens : ~Running(g)]
    /\ UNCHANGED <<vars, todo, failed, used, lines, apart>>

\* The manifest, by whatever links there are on the way.
ManifestOf(t) == At(disk, Enter(disk, ManifestPath(t)))

\* No tree (Docker then mounts an empty directory) or no manifest: exit 1.
Check(t) ==
    /\ step[t] = "check"
    /\ \/ /\ ManifestOf(t).kind = "regular"
          /\ To(t, "copy")
          /\ todo' = [todo EXCEPT ![t] = << <<t>> >>]
          /\ UNCHANGED <<failed, lines, steady>>
       \/ /\ ManifestOf(t).kind # "regular"
          /\ Leave(t, "off")
    /\ UNCHANGED <<vars, etc, used, starts, apart>>

Children(dir) ==
    {path \in Paths : /\ Len(path) = Len(dir) + 1
                      /\ Under(path, dir)
                      /\ disk[path] # Absent}

\* Where cp puts what it has read at the path: it replaces a link by a link, but
\* writes a file through it.
Lands(t, path) ==
    IF disk[path].kind = "regular" /\ IsLink(etc[t][path]) THEN Enter(etc[t], path) ELSE path

\* A directory is made and its listing, in whatever order the file system has
\* for it, comes next; a link or a file takes the place of a link or a file.  cp
\* goes on after an entry that has vanished or does not fit, or that would be
\* written through a link to nothing.
Copies(t, path) ==
    \/ disk[path] = Dir /\ etc[t][path] \in {Absent, Dir}
    \/ IsLink(disk[path]) /\ etc[t][path] # Dir
    \/ /\ disk[path].kind = "regular"
       /\ etc[t][path] = Absent \/ At(etc[t], Lands(t, path)).kind = "regular"

Copy(t) ==
    /\ step[t] = "copy"
    /\ todo[t] # << >>
    /\ LET path == Head(todo[t])
           below == IF disk[path] = Dir THEN SetToSeq(Children(path)) ELSE << >>
       IN  IF Copies(t, path)
             THEN /\ etc' = [etc EXCEPT ![t][Lands(t, path)] = disk[path]]
                  /\ todo' = [todo EXCEPT ![t] = below \o Tail(@)]
                  /\ UNCHANGED failed
             ELSE /\ todo' = [todo EXCEPT ![t] = Tail(@)]
                  /\ failed' = [failed EXCEPT ![t] = TRUE]
                  /\ UNCHANGED etc
    /\ UNCHANGED <<vars, step, used, lines, starts, steady, apart>>

RemoveAll(t, dir) ==
    etc' = [etc EXCEPT ![t] =
              [path \in Places |-> IF Under(path, dir) THEN Absent ELSE @[path]]]

\* Mutant: the script goes on without set -e.
CopiedAnyhow(t) ==
    /\ step[t] = "copy"
    /\ todo[t] = << >>
    /\ To(t, "read")
    /\ RemoveAll(t, <<t, ".radius-director">>)
    /\ UNCHANGED <<vars, todo, failed, used, lines, starts, steady, apart>>

\* Mutant: only the manifest of the tree is protected, not its copy.
CopiedAll(t) ==
    /\ step[t] = "copy"
    /\ todo[t] = << >>
    /\ IF failed[t] THEN Leave(t, "off")
       ELSE To(t, "read") /\ UNCHANGED <<todo, failed, lines, steady>>
    /\ UNCHANGED <<vars, etc, used, starts, apart>>

\* set -e ends the script when cp has failed; otherwise .radius-director goes.
Copied(t) ==
    /\ step[t] = "copy"
    /\ todo[t] = << >>
    /\ \/ /\ failed[t]
          /\ Leave(t, "off")
          /\ UNCHANGED etc
       \/ /\ ~failed[t]
          /\ To(t, "read")
          /\ RemoveAll(t, <<t, ".radius-director">>)
          /\ UNCHANGED <<todo, failed, lines, steady>>
    /\ UNCHANGED <<vars, used, starts, apart>>

ReadManifest(t) ==
    /\ step[t] = "read"
    /\ used' = [used EXCEPT ![t] = ManifestOf(t)]
    /\ \E found \in Readings(ManifestOf(t), t) :
         lines' = [lines EXCEPT ![t] = found]
    /\ To(t, "remove")
    /\ UNCHANGED <<vars, etc, todo, failed, starts, steady, apart>>

\* rm goes by the links on the way, not by one that is to be removed.
RemoveLine(t) ==
    /\ step[t] = "remove"
    /\ \E r \in lines[t] :
         /\ RemoveAll(t, Spot(etc[t], r))
         /\ lines' = [lines EXCEPT ![t] = @ \ {r}]
    /\ UNCHANGED <<vars, step, todo, failed, used, starts, steady, apart>>

Exec(t) ==
    /\ step[t] = "remove"
    /\ lines[t] = {}
    /\ Leave(t, "running")
    /\ UNCHANGED <<vars, etc, used, starts, apart>>

\* The container is stopped, or its host fails, wherever the script is.
Kill(t) ==
    /\ step[t] # "off"
    /\ Leave(t, "off")
    /\ used' = [used EXCEPT ![t] = Absent]
    /\ UNCHANGED <<vars, etc, starts, apart>>

Generate ==
    /\ Next
    /\ steady' = [t \in Containers |-> steady[t] /\ \A g \in Gens : ~Running(g)']
    /\ apart' = (apart /\ \A g, h \in Gens : Running(g)' /\ Running(h)' => g = h)
    /\ UNCHANGED container

ENext ==
    \/ Generate
    \/ \E t \in Containers :
         \/ \E anew \in BOOLEAN : Start(t, anew)
         \/ Check(t) \/ Copy(t) \/ Copied(t) \/ ReadManifest(t) \/ RemoveLine(t) \/ Exec(t)
         \/ Kill(t)

ESpec == EInit /\ [][ENext]_allvars

-----------------------------------------------------------------------------
\* Properties.

\* A container that starts while the tree is being written, or after a generate
\* was killed, has no file of a generation younger than the manifest it read:
\* the manifests are written first, and the script reads them last.  A generation
\* that was killed while it wrote the manifest counts, though fewer of the
\* removals may then be found than the older files need.  Links are apart.
RemovalsNotOlder ==
    \A t \in Containers :
        step[t] = "running" /\ apart /\ LinksApart =>
            \A path \in Places :
                LET theirs == Hands(etc[t][path]) \cap Gens
                IN  IsFile(etc[t][path]) /\ theirs # {} =>
                      \E g \in Hands(used[t]) \cap Gens : \A h \in theirs : h <= g

\* The last generate that wrote anything.
IsLast(g) ==
    /\ outcome[g] \in {"ok", "blocked", "ioError", "crashed"}
    /\ \A h \in Gens : h > g => outcome[h] \in {"none", "refused", "badRemoval"}

\* The tree has a file where the image of t has a link, and cp writes through it.
FileOverLink(t) ==
    \E l \in DOMAIN ImageLinks : Head(l) = t /\ At(disk, l).kind = "regular"

\* A removal leads through a link of the image or of a configuration.
RemovesThroughLink(g, t) ==
    \E r \in LinesOf(g, t) :
        Parents(r) \cap (DOMAIN ImageLinks \cup {job.path : job \in LinkJobs}) # {}

\* A container that starts when generate has succeeded and leaves it alone runs
\* with all that was planned, but for the removals and for .radius-director, and
\* with nothing at the paths that were to be removed, whatever the container and
\* the tree have been through before; provided that links are apart, that the
\* tree has no file where the image has a link, and no removal leads through one.
StartsAsGenerated ==
    [][\A t \in Containers, g \in Gens :
         /\ step[t] # "running" /\ step'[t] = "running"
         /\ steady[t] /\ apart
         /\ IsLast(g) /\ outcome[g] = "ok"
         /\ t \in {tenant.id : tenant \in ToSet(Loaded(g).tenants)}
         /\ LinksApart /\ ~FileOverLink(t) /\ ~RemovesThroughLink(g, t)
         => \A path \in Places :
              IF \E r \in LinesOf(g, t) : Under(path, r)
                THEN etc[t][path] = Absent
                ELSE /\ path \in Planned(Loaded(g))
                     /\ Head(path) = t /\ ~Under(path, <<t, ".radius-director">>)
                     => IsWhole(etc[t][path], g)]_allvars
=============================================================================
