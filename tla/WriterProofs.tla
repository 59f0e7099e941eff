---------------------------- MODULE WriterProofs ----------------------------
(***************************************************************************)
(* Theorems about Writer, for any configurations, any files that somebody   *)
(* else keeps in the directory, any number of generations and any faults.   *)
(***************************************************************************)
EXTENDS Writer, TLAPS

\* Generations begin in their order, at the first element of their plan.
BeginInv ==
    /\ \A g \in Gens : pc[g] = "idle" => at[g] = 1
    /\ \A g, h \in Gens : g < h /\ pc[h] # "idle" => pc[g] # "idle"

\* Only what replaces its predecessor is looked for, and only links are linked.
KindInv ==
    \A g \in Gens :
        /\ pc[g] \in {"lstat", "unlink", "link"} => Job(g).kind # "manifest"
        /\ pc[g] = "link" => Job(g).kind = "symlink"
        /\ pc[g] \in {"open", "fill"} => Job(g).kind # "symlink"

\* A file is open only for the generations that are about to write it.
OpenInv ==
    \A path \in Paths :
        disk[path].kind = "regular" =>
            \A g \in disk[path].open : pc[g] = "fill" /\ Here(g) = path

\* What holds whatever the configurations are.
ControlInv == TypeOK /\ BeginInv /\ KindInv

\* A link of the tree is one that a loaded configuration plans there.
PlacedInv ==
    \A path \in Paths :
        IsLink(disk[path]) =>
            \E h \in Gens : \E i \in DOMAIN Jobs(Loaded(h)) :
                Jobs(Loaded(h))[i].kind = "symlink" /\ Jobs(Loaded(h))[i].path = path

\* What holds in addition where links are apart.
DiskInv == ControlInv /\ LinksApart /\ PlacedInv /\ OpenInv

OneAtATime == \A g, h \in Gens : Running(g) /\ Running(h) => g = h

\* What holds of generations that have never met.

FillInv ==
    \A g \in Gens : pc[g] = "fill" => disk[Here(g)] = Regular({}, {}, {g})

LinkInv ==
    \A g \in Gens : pc[g] = "link" => disk[Here(g)] = Absent

\* The elements of its plan that a generation has left behind are as it wants
\* them, but for the one that is planned twice and at work again.
DoneAt(g, i) ==
    LET path == Jobs(Loaded(g))[i].path
    IN  Whole(path, g) \/ path = Here(g)

DoneInv ==
    \A g \in Gens :
        Running(g) => \A i \in 1..(at[g] - 1) : DoneAt(g, i)

HandsOf(node) == IF IsFile(node) THEN Hands(node) ELSE {}

\* Nobody has had a hand in a file before it began, and nobody who began after
\* the one that is at work.
HandsInv ==
    \A path \in Paths : \A h \in HandsOf(disk[path]) \cap Gens :
        /\ pc[h] # "idle"
        /\ \A g \in Gens : Running(g) => h <= g

\* The manifests of its plan that a generation has left behind are its own.
PassedInv ==
    \A g \in Gens :
        Running(g) =>
            \A i \in 1..(at[g] - 1) :
                LET job == Jobs(Loaded(g))[i]
                IN  job.kind = "manifest" =>
                      disk[job.path].kind = "regular" /\ g \in Hands(disk[job.path])

LoneInv == FillInv /\ LinkInv /\ DoneInv /\ HandsInv /\ PassedInv

Step(g) == Refuse(g) \/ Begin(g) \/ BadRemoval(g) \/ Work(g) \/ Fail(g)

\* What a step of g leaves alone.
OthersStay(g) ==
    /\ UNCHANGED conf
    /\ \A h \in Gens \ {g} :
         pc'[h] = pc[h] /\ at'[h] = at[h] /\ outcome'[h] = outcome[h]

ControlTyped ==
    pc \in [Gens -> Locations] /\ at \in [Gens -> Nat] /\ outcome \in [Gens -> Outcomes]

\* g makes its next call, or is at its end.
Goes(g, l)    == pc'[g] = l /\ outcome'[g] = outcome[g] /\ at'[g] = at[g]
Ends(g, why)  == pc'[g] = "done" /\ outcome'[g] = why /\ at'[g] = at[g]
Advances(g) ==
    \/ AtEnd(g) /\ Ends(g, "ok")
    \/ /\ ~AtEnd(g) /\ pc'[g] = "mkdir" /\ outcome'[g] = outcome[g]
       /\ at'[g] = at[g] + 1 /\ at'[g] \in 1..Len(Jobs(Loaded(g)))

\* The directories that os.MkdirAll makes, or finds.
Made(g) == {Enter(disk, q) : q \in Parents(Here(g))}

\* Something else stands where a directory is needed, when links are apart.
Stands(g) == \E q \in Parents(Here(g)) : disk[q] \notin {Absent, Dir}

\* The file that g fills is still there.
HoldsOpen(g) == HasOpen(g, Here(g))

\* What a step of g may do to the disk.
Puts(g, node) == disk' = [disk EXCEPT ![Here(g)] = node]

MakesParents(g) ==
    /\ pc[g] = "mkdir" /\ ~Stands(g)
    /\ disk' = [path \in Paths |-> IF path \in Parents(Here(g)) THEN Dir ELSE disk[path]]

Removes(g) ==
    pc[g] = "unlink" /\ Removable(disk[Here(g)], Here(g)) /\ Puts(g, Absent)

Opens(g) ==
    /\ pc[g] = "open"
    /\ \/ disk[Here(g)] = Absent /\ Puts(g, Regular({}, {}, {g}))
       \/ /\ disk[Here(g)].kind = "regular"
          /\ Puts(g, Regular({}, {}, disk[Here(g)].open \cup {g}))

Closes(g) ==
    /\ pc[g] = "fill" /\ HoldsOpen(g)
    /\ Puts(g, Filled(disk[Here(g)], g)) \/ Puts(g, Torn(disk[Here(g)], g))

Links(g) ==
    /\ pc[g] = "link" /\ disk[Here(g)] = Absent
    /\ Puts(g, Symlink(g, Job(g).to)) /\ Symlink(g, Job(g).to) \in Nodes

Changes(g) == MakesParents(g) \/ Removes(g) \/ Opens(g) \/ Closes(g) \/ Links(g)

-----------------------------------------------------------------------------
\* Plans and paths.

\* The names that paths consist of.
Label == STRING \cup {".radius-director", "manifest.yaml"}

JobSet == [path : Seq(Label) \ {<< >>}, kind : {"manifest", "regular", "symlink"},
           to : Seq(Label) \ {<< >>}]

LEMMA SeqFacts ==
    ASSUME NEW S, NEW s \in Seq(S)
    PROVE  Len(s) \in Nat /\ DOMAIN s = 1..Len(s) /\ \A i \in DOMAIN s : s[i] \in S
OBVIOUS

LEMMA SeqOfElements ==
    ASSUME NEW S, NEW n \in Nat, NEW s, s = [i \in 1..n |-> s[i]], \A i \in 1..n : s[i] \in S
    PROVE  s \in Seq(S) /\ Len(s) = n
OBVIOUS

LEMMA ConcatFacts ==
    ASSUME NEW S, NEW s \in Seq(S), NEW t \in Seq(S)
    PROVE  /\ s \o t \in Seq(S)
           /\ Len(s \o t) = Len(s) + Len(t)
           /\ \A i \in 1..(Len(s) + Len(t)) :
                (s \o t)[i] = IF i <= Len(s) THEN s[i] ELSE t[i - Len(s)]
OBVIOUS

LEMMA ManifestPathFacts ==
    ASSUME NEW id \in STRING
    PROVE  ManifestPath(id) \in Seq(Label) \ {<< >>}
<1>1. id \in Label /\ ".radius-director" \in Label /\ "manifest.yaml" \in Label
  BY DEF Label
<1>2. <<id, ".radius-director", "manifest.yaml">> \in Seq(Label) \ {<< >>}
  BY <1>1
<1> QED
  BY <1>2 DEF ManifestPath

LEMMA JobsFacts ==
    ASSUME NEW n \in Names
    PROVE  LET c == Configuration[n] IN
           /\ Len(c.tenants) \in Nat
           /\ DOMAIN c.tenants = 1..Len(c.tenants)
           /\ Jobs(c) \in Seq(JobSet)
           /\ Len(Jobs(c)) \in Nat
           /\ DOMAIN Jobs(c) = 1..Len(Jobs(c))
           /\ Len(c.tenants) <= Len(Jobs(c))
           /\ \A i \in DOMAIN Jobs(c) : Jobs(c)[i] \in JobSet
           /\ \A i \in DOMAIN c.tenants :
                Jobs(c)[i] = ManifestJob(c.tenants[i].id)
           /\ \A i \in DOMAIN Jobs(c) \ DOMAIN c.tenants :
                /\ i - Len(c.tenants) \in DOMAIN Files(c)
                /\ Jobs(c)[i] = Files(c)[i - Len(c.tenants)]
                /\ Jobs(c)[i] \in Entry
<1> DEFINE c == Configuration[n]
<1>1. /\ Len(c.tenants) \in Nat /\ DOMAIN c.tenants = 1..Len(c.tenants)
      /\ \A i \in DOMAIN c.tenants : c.tenants[i].id \in STRING
  <2> DEFINE T == [id : STRING, rendered : Seq([path : Seq(STRING), kind : {"regular", "symlink"},
                                                to : Seq(STRING)]),
                   remove : Seq(Seq(STRING))]
  <2>1. c.tenants \in Seq(T)
    BY PlanAssumption
  <2>2. \A t \in T : t.id \in STRING
    OBVIOUS
  <2> HIDE DEF T
  <2> QED
    BY <2>1, <2>2, SeqFacts
<1>2. /\ Files(c) \in Seq(Entry) /\ Len(Files(c)) \in Nat
      /\ DOMAIN Files(c) = 1..Len(Files(c))
      /\ \A i \in DOMAIN Files(c) : Files(c)[i] \in Entry
  BY PlanAssumption, SeqFacts
<1> DEFINE ms == Manifests(c)
           fs == Files(c)
<1>3. /\ ms = [i \in 1..Len(c.tenants) |-> ms[i]]
      /\ \A i \in DOMAIN c.tenants :
           ms[i] = ManifestJob(c.tenants[i].id)
  BY <1>1 DEF Manifests
<1>4. \A i \in DOMAIN ms : ms[i] \in JobSet
  <2> SUFFICES ASSUME NEW i \in DOMAIN c.tenants
               PROVE  ManifestJob(c.tenants[i].id) \in JobSet
    BY <1>1, <1>3
  <2>1. ManifestPath(c.tenants[i].id) \in Seq(Label) \ {<< >>}
    BY <1>1, ManifestPathFacts
  <2> QED
    BY <2>1 DEF JobSet, ManifestJob
<1>5. ms \in Seq(JobSet) /\ Len(ms) = Len(c.tenants)
  <2> HIDE DEF ms, c
  <2>1. \A i \in 1..Len(c.tenants) : ms[i] \in JobSet
    BY <1>3, <1>4
  <2> QED
    BY <1>1, <1>3, <2>1, SeqOfElements
<1>6. Entry \subseteq JobSet
  <2>1. Seq(STRING) \subseteq Seq(Label)
    BY DEF Label
  <2> QED
    BY <2>1 DEF Entry, JobSet
<1>7. fs \in Seq(JobSet)
  BY <1>2, <1>6
<1>8. Jobs(c) = ms \o fs
  BY DEF Jobs
<1> HIDE DEF ms, fs
<1>9. /\ Jobs(c) \in Seq(JobSet)
      /\ Len(Jobs(c)) = Len(ms) + Len(fs)
      /\ \A i \in 1..(Len(ms) + Len(fs)) :
           Jobs(c)[i] = IF i <= Len(ms) THEN ms[i] ELSE fs[i - Len(ms)]
  <2>1. /\ ms \o fs \in Seq(JobSet)
        /\ Len(ms \o fs) = Len(ms) + Len(fs)
        /\ \A i \in 1..(Len(ms) + Len(fs)) :
             (ms \o fs)[i] = IF i <= Len(ms) THEN ms[i] ELSE fs[i - Len(ms)]
    BY <1>5, <1>7, ConcatFacts
  <2> QED
    BY <1>8, <2>1, Zenon
<1> DEFINE js == Jobs(c)
<1> HIDE DEF js
<1>10. /\ Len(Jobs(c)) \in Nat /\ DOMAIN Jobs(c) = 1..Len(Jobs(c))
       /\ Len(c.tenants) <= Len(Jobs(c))
       /\ \A i \in DOMAIN Jobs(c) : Jobs(c)[i] \in JobSet
  <2>1. /\ js \in Seq(JobSet) /\ Len(js) = Len(ms) + Len(fs)
        /\ Len(ms) = Len(c.tenants) /\ Len(ms) \in Nat /\ Len(fs) \in Nat
    BY <1>1, <1>2, <1>5, <1>9 DEF fs, js
  <2>2. /\ Len(js) \in Nat /\ DOMAIN js = 1..Len(js) /\ Len(ms) <= Len(js)
        /\ \A i \in DOMAIN js : js[i] \in JobSet
    BY <2>1
  <2> QED
    BY <2>1, <2>2 DEF js
<1>11. \A i \in DOMAIN c.tenants :
          Jobs(c)[i] = ManifestJob(c.tenants[i].id)
  <2> SUFFICES ASSUME NEW i \in DOMAIN c.tenants
               PROVE  Jobs(c)[i] = ManifestJob(c.tenants[i].id)
    OBVIOUS
  <2>1. i \in Nat /\ 1 <= i /\ i <= Len(ms) /\ Len(ms) \in Nat /\ Len(fs) \in Nat
    BY <1>1, <1>2, <1>5 DEF fs
  <2>2. i \in 1..(Len(ms) + Len(fs))
    BY <2>1
  <2>3. Jobs(c)[i] = ms[i]
    BY <1>9, <2>1, <2>2
  <2> QED
    BY <1>3, <2>3
<1>12. ASSUME NEW i \in DOMAIN Jobs(c) \ DOMAIN c.tenants
       PROVE  /\ i - Len(c.tenants) \in DOMAIN Files(c)
              /\ Jobs(c)[i] = Files(c)[i - Len(c.tenants)]
              /\ Jobs(c)[i] \in Entry
  <2>0. Len(ms) = Len(c.tenants) /\ Len(ms) \in Nat /\ Len(fs) \in Nat
    BY <1>1, <1>2, <1>5 DEF fs
  <2>1. i \in Nat /\ i > Len(ms) /\ i <= Len(ms) + Len(fs) /\ i >= 1
    <3>1. i \in 1..(Len(ms) + Len(fs)) /\ i \notin 1..Len(ms)
      BY <1>1, <1>5, <1>9, <1>10
    <3> QED
      BY <2>0, <3>1
  <2>2. i - Len(ms) \in 1..Len(fs) /\ Jobs(c)[i] = fs[i - Len(ms)]
    <3>1. i \in 1..(Len(ms) + Len(fs)) /\ ~(i <= Len(ms))
      BY <2>0, <2>1
    <3>2. Jobs(c)[i] = fs[i - Len(ms)]
      BY <1>9, <3>1
    <3> QED
      BY <2>0, <2>1, <3>2
  <2> QED
    BY <1>2, <2>0, <2>2 DEF fs
<1> QED
  BY <1>1, <1>9, <1>10, <1>11, <1>12

\* Sequences and the ways to paths.

LEMMA SubSeqFacts ==
    ASSUME NEW S, NEW s \in Seq(S), NEW k \in 1..Len(s)
    PROVE  /\ SubSeq(s, 1, k) \in Seq(S) \ {<< >>}
           /\ Len(SubSeq(s, 1, k)) = k
           /\ \A i \in 1..k : SubSeq(s, 1, k)[i] = s[i]
<1>1. k \in Nat /\ Len(s) \in Nat /\ 1 <= k /\ k <= Len(s)
  OBVIOUS
<1>2. Len(SubSeq(s, 1, k)) = k /\ SubSeq(s, 1, k) \in Seq(S)
  BY <1>1
<1> QED
  BY <1>1, <1>2

LEMMA SamePath ==
    ASSUME NEW S, NEW a \in Seq(S), NEW b \in Seq(S), Len(a) = Len(b),
           \A i \in 1..Len(a) : a[i] = b[i]
    PROVE  a = b
OBVIOUS

LEMMA ParentsMean ==
    ASSUME NEW path \in Seq(Label) \ {<< >>}, NEW q
    PROVE  q \in Parents(path) <=>
             /\ q \in Seq(Label) \ {<< >>} /\ Len(q) < Len(path)
             /\ \A i \in 1..Len(q) : q[i] = path[i]
<1>1. Len(path) \in Nat \ {0}
  OBVIOUS
<1>2. ASSUME NEW k \in 1..(Len(path) - 1), q = SubSeq(path, 1, k)
      PROVE  /\ q \in Seq(Label) \ {<< >>} /\ Len(q) < Len(path)
             /\ \A i \in 1..Len(q) : q[i] = path[i]
  <2>1. k \in 1..Len(path) /\ k < Len(path)
    BY <1>1
  <2> QED
    BY <1>2, <2>1, SubSeqFacts
<1>3. ASSUME q \in Seq(Label) \ {<< >>}, Len(q) < Len(path), \A i \in 1..Len(q) : q[i] = path[i]
      PROVE  q \in Parents(path)
  <2>1. Len(q) \in 1..(Len(path) - 1) /\ Len(q) \in 1..Len(path)
    BY <1>1, <1>3
  <2> DEFINE b == SubSeq(path, 1, Len(q))
  <2>2. b \in Seq(Label) /\ Len(b) = Len(q) /\ \A i \in 1..Len(q) : b[i] = path[i]
    BY <2>1, SubSeqFacts
  <2>3. b \in Parents(path)
    BY <2>1 DEF Parents
  <2> HIDE DEF b
  <2>4. b = q
    BY <1>3, <2>2, SamePath
  <2> QED
    BY <2>3, <2>4
<1> QED
  BY <1>2, <1>3 DEF Parents

LEMMA ParentsOfParents ==
    ASSUME NEW path \in Seq(Label) \ {<< >>}, NEW q \in Parents(path)
    PROVE  q \in Seq(Label) \ {<< >>} /\ Parents(q) \subseteq Parents(path)
<1>1. /\ q \in Seq(Label) \ {<< >>} /\ Len(q) < Len(path)
      /\ \A i \in 1..Len(q) : q[i] = path[i]
  BY ParentsMean
<1>2. ASSUME NEW r \in Parents(q) PROVE r \in Parents(path)
  <2>1. /\ r \in Seq(Label) \ {<< >>} /\ Len(r) < Len(q)
        /\ \A i \in 1..Len(r) : r[i] = q[i]
    BY <1>1, ParentsMean
  <2>2. Len(r) \in Nat /\ Len(q) \in Nat /\ Len(path) \in Nat
    BY <1>1, <2>1
  <2>3. Len(r) < Len(path) /\ \A i \in 1..Len(r) : r[i] = path[i]
    BY <1>1, <2>1, <2>2
  <2> QED
    BY <2>1, <2>3, ParentsMean
<1> QED
  BY <1>1, <1>2

LEMMA PathsFacts ==
    ASSUME NEW n \in Names, NEW i \in DOMAIN Jobs(Configuration[n])
    PROVE  LET path == Jobs(Configuration[n])[i].path IN
           /\ path \in Paths
           /\ path \in Planned(Configuration[n])
           /\ path \in Seq(Label) \ {<< >>}
           /\ Parents(path) \subseteq Paths
           /\ path \notin Parents(path)
<1> DEFINE path == Jobs(Configuration[n])[i].path
<1>1. path \in Planned(Configuration[n])
  BY DEF Planned
<1>2. path \in Leaves
  BY <1>1 DEF Leaves, Wanted, Lead
<1>3. path \in Paths /\ Parents(path) \subseteq Paths
  BY <1>2 DEF Paths
<1>4. path \in Seq(Label) \ {<< >>}
  BY JobsFacts DEF JobSet
<1>5. ASSUME NEW k \in 1..(Len(path) - 1) PROVE SubSeq(path, 1, k) # path
  <2>1. Len(path) \in Nat /\ k \in Nat /\ k < Len(path)
    BY <1>4
  <2>2. Len(SubSeq(path, 1, k)) = k
    BY <1>4, <2>1
  <2> QED
    BY <2>1, <2>2
<1> QED
  BY <1>1, <1>3, <1>4, <1>5 DEF Parents

\* The element of its plan that a running generation works on.
LEMMA HereFacts ==
    ASSUME TypeOK, NEW g \in Gens, Running(g)
    PROVE  /\ conf[g] \in Names
           /\ at[g] \in 1..Len(Jobs(Loaded(g))) /\ Len(Jobs(Loaded(g))) \in Nat
           /\ Job(g) \in JobSet
           /\ Here(g) \in Paths
           /\ Here(g) \in Planned(Loaded(g))
           /\ Parents(Here(g)) \subseteq Paths
           /\ Here(g) \notin Parents(Here(g))
<1>1. conf[g] \in Names /\ at[g] \in DOMAIN Jobs(Configuration[conf[g]])
  BY DEF TypeOK, Loaded
<1>2. /\ Len(Jobs(Configuration[conf[g]])) \in Nat
      /\ DOMAIN Jobs(Configuration[conf[g]]) = 1..Len(Jobs(Configuration[conf[g]]))
      /\ Jobs(Configuration[conf[g]])[at[g]] \in JobSet
  BY <1>1, JobsFacts
<1> QED
  BY <1>1, <1>2, PathsFacts DEF Loaded, Job, Here

\* Any element of its plan up to there.
LEMMA PlanFacts ==
    ASSUME TypeOK, NEW g \in Gens, Running(g), NEW i \in 1..at[g]
    PROVE  /\ i \in DOMAIN Jobs(Loaded(g)) /\ i \in Nat /\ at[g] \in Nat
           /\ Jobs(Loaded(g))[i] \in JobSet
           /\ Jobs(Loaded(g))[i].path \in Paths
           /\ Jobs(Loaded(g))[i].path \in Planned(Loaded(g))
<1>1. at[g] \in 1..Len(Jobs(Loaded(g))) /\ Len(Jobs(Loaded(g))) \in Nat /\ conf[g] \in Names
  BY HereFacts
<1>2. i \in DOMAIN Jobs(Configuration[conf[g]]) /\ Jobs(Configuration[conf[g]])[i] \in JobSet
  BY <1>1, JobsFacts DEF Loaded
<1>3. /\ Jobs(Configuration[conf[g]])[i].path \in Paths
      /\ Jobs(Configuration[conf[g]])[i].path \in Planned(Configuration[conf[g]])
  BY <1>1, <1>2, PathsFacts
<1> QED
  BY <1>1, <1>2, <1>3 DEF Loaded

-----------------------------------------------------------------------------
\* Nodes.

LEMMA NodeFacts ==
    /\ Absent \in Nodes /\ Dir \in Nodes /\ Absent # Dir
    /\ Absent.kind = "absent" /\ Dir.kind = "dir"
    /\ \A t \in SUBSET Writers, b, o \in SUBSET Gens :
         /\ Regular(t, b, o) \in Nodes
         /\ Regular(t, b, o).kind = "regular" /\ Regular(t, b, o).text = t
         /\ Regular(t, b, o).torn = b /\ Regular(t, b, o).open = o
    /\ \A w, to :
         /\ w \in Writers /\ to \in Seq(STRING) \ {<< >>} => Symlink(w, to) \in Nodes
         /\ Symlink(w, to).kind = "symlink" /\ Symlink(w, to).text = {w}
         /\ Symlink(w, to).torn = {} /\ Symlink(w, to).open = {} /\ Symlink(w, to).to = to
<1>1. Absent # Dir /\ Absent.kind = "absent" /\ Dir.kind = "dir"
  BY DEF Absent, Dir
<1>2. Absent \in Nodes /\ Dir \in Nodes
  BY DEF Nodes
<1>3. ASSUME NEW t \in SUBSET Writers, NEW b \in SUBSET Gens, NEW o \in SUBSET Gens
      PROVE  Regular(t, b, o) \in Nodes
  BY DEF Regular, Nodes
<1>4. ASSUME NEW w \in Writers, NEW to \in Seq(STRING) \ {<< >>} PROVE Symlink(w, to) \in Nodes
  BY DEF Symlink, Nodes
<1> QED
  BY <1>1, <1>2, <1>3, <1>4 DEF Regular, Symlink

LEMMA NodeCases ==
    ASSUME NEW node \in Nodes
    PROVE  \/ node = Absent
           \/ node = Dir
           \/ /\ node.kind = "regular"
              /\ node.text \in SUBSET Writers
              /\ node.torn \in SUBSET Gens /\ node.open \in SUBSET Gens
              /\ node = Regular(node.text, node.torn, node.open)
           \/ \E w \in Writers : \E to \in Seq(STRING) \ {<< >>} : node = Symlink(w, to)
BY DEF Nodes, Regular, Symlink

LEMMA KindFacts ==
    ASSUME NEW node \in Nodes
    PROVE  /\ IsFile(node) <=> node \notin {Absent, Dir}
           /\ node = Absent <=> node.kind = "absent"
           /\ node = Dir <=> node.kind = "dir"
           /\ node.kind = "regular" => IsFile(node)
           /\ IsLink(node) <=> node.kind = "symlink"
<1>1. CASE node = Absent \/ node = Dir
  BY <1>1, NodeFacts DEF IsFile, IsLink
<1>2. CASE node.kind = "regular"
  BY <1>2, NodeFacts DEF IsFile, IsLink
<1>3. CASE \E w \in Writers : \E to \in Seq(STRING) \ {<< >>} : node = Symlink(w, to)
  BY <1>3, NodeFacts DEF IsFile, IsLink
<1> QED
  BY <1>1, <1>2, <1>3, NodeCases

-----------------------------------------------------------------------------
\* What steps do to the program of a generation.

LEMMA NextJobFacts ==
    ASSUME TypeOK, NEW g \in Gens, Running(g), NextJob(g), UNCHANGED conf
    PROVE  ControlTyped' /\ OthersStay(g) /\ Advances(g)
<1>1. /\ pc \in [Gens -> Locations] /\ at \in [Gens -> Nat] /\ outcome \in [Gens -> Outcomes]
      /\ at[g] \in 1..Len(Jobs(Loaded(g))) /\ Len(Jobs(Loaded(g))) \in Nat
  BY HereFacts DEF TypeOK
<1>2. CASE AtEnd(g)
  <2>1. UNCHANGED at /\ pc' = [pc EXCEPT ![g] = "done"] /\ outcome' = [outcome EXCEPT ![g] = "ok"]
    BY <1>2 DEF NextJob, Return, Goto
  <2> QED
    BY <1>1, <1>2, <2>1 DEF Locations, Outcomes, ControlTyped, OthersStay, Advances, Ends
<1>3. CASE ~AtEnd(g)
  <2>1. /\ pc' = [pc EXCEPT ![g] = "mkdir"] /\ at' = [at EXCEPT ![g] = @ + 1]
        /\ UNCHANGED outcome
    BY <1>3 DEF NextJob, Goto
  <2>2. at[g] # Len(Jobs(Loaded(g)))
    BY <1>3 DEF AtEnd
  <2> QED
    BY <1>1, <1>3, <2>1, <2>2 DEF Locations, Outcomes, ControlTyped, OthersStay, Advances
<1> QED
  BY <1>2, <1>3

LEMMA ReturnFacts ==
    ASSUME TypeOK, NEW g \in Gens, NEW why \in Outcomes, Return(g, why), UNCHANGED <<conf, at>>
    PROVE  ControlTyped' /\ OthersStay(g) /\ Ends(g, why)
BY DEF TypeOK, Return, Goto, Locations, ControlTyped, OthersStay, Ends

LEMMA GotoFacts ==
    ASSUME TypeOK, NEW g \in Gens, NEW l \in Locations, Goto(g, l), UNCHANGED <<conf, at, outcome>>
    PROVE  ControlTyped' /\ OthersStay(g) /\ Goes(g, l)
BY DEF TypeOK, Goto, ControlTyped, OthersStay, Goes

LEMMA EarlyForm ==
    ASSUME TypeOK, NEW g \in Gens, Refuse(g) \/ Begin(g) \/ BadRemoval(g)
    PROVE  /\ ControlTyped' /\ OthersStay(g) /\ UNCHANGED disk /\ MayBegin(g)
           /\ \/ Ends(g, "ok") /\ Jobs(Loaded(g)) = << >>
              \/ Goes(g, "mkdir") /\ Jobs(Loaded(g)) # << >>
              \/ Ends(g, "refused") \/ Ends(g, "badRemoval")
<1>1. CASE Refuse(g)
  BY <1>1, ReturnFacts DEF Refuse, Outcomes
<1>2. CASE Begin(g) /\ Jobs(Loaded(g)) = << >>
  BY <1>2, ReturnFacts DEF Begin, Outcomes
<1>3. CASE Begin(g) /\ Jobs(Loaded(g)) # << >>
  BY <1>3, GotoFacts DEF Begin, Locations
<1>4. CASE BadRemoval(g)
  BY <1>4, ReturnFacts DEF BadRemoval, Outcomes
<1> QED
  BY <1>1, <1>2, <1>3, <1>4

LEMMA MkdirParentsForm ==
    ASSUME TypeOK, NEW g \in Gens, MkdirParents(g)
    PROVE  /\ ControlTyped' /\ OthersStay(g) /\ Running(g)
           /\ \/ /\ ~Obstructed(g)
                 /\ disk' = [path \in Paths |-> IF path \in Made(g) THEN Dir ELSE disk[path]]
                 /\ Goes(g, IF Job(g).kind = "manifest" THEN "open" ELSE "lstat")
              \/ Obstructed(g) /\ UNCHANGED disk /\ Ends(g, "blocked")
<1>0. Running(g)
  BY DEF MkdirParents, Running
<1>1. CASE ~Obstructed(g)
  <2> DEFINE l == IF Job(g).kind = "manifest" THEN "open" ELSE "lstat"
  <2>1. l \in Locations /\ Goto(g, l) /\ UNCHANGED <<conf, at, outcome>>
    BY <1>1 DEF MkdirParents, Locations
  <2>2. ControlTyped' /\ OthersStay(g) /\ Goes(g, l)
    BY <2>1, GotoFacts
  <2> QED
    BY <1>0, <1>1, <2>2 DEF MkdirParents, Made
<1>2. CASE Obstructed(g)
  BY <1>0, <1>2, ReturnFacts DEF MkdirParents, Outcomes
<1> QED
  BY <1>1, <1>2

LEMMA LstatForm ==
    ASSUME TypeOK, NEW g \in Gens, Lstat(g)
    PROVE  /\ ControlTyped' /\ OthersStay(g) /\ Running(g) /\ UNCHANGED disk
           /\ \/ At(disk, There(g)) = Absent /\ ~Broken(g) /\ Goes(g, Create(g))
              \/ At(disk, There(g)) = Absent /\ Broken(g) /\ Ends(g, "ioError")
              \/ At(disk, There(g)) = Dir /\ Ends(g, "blocked")
              \/ At(disk, There(g)) \notin {Absent, Dir} /\ Goes(g, "unlink")
<1>0. Running(g) /\ UNCHANGED disk
  BY DEF Lstat, Running
<1>1. CASE At(disk, There(g)) = Absent /\ ~Broken(g) /\ Goto(g, Create(g)) /\ UNCHANGED outcome
  <2>1. Create(g) \in Locations
    BY DEF Create, Locations
  <2> QED
    BY <1>0, <1>1, <2>1, GotoFacts DEF Lstat
<1>2. CASE At(disk, There(g)) = Absent /\ Broken(g) /\ Return(g, "ioError")
  BY <1>0, <1>2, ReturnFacts DEF Lstat, Outcomes
<1>3. CASE At(disk, There(g)) = Dir /\ Return(g, "blocked")
  BY <1>0, <1>3, ReturnFacts DEF Lstat, Outcomes
<1>4. CASE At(disk, There(g)) \notin {Absent, Dir} /\ Goto(g, "unlink") /\ UNCHANGED outcome
  BY <1>0, <1>4, GotoFacts DEF Lstat, Locations
<1> QED
  BY <1>1, <1>2, <1>3, <1>4 DEF Lstat

LEMMA UnlinkForm ==
    ASSUME TypeOK, NEW g \in Gens, Unlink(g)
    PROVE  /\ ControlTyped' /\ OthersStay(g) /\ Running(g)
           /\ \/ /\ Removable(At(disk, There(g)), There(g))
                 /\ disk' = [disk EXCEPT ![There(g)] = Absent]
                 /\ Goes(g, Create(g))
              \/ ~Removable(At(disk, There(g)), There(g)) /\ UNCHANGED disk /\ Ends(g, "ioError")
<1>0. Running(g)
  BY DEF Unlink, Running
<1>1. CASE /\ Removable(At(disk, There(g)), There(g))
           /\ disk' = [disk EXCEPT ![There(g)] = Absent]
           /\ Goto(g, Create(g)) /\ UNCHANGED outcome
  <2>1. Create(g) \in Locations
    BY DEF Create, Locations
  <2> QED
    BY <1>0, <1>1, <2>1, GotoFacts DEF Unlink
<1>2. CASE ~Removable(At(disk, There(g)), There(g)) /\ Return(g, "ioError") /\ UNCHANGED disk
  BY <1>0, <1>2, ReturnFacts DEF Unlink, Outcomes
<1> QED
  BY <1>1, <1>2 DEF Unlink

LEMMA OpenForm ==
    ASSUME TypeOK, NEW g \in Gens, Open(g)
    PROVE  LET node == At(disk, Target(g)) IN
           /\ ControlTyped' /\ OthersStay(g) /\ Running(g)
           /\ \/ /\ node = Absent /\ Reachable(Target(g))
                 /\ disk' = [disk EXCEPT ![Target(g)] = Regular({}, {}, {g})]
                 /\ Goes(g, "fill")
              \/ /\ node.kind = "regular"
                 /\ disk' = [disk EXCEPT ![Target(g)] = Regular({}, {}, node.open \cup {g})]
                 /\ Goes(g, "fill")
              \/ node = Dir /\ UNCHANGED disk /\ Ends(g, "blocked")
              \/ /\ IsLink(node) \/ (node = Absent /\ ~Reachable(Target(g)))
                 /\ UNCHANGED disk /\ Ends(g, "ioError")
<1> DEFINE node == At(disk, Target(g))
<1>0. Running(g)
  BY DEF Open, Running
<1>2. CASE /\ node = Absent /\ Reachable(Target(g))
           /\ disk' = [disk EXCEPT ![Target(g)] = Regular({}, {}, {g})]
           /\ Goto(g, "fill") /\ UNCHANGED outcome
  BY <1>0, <1>2, GotoFacts DEF Open, Locations
<1>3. CASE /\ node.kind = "regular"
           /\ disk' = [disk EXCEPT ![Target(g)] = Regular({}, {}, node.open \cup {g})]
           /\ Goto(g, "fill") /\ UNCHANGED outcome
  BY <1>0, <1>3, GotoFacts DEF Open, Locations
<1>4. CASE node = Dir /\ Return(g, "blocked") /\ UNCHANGED disk
  BY <1>0, <1>4, ReturnFacts DEF Open, Outcomes
<1>5. CASE /\ IsLink(node) \/ (node = Absent /\ ~Reachable(Target(g)))
           /\ Return(g, "ioError") /\ UNCHANGED disk
  BY <1>0, <1>5, ReturnFacts DEF Open, Outcomes
<1> QED
  BY <1>2, <1>3, <1>4, <1>5 DEF Open

LEMMA FillForm ==
    ASSUME TypeOK, NEW g \in Gens, Fill(g)
    PROVE  /\ ControlTyped' /\ OthersStay(g) /\ Running(g) /\ Advances(g)
           /\ disk' = [path \in Paths |->
                         IF HasOpen(g, path) THEN Filled(disk[path], g) ELSE disk[path]]
<1>0. Running(g)
  BY DEF Fill, Running
<1> QED
  BY <1>0, NextJobFacts DEF Fill

LEMMA MakeLinkForm ==
    ASSUME TypeOK, NEW g \in Gens, MakeLink(g)
    PROVE  /\ ControlTyped' /\ OthersStay(g) /\ Running(g)
           /\ \/ /\ At(disk, There(g)) = Absent /\ Reachable(There(g))
                 /\ disk' = [disk EXCEPT ![There(g)] = Symlink(g, Job(g).to)]
                 /\ Advances(g)
              \/ At(disk, There(g)) = Absent /\ ~Reachable(There(g)) /\ UNCHANGED disk /\ Ends(g, "ioError")
              \/ At(disk, There(g)) # Absent /\ UNCHANGED disk /\ Ends(g, "blocked")
<1>0. Running(g)
  BY DEF MakeLink, Running
<1>1. CASE /\ At(disk, There(g)) = Absent /\ Reachable(There(g))
           /\ disk' = [disk EXCEPT ![There(g)] = Symlink(g, Job(g).to)] /\ NextJob(g)
  BY <1>0, <1>1, NextJobFacts DEF MakeLink
<1>2. CASE At(disk, There(g)) = Absent /\ ~Reachable(There(g)) /\ Return(g, "ioError") /\ UNCHANGED <<disk, at>>
  BY <1>0, <1>2, ReturnFacts DEF MakeLink, Outcomes
<1>3. CASE At(disk, There(g)) # Absent /\ Return(g, "blocked") /\ UNCHANGED <<disk, at>>
  BY <1>0, <1>3, ReturnFacts DEF MakeLink, Outcomes
<1> QED
  BY <1>1, <1>2, <1>3 DEF MakeLink

LEMMA FailForm ==
    ASSUME TypeOK, NEW g \in Gens, Fail(g)
    PROVE  /\ ControlTyped' /\ OthersStay(g) /\ Running(g)
           /\ Ends(g, "ioError") \/ Ends(g, "crashed")
           /\ disk' = IF pc[g] = "fill"
                        THEN [path \in Paths |->
                                IF HasOpen(g, path) THEN Torn(disk[path], g) ELSE disk[path]]
                        ELSE disk
<1>0. Running(g)
  BY DEF Fail
<1>2. ControlTyped' /\ OthersStay(g) /\ (Ends(g, "ioError") \/ Ends(g, "crashed"))
  <2>1. CASE Return(g, "ioError")
    BY <2>1, ReturnFacts DEF Fail, Outcomes
  <2>2. CASE Return(g, "crashed")
    BY <2>2, ReturnFacts DEF Fail, Outcomes
  <2> QED
    BY <2>1, <2>2 DEF Fail
<1> QED
  BY <1>0, <1>2 DEF Fail

\* Whatever the step, it changes the program of g alone.
LEMMA ControlForm ==
    ASSUME TypeOK, NEW g \in Gens, Step(g)
    PROVE  ControlTyped' /\ OthersStay(g)
<1>1. CASE Refuse(g) \/ Begin(g) \/ BadRemoval(g)
  BY <1>1, EarlyForm
<1>2. CASE MkdirParents(g)
  BY <1>2, MkdirParentsForm
<1>3. CASE Lstat(g)
  BY <1>3, LstatForm
<1>4. CASE Unlink(g)
  BY <1>4, UnlinkForm
<1>5. CASE Open(g)
  BY <1>5, OpenForm
<1>6. CASE Fill(g)
  BY <1>6, FillForm
<1>7. CASE MakeLink(g)
  BY <1>7, MakeLinkForm
<1>8. CASE Fail(g)
  BY <1>8, FailForm
<1> QED
  BY <1>1, <1>2, <1>3, <1>4, <1>5, <1>6, <1>7, <1>8 DEF Step, Work

\* The link that g makes.
LEMMA LinkTyped ==
    ASSUME ControlInv, NEW g \in Gens, pc[g] = "link"
    PROVE  Symlink(g, Job(g).to) \in Nodes
<1>1. Running(g) /\ Job(g).kind = "symlink"
  BY DEF ControlInv, KindInv, Running
<1>2. conf[g] \in Names /\ at[g] \in DOMAIN Jobs(Configuration[conf[g]])
      /\ Job(g) = Jobs(Configuration[conf[g]])[at[g]]
  BY <1>1 DEF ControlInv, TypeOK, Loaded, Job
<1>3. at[g] \notin DOMAIN Configuration[conf[g]].tenants
  <2> SUFFICES ASSUME at[g] \in DOMAIN Configuration[conf[g]].tenants PROVE FALSE
    OBVIOUS
  <2>1. Job(g) = ManifestJob(Configuration[conf[g]].tenants[at[g]].id)
    BY <1>2, JobsFacts
  <2> QED
    BY <1>1, <2>1 DEF ManifestJob
<1>4. Job(g) \in Entry
  BY <1>2, <1>3, JobsFacts
<1>5. Job(g).to \in Seq(STRING) \ {<< >>}
  BY <1>4 DEF Entry
<1> QED
  BY <1>5, NodeFacts DEF Writers

LEMMA FilledTyped ==
    ASSUME NEW node \in Nodes, node.kind = "regular", NEW g \in Gens
    PROVE  Filled(node, g) \in Nodes /\ Torn(node, g) \in Nodes
           /\ Regular({}, {}, node.open \cup {g}) \in Nodes
<1>1. node.text \in SUBSET Writers /\ node.torn \in SUBSET Gens /\ node.open \in SUBSET Gens
  BY NodeCases, NodeFacts
<1>2. node.text \cup {g} \in SUBSET Writers /\ node.open \ {g} \in SUBSET Gens
      /\ node.torn \cup {g} \in SUBSET Gens /\ node.open \cup {g} \in SUBSET Gens
  BY <1>1 DEF Writers
<1> QED
  BY <1>1, <1>2, NodeFacts DEF Filled, Torn

LEMMA AtTyped == ASSUME TypeOK, NEW path PROVE At(disk, path) \in Nodes
BY NodeFacts DEF TypeOK, At

LEMMA DiskTyped ==
    ASSUME ControlInv, NEW g \in Gens, Step(g)
    PROVE  disk' \in [Paths -> Nodes]
<1>0. TypeOK /\ disk \in [Paths -> Nodes]
  BY DEF ControlInv, TypeOK
<1>1. ASSUME NEW path, NEW node \in Nodes, disk' = [disk EXCEPT ![path] = node]
      PROVE  disk' \in [Paths -> Nodes]
  BY <1>0, <1>1
<1>2. CASE Refuse(g) \/ Begin(g) \/ BadRemoval(g)
  BY <1>0, <1>2, EarlyForm
<1>3. CASE MkdirParents(g)
  BY <1>0, <1>3, MkdirParentsForm, NodeFacts
<1>4. CASE Lstat(g)
  BY <1>0, <1>4, LstatForm
<1>5. CASE Unlink(g)
  BY <1>0, <1>1, <1>5, UnlinkForm, NodeFacts
<1>6. CASE Open(g)
  <2> DEFINE node == At(disk, Target(g))
  <2>1. Regular({}, {}, {g}) \in Nodes
        /\ (node.kind = "regular" => Regular({}, {}, node.open \cup {g}) \in Nodes)
    BY <1>0, AtTyped, FilledTyped, NodeFacts
  <2>2. \/ disk' = [disk EXCEPT ![Target(g)] = Regular({}, {}, {g})]
        \/ /\ node.kind = "regular"
           /\ disk' = [disk EXCEPT ![Target(g)] = Regular({}, {}, node.open \cup {g})]
        \/ UNCHANGED disk
    BY <1>0, <1>6, OpenForm
  <2> HIDE DEF node
  <2> QED
    BY <1>0, <1>1, <2>1, <2>2
<1>7. \A path \in Paths :
        HasOpen(g, path) => Filled(disk[path], g) \in Nodes /\ Torn(disk[path], g) \in Nodes
  BY <1>0, FilledTyped DEF HasOpen
<1>8. CASE Fill(g)
  BY <1>0, <1>7, <1>8, FillForm
<1>9. CASE MakeLink(g)
  <2>1. Symlink(g, Job(g).to) \in Nodes
    BY <1>9, LinkTyped DEF MakeLink
  <2> QED
    BY <1>0, <1>1, <1>9, <2>1, MakeLinkForm
<1>10. CASE Fail(g)
  BY <1>0, <1>7, <1>10, FailForm
<1> QED
  BY <1>2, <1>3, <1>4, <1>5, <1>6, <1>8, <1>9, <1>10 DEF Step, Work

\* Where the program of g is after a step of its own.
LEMMA ProgramStep ==
    ASSUME ControlInv, NEW g \in Gens, Step(g)
    PROVE  /\ pc'[g] # "idle"
           /\ Running(g)' => /\ at'[g] \in DOMAIN Jobs(Loaded(g))
                             /\ Running(g) \/ MayBegin(g)
           /\ pc'[g] \in {"lstat", "unlink", "link", "open", "fill"} => at'[g] = at[g] /\ Running(g)
           /\ pc'[g] \in {"lstat", "unlink", "link"} => Job(g).kind # "manifest"
           /\ pc'[g] = "link" => Job(g).kind = "symlink"
           /\ pc'[g] \in {"open", "fill"} => Job(g).kind # "symlink"
<1>0. TypeOK
  BY DEF ControlInv
<1>1. Running(g) => at[g] \in DOMAIN Jobs(Loaded(g)) /\ Running(g)
  BY <1>0 DEF TypeOK
<1>2. CASE Refuse(g) \/ Begin(g) \/ BadRemoval(g)
  <2>1. /\ MayBegin(g)
        /\ \/ Ends(g, "ok") /\ Jobs(Loaded(g)) = << >>
           \/ Goes(g, "mkdir") /\ Jobs(Loaded(g)) # << >>
           \/ Ends(g, "refused") \/ Ends(g, "badRemoval")
    BY <1>0, <1>2, EarlyForm
  <2>2. at[g] = 1
    BY <2>1 DEF ControlInv, BeginInv, MayBegin
  <2>3. Jobs(Loaded(g)) # << >> => 1 \in DOMAIN Jobs(Loaded(g))
    <3>1. conf[g] \in Names
      BY <1>0 DEF TypeOK
    <3>2. Len(Jobs(Loaded(g))) \in Nat /\ DOMAIN Jobs(Loaded(g)) = 1..Len(Jobs(Loaded(g)))
          /\ Jobs(Loaded(g)) \in Seq(JobSet)
      BY <3>1, JobsFacts DEF Loaded
    <3> QED
      BY <3>2
  <2> QED
    BY <2>1, <2>2, <2>3 DEF Ends, Goes, Running
<1>3. CASE MkdirParents(g)
  <2>1. Goes(g, IF Job(g).kind = "manifest" THEN "open" ELSE "lstat") \/ Ends(g, "blocked")
    BY <1>0, <1>3, MkdirParentsForm
  <2>2. Running(g)
    BY <1>3 DEF MkdirParents, Running
  <2> QED
    BY <1>1, <2>1, <2>2 DEF Ends, Goes, Running
<1>4. CASE Lstat(g)
  <2>1. Goes(g, Create(g)) \/ Goes(g, "unlink") \/ Ends(g, "ioError") \/ Ends(g, "blocked")
    BY <1>0, <1>4, LstatForm
  <2>2. Running(g) /\ Job(g).kind # "manifest"
    BY <1>4 DEF Lstat, Running, ControlInv, KindInv
  <2> QED
    BY <1>1, <2>1, <2>2 DEF Ends, Goes, Running, Create
<1>5. CASE Unlink(g)
  <2>1. Goes(g, Create(g)) \/ Ends(g, "ioError")
    BY <1>0, <1>5, UnlinkForm
  <2>2. Running(g) /\ Job(g).kind # "manifest"
    BY <1>5 DEF Unlink, Running, ControlInv, KindInv
  <2> QED
    BY <1>1, <2>1, <2>2 DEF Ends, Goes, Running, Create
<1>6. CASE Open(g)
  <2>1. Goes(g, "fill") \/ Ends(g, "ioError") \/ Ends(g, "blocked")
    BY <1>0, <1>6, OpenForm
  <2>2. Running(g) /\ Job(g).kind # "symlink"
    BY <1>6 DEF Open, Running, ControlInv, KindInv
  <2> QED
    BY <1>1, <2>1, <2>2 DEF Ends, Goes, Running
<1>7. ASSUME Running(g), Advances(g)
      PROVE  /\ pc'[g] \in {"mkdir", "done"}
             /\ Running(g)' => at'[g] \in DOMAIN Jobs(Loaded(g))
  <2>1. DOMAIN Jobs(Loaded(g)) = 1..Len(Jobs(Loaded(g)))
    BY <1>0, JobsFacts DEF TypeOK, Loaded
  <2> QED
    BY <1>7, <2>1 DEF Advances, Ends, Running
<1>8. CASE Fill(g)
  BY <1>0, <1>7, <1>8, FillForm
<1>9. CASE MakeLink(g)
  <2>1. Running(g) /\ (Advances(g) \/ Ends(g, "ioError") \/ Ends(g, "blocked"))
    BY <1>0, <1>9, MakeLinkForm
  <2> QED
    BY <1>7, <2>1 DEF Ends, Running
<1>10. CASE Fail(g)
  <2>1. Ends(g, "ioError") \/ Ends(g, "crashed")
    BY <1>0, <1>10, FailForm
  <2> QED
    BY <2>1 DEF Ends, Running
<1> QED
  BY <1>2, <1>3, <1>4, <1>5, <1>6, <1>8, <1>9, <1>10 DEF Step, Work

-----------------------------------------------------------------------------
\* ControlInv.

LEMMA TypeStep == ASSUME ControlInv, NEW g \in Gens, Step(g) PROVE TypeOK'
<1>0. TypeOK
  BY DEF ControlInv
<1>1. ControlTyped' /\ OthersStay(g)
  BY <1>0, ControlForm
<1>2. disk' \in [Paths -> Nodes]
  BY DiskTyped
<1>3. ASSUME NEW h \in Gens, Running(h)' PROVE at'[h] \in DOMAIN Jobs(Loaded(h))
  BY <1>0, <1>1, <1>3, ProgramStep DEF TypeOK, OthersStay, Running
<1>4. \A h \in Gens : Loaded(h)' = Loaded(h)
  BY <1>1 DEF OthersStay, Loaded
<1> QED
  BY <1>0, <1>1, <1>2, <1>3, <1>4 DEF TypeOK, ControlTyped, OthersStay

LEMMA BeginInvStep == ASSUME ControlInv, NEW g \in Gens, Step(g) PROVE BeginInv'
<1>0. TypeOK /\ BeginInv
  BY DEF ControlInv
<1>1. OthersStay(g) /\ pc'[g] # "idle"
  BY <1>0, ControlForm, ProgramStep
<1>2. pc[g] # "idle" \/ MayBegin(g)
  BY DEF Step, Refuse, Begin, BadRemoval, Work, MkdirParents, Lstat, Unlink, Open, Fill,
         MakeLink, Fail, Running
<1>3. \A h \in Gens : h < g => pc[h] # "idle"
  BY <1>0, <1>2 DEF BeginInv, MayBegin
<1> QED
  BY <1>0, <1>1, <1>3 DEF BeginInv, OthersStay

\* The element that a generation works on, after a step of g.
LEMMA JobStays ==
    ASSUME NEW g \in Gens, OthersStay(g), NEW h \in Gens, at'[h] = at[h]
    PROVE  Job(h)' = Job(h) /\ Here(h)' = Here(h) /\ Loaded(h)' = Loaded(h)
BY DEF OthersStay, Job, Here, Loaded

LEMMA KindInvStep == ASSUME ControlInv, NEW g \in Gens, Step(g) PROVE KindInv'
<1>1. TypeOK /\ KindInv
  BY DEF ControlInv
<1>2. OthersStay(g)
  BY <1>1, ControlForm
<1> SUFFICES ASSUME NEW h \in Gens
             PROVE  /\ pc'[h] \in {"lstat", "unlink", "link"} => Job(h)'.kind # "manifest"
                    /\ pc'[h] = "link" => Job(h)'.kind = "symlink"
                    /\ pc'[h] \in {"open", "fill"} => Job(h)'.kind # "symlink"
  BY DEF KindInv
<1>3. CASE h = g
  <2>1. pc'[g] \in {"lstat", "unlink", "link", "open", "fill"} => Job(g)' = Job(g)
    BY <1>2, ProgramStep, JobStays
  <2> QED
    BY <1>3, <2>1, ProgramStep
<1>4. CASE h # g
  <2>1. pc'[h] = pc[h] /\ Job(h)' = Job(h)
    BY <1>2, <1>4, JobStays DEF OthersStay
  <2> QED
    BY <1>1, <2>1 DEF KindInv
<1> QED
  BY <1>3, <1>4

LEMMA ControlInvInit == Init => ControlInv
<1> SUFFICES ASSUME Init PROVE ControlInv
  OBVIOUS
<1>1. disk \in [Paths -> Nodes]
  BY NodeFacts DEF Init, Writers
<1>2. TypeOK
  BY <1>1 DEF Init, TypeOK, Locations, Outcomes, Running
<1>3. BeginInv /\ KindInv
  BY DEF Init, BeginInv, KindInv
<1> QED
  BY <1>2, <1>3 DEF ControlInv

LEMMA ControlInvStep == ControlInv /\ [Next]_vars => ControlInv'
<1> SUFFICES ASSUME ControlInv, [Next]_vars PROVE ControlInv'
  OBVIOUS
<1>1. ASSUME NEW g \in Gens, Step(g) PROVE ControlInv'
  BY <1>1, TypeStep, BeginInvStep, KindInvStep DEF ControlInv
<1>2. CASE UNCHANGED vars
  BY <1>2 DEF ControlInv, TypeOK, BeginInv, KindInv, vars, Running, Loaded, Job, Here
<1> QED
  BY <1>1, <1>2 DEF Next, Step

\* What the program counters and the plans always satisfy.
THEOREM ControlInvariant == Spec => []ControlInv
<1> QED
  BY ControlInvInit, ControlInvStep, PTL DEF Spec

\* Generations stay within their plans, and the disk holds nodes that the
\* calls of the writer can make, however generations overlap and fail and
\* wherever links lead.
THEOREM WriterTypeCorrect == Spec => []TypeOK
<1>1. ControlInv => TypeOK
  BY DEF ControlInv
<1> QED
  BY <1>1, ControlInvariant, PTL

-----------------------------------------------------------------------------
\* Where links are apart, no call of the writer goes by one.

LEMMA Apart ==
    ASSUME TypeOK, LinksApart, NEW g \in Gens, NEW h \in Gens,
           NEW i \in DOMAIN Jobs(Loaded(g)), NEW j \in DOMAIN Jobs(Loaded(h)),
           Jobs(Loaded(g))[i].kind = "symlink"
    PROVE  /\ Jobs(Loaded(g))[i].path \notin Parents(Jobs(Loaded(h))[j].path)
           /\ Jobs(Loaded(g))[i].path = Jobs(Loaded(h))[j].path =>
                Jobs(Loaded(h))[j].kind = "symlink"
<1> DEFINE a == Jobs(Loaded(g))[i]
           b == Jobs(Loaded(h))[j]
<1>1. conf[g] \in Names /\ conf[h] \in Names /\ <<conf[g], conf[h]>> \notin Crossing
  BY DEF TypeOK, LinksApart
<1>2. ~Crosses(Loaded(g), Loaded(h))
  BY <1>1 DEF Crossing, Loaded
<1>3. a \in ToSet(Jobs(Loaded(g))) /\ b \in ToSet(Jobs(Loaded(h)))
  BY DEF ToSet
<1> QED
  BY <1>2, <1>3 DEF Crosses

LEMMA NoLinkOn ==
    ASSUME TypeOK, LinksApart, PlacedInv, NEW g \in Gens, Running(g), NEW path
    PROVE  /\ path \in Parents(Here(g)) => ~IsLink(At(disk, path))
           /\ path = Here(g) /\ Job(g).kind # "symlink" => ~IsLink(At(disk, path))
<1>1. conf[g] \in Names /\ at[g] \in DOMAIN Jobs(Loaded(g))
      /\ Here(g) = Jobs(Loaded(g))[at[g]].path /\ Job(g) = Jobs(Loaded(g))[at[g]]
  BY DEF TypeOK, Here, Job
<1> SUFFICES ASSUME IsLink(At(disk, path))
             PROVE  /\ path \notin Parents(Here(g))
                    /\ path = Here(g) => Job(g).kind = "symlink"
  OBVIOUS
<1>2. path \in Paths /\ IsLink(disk[path])
  BY NodeFacts DEF TypeOK, At, IsLink
<1>3. PICK h \in Gens : \E i \in DOMAIN Jobs(Loaded(h)) :
        Jobs(Loaded(h))[i].kind = "symlink" /\ Jobs(Loaded(h))[i].path = path
  BY <1>2 DEF PlacedInv
<1>4. PICK i \in DOMAIN Jobs(Loaded(h)) :
        Jobs(Loaded(h))[i].kind = "symlink" /\ Jobs(Loaded(h))[i].path = path
  BY <1>3
<1> QED
  BY <1>1, <1>4, Apart

\* A path with no link on it is where it seems to be.
LEMMA EnterStays ==
    ASSUME NEW tree, NEW path,
           \A q \in Parents(path) \cup {path} : ~IsLink(At(tree, q))
    PROVE  Enter(tree, path) = path
<1>1. LinksOn(tree, path) = {}
  BY DEF LinksOn
<1> QED
  BY <1>1 DEF Enter

LEMMA SpotStays ==
    ASSUME NEW tree, NEW path \in Seq(Label) \ {<< >>},
           \A q \in Parents(path) : ~IsLink(At(tree, q))
    PROVE  Spot(tree, path) = path
<1>0. Len(path) \in Nat /\ Len(path) >= 1
  OBVIOUS
<1>1. CASE Len(path) = 1
  BY <1>1 DEF Spot
<1>2. CASE Len(path) # 1
  <2>1. Len(path) - 1 \in 1..(Len(path) - 1) /\ Len(path) - 1 \in 1..Len(path)
    <3> DEFINE n == Len(path)
    <3>1. n \in Nat /\ n >= 1 /\ n # 1
      BY <1>0, <1>2
    <3> HIDE DEF n
    <3>2. n - 1 \in 1..(n - 1) /\ n - 1 \in 1..n
      BY <3>1
    <3> QED
      BY <3>2 DEF n
  <2> DEFINE front == SubSeq(path, 1, Len(path) - 1)
  <2>2. front \in Parents(path)
    BY <2>1 DEF Parents
  <2>3. Parents(front) \subseteq Parents(path)
    BY <2>2, ParentsOfParents
  <2>4. Enter(tree, front) = front
    BY <2>2, <2>3, EnterStays
  <2>5. Spot(tree, path) = Append(front, path[Len(path)])
    BY <1>2, <2>4 DEF Spot, Front, Last
  <2>6. /\ front \in Seq(Label) /\ Len(front) = Len(path) - 1
        /\ \A i \in 1..(Len(path) - 1) : front[i] = path[i]
    BY <2>1, SubSeqFacts
  <2> HIDE DEF front
  <2> DEFINE whole == Append(front, path[Len(path)])
  <2>7. /\ whole \in Seq(Label) /\ Len(whole) = Len(path)
        /\ \A i \in 1..Len(path) : whole[i] = path[i]
    <3>1. path[Len(path)] \in Label /\ Len(front) \in Nat
      BY <1>0, <2>6
    <3>2. whole \in Seq(Label) /\ Len(whole) = Len(front) + 1
          /\ whole[Len(front) + 1] = path[Len(path)]
          /\ \A i \in 1..Len(front) : whole[i] = front[i]
      BY <2>6, <3>1
    <3>3. \A i \in 1..Len(path) : i \in 1..Len(front) \/ i = Len(front) + 1
      BY <1>0, <2>6
    <3> HIDE DEF whole
    <3> QED
      BY <1>0, <2>6, <3>2, <3>3
  <2> HIDE DEF whole
  <2>8. whole = path
    BY <2>7, SamePath
  <2> QED
    BY <2>5, <2>8 DEF whole
<1> QED
  BY <1>1, <1>2

LEMMA Straight ==
    ASSUME TypeOK, LinksApart, PlacedInv, NEW g \in Gens, Running(g)
    PROVE  /\ There(g) = Here(g) /\ At(disk, There(g)) = disk[Here(g)]
           /\ Job(g).kind # "symlink" =>
                Target(g) = Here(g) /\ At(disk, Target(g)) = disk[Here(g)]
           /\ Made(g) = Parents(Here(g))
           /\ Obstructed(g) <=> Stands(g)
           /\ Broken(g) <=> Stands(g)
<1>1. /\ Here(g) \in Paths /\ Parents(Here(g)) \subseteq Paths /\ Job(g) \in JobSet
      /\ DOMAIN disk = Paths
  BY HereFacts DEF TypeOK
<1>2. Here(g) \in Seq(Label) \ {<< >>}
  BY <1>1 DEF JobSet, Here
<1>3. There(g) = Here(g)
  BY <1>2, NoLinkOn, SpotStays DEF There
<1>4. At(disk, Here(g)) = disk[Here(g)] /\ \A q \in Parents(Here(g)) : At(disk, q) = disk[q]
  BY <1>1 DEF At
<1>5. Job(g).kind # "symlink" => Target(g) = Here(g)
  BY NoLinkOn, EnterStays DEF Target
<1>6. ASSUME NEW q \in Parents(Here(g)) PROVE Enter(disk, q) = q /\ Spot(disk, q) = q
  <2>1. q \in Seq(Label) \ {<< >>} /\ Parents(q) \subseteq Parents(Here(g))
    BY <1>2, ParentsOfParents
  <2>2. \A r \in Parents(q) \cup {q} : ~IsLink(At(disk, r))
    BY <2>1, NoLinkOn
  <2> QED
    BY <2>1, <2>2, EnterStays, SpotStays
<1>7. Made(g) = Parents(Here(g))
  BY <1>6 DEF Made
<1>8. Obstructed(g) <=> Stands(g)
  BY <1>4, <1>6 DEF Obstructed, Stands
<1>9. Broken(g) <=> Stands(g)
  BY <1>4, <1>6 DEF Broken, Stands
<1> QED
  BY <1>3, <1>4, <1>5, <1>7, <1>8, <1>9

LEMMA LstatPlain ==
    ASSUME DiskInv, NEW g \in Gens, Lstat(g)
    PROVE  /\ UNCHANGED disk
           /\ \/ disk[Here(g)] = Absent /\ ~Stands(g) /\ Goes(g, Create(g))
              \/ disk[Here(g)] = Absent /\ Stands(g) /\ Ends(g, "ioError")
              \/ disk[Here(g)] = Dir /\ Ends(g, "blocked")
              \/ disk[Here(g)] \notin {Absent, Dir} /\ Goes(g, "unlink")
<1>1. TypeOK /\ LinksApart /\ PlacedInv
  BY DEF DiskInv, ControlInv
<1>2. Running(g)
  BY <1>1, LstatForm
<1>3. At(disk, There(g)) = disk[Here(g)] /\ (Broken(g) <=> Stands(g))
  BY <1>1, <1>2, Straight
<1> QED
  BY <1>1, <1>3, LstatForm

LEMMA UnlinkPlain ==
    ASSUME DiskInv, NEW g \in Gens, Unlink(g)
    PROVE  \/ Removes(g) /\ Goes(g, Create(g))
           \/ /\ ~Removable(disk[Here(g)], Here(g))
              /\ UNCHANGED disk /\ Ends(g, "ioError")
<1>1. TypeOK /\ LinksApart /\ PlacedInv
  BY DEF DiskInv, ControlInv
<1>2. Running(g)
  BY <1>1, UnlinkForm
<1>3. There(g) = Here(g) /\ At(disk, There(g)) = disk[Here(g)]
  BY <1>1, <1>2, Straight
<1>4. pc[g] = "unlink"
  BY DEF Unlink
<1> QED
  BY <1>1, <1>3, <1>4, UnlinkForm DEF Removes, Puts

LEMMA OpenPlain ==
    ASSUME DiskInv, NEW g \in Gens, Open(g)
    PROVE  \/ Opens(g) /\ Goes(g, "fill")
           \/ disk[Here(g)] = Dir /\ UNCHANGED disk /\ Ends(g, "blocked")
           \/ UNCHANGED disk /\ Ends(g, "ioError")
<1>1. TypeOK /\ LinksApart /\ PlacedInv /\ KindInv
  BY DEF DiskInv, ControlInv
<1>2. Running(g) /\ pc[g] = "open" /\ Job(g).kind # "symlink"
  BY <1>1, OpenForm DEF Open, KindInv
<1>3. Target(g) = Here(g) /\ At(disk, Target(g)) = disk[Here(g)]
  BY <1>1, <1>2, Straight
<1> QED
  BY <1>1, <1>2, <1>3, OpenForm DEF Opens, Puts

LEMMA MakeLinkPlain ==
    ASSUME DiskInv, NEW g \in Gens, MakeLink(g)
    PROVE  \/ Links(g) /\ Advances(g)
           \/ UNCHANGED disk /\ Ends(g, "ioError")
           \/ disk[Here(g)] # Absent /\ UNCHANGED disk /\ Ends(g, "blocked")
<1>1. TypeOK /\ LinksApart /\ PlacedInv /\ ControlInv
  BY DEF DiskInv, ControlInv
<1>2. Running(g) /\ pc[g] = "link"
  BY <1>1, MakeLinkForm DEF MakeLink
<1>3. There(g) = Here(g) /\ At(disk, There(g)) = disk[Here(g)]
  BY <1>1, <1>2, Straight
<1>4. Symlink(g, Job(g).to) \in Nodes
  BY <1>1, <1>2, LinkTyped
<1> QED
  BY <1>1, <1>2, <1>3, <1>4, MakeLinkForm DEF Links, Puts

LEMMA MkdirParentsPlain ==
    ASSUME DiskInv, NEW g \in Gens, MkdirParents(g)
    PROVE  \/ /\ MakesParents(g)
              /\ Goes(g, IF Job(g).kind = "manifest" THEN "open" ELSE "lstat")
           \/ Stands(g) /\ UNCHANGED disk /\ Ends(g, "blocked")
<1>1. TypeOK /\ LinksApart /\ PlacedInv
  BY DEF DiskInv, ControlInv
<1>2. Running(g) /\ pc[g] = "mkdir"
  BY <1>1, MkdirParentsForm DEF MkdirParents
<1>3. Made(g) = Parents(Here(g)) /\ (Obstructed(g) <=> Stands(g))
  BY <1>1, <1>2, Straight
<1> QED
  BY <1>1, <1>2, <1>3, MkdirParentsForm DEF MakesParents

LEMMA FillPlain ==
    ASSUME DiskInv, NEW g \in Gens, Fill(g)
    PROVE  IF HoldsOpen(g) THEN Puts(g, Filled(disk[Here(g)], g)) ELSE UNCHANGED disk
<1>1. TypeOK /\ OpenInv
  BY DEF DiskInv, ControlInv
<1>2. disk' = [path \in Paths |-> IF HasOpen(g, path) THEN Filled(disk[path], g) ELSE disk[path]]
  BY <1>1, FillForm
<1>3. \A path \in Paths : HasOpen(g, path) => path = Here(g)
  BY <1>1 DEF OpenInv, HasOpen
<1>4. disk = [path \in Paths |-> disk[path]]
  BY <1>1 DEF TypeOK
<1> QED
  BY <1>2, <1>3, <1>4 DEF HoldsOpen, Puts

LEMMA FailPlain ==
    ASSUME DiskInv, NEW g \in Gens, Fail(g)
    PROVE  IF pc[g] = "fill" /\ HoldsOpen(g)
             THEN Puts(g, Torn(disk[Here(g)], g)) ELSE UNCHANGED disk
<1>1. TypeOK /\ OpenInv
  BY DEF DiskInv, ControlInv
<1>2. disk' = IF pc[g] = "fill"
                THEN [path \in Paths |-> IF HasOpen(g, path) THEN Torn(disk[path], g) ELSE disk[path]]
                ELSE disk
  BY <1>1, FailForm
<1>3. \A path \in Paths : HasOpen(g, path) => path = Here(g)
  BY <1>1 DEF OpenInv, HasOpen
<1>4. disk = [path \in Paths |-> disk[path]]
  BY <1>1 DEF TypeOK
<1> QED
  BY <1>2, <1>3, <1>4 DEF HoldsOpen, Puts

\* The steps of one generation, put together.
LEMMA StepForm ==
    ASSUME DiskInv, NEW g \in Gens, Step(g)
    PROVE  /\ ControlTyped' /\ OthersStay(g)
           /\ UNCHANGED disk \/ (Running(g) /\ Changes(g))
           /\ pc[g] = "fill" /\ HoldsOpen(g) => Closes(g)
           /\ pc[g] = "open" => Goes(g, "fill") \/ UNCHANGED disk
<1>0. TypeOK /\ ControlTyped' /\ OthersStay(g)
  BY ControlForm DEF DiskInv, ControlInv
<1>1. CASE Refuse(g) \/ Begin(g) \/ BadRemoval(g)
  BY <1>0, <1>1, EarlyForm DEF MayBegin
<1>2. CASE MkdirParents(g)
  BY <1>0, <1>2, MkdirParentsPlain DEF Changes, MkdirParents, Running
<1>3. CASE Lstat(g)
  BY <1>0, <1>3, LstatPlain DEF Lstat
<1>4. CASE Unlink(g)
  BY <1>0, <1>4, UnlinkPlain DEF Changes, Unlink, Running
<1>5. CASE Open(g)
  BY <1>0, <1>5, OpenPlain DEF Changes, Open, Running
<1>6. CASE Fill(g)
  BY <1>0, <1>6, FillPlain DEF Changes, Closes, Fill, Running
<1>7. CASE MakeLink(g)
  BY <1>0, <1>7, MakeLinkPlain DEF Changes, MakeLink, Running
<1>8. CASE Fail(g)
  BY <1>0, <1>8, FailPlain DEF Changes, Closes, Fail
<1> QED
  BY <1>0, <1>1, <1>2, <1>3, <1>4, <1>5, <1>6, <1>7, <1>8 DEF Step, Work

LEMMA PutsFacts ==
    ASSUME TypeOK, NEW g \in Gens, Running(g), NEW node, Puts(g, node)
    PROVE  /\ disk'[Here(g)] = node
           /\ \A path \in Paths \ {Here(g)} : disk'[path] = disk[path]
BY HereFacts DEF Puts, TypeOK

\* The node that is put there.
LEMMA NodePut ==
    ASSUME TypeOK, NEW g \in Gens, Running(g), Removes(g) \/ Opens(g) \/ Closes(g) \/ Links(g)
    PROVE  \E node \in Nodes : Puts(g, node)
<1> DEFINE old == disk[Here(g)]
<1>1. old \in Nodes
  BY HereFacts DEF TypeOK
<1>2. CASE Removes(g)
  BY <1>2, NodeFacts DEF Removes
<1>3. CASE Opens(g)
  BY <1>1, <1>3, NodeFacts, FilledTyped DEF Opens
<1>4. CASE Closes(g)
  <2>1. old.kind = "regular" /\ (Puts(g, Filled(old, g)) \/ Puts(g, Torn(old, g)))
    BY <1>4 DEF Closes, HoldsOpen, HasOpen
  <2> HIDE DEF old
  <2> QED
    BY <1>1, <2>1, FilledTyped
<1>5. CASE Links(g)
  BY <1>5 DEF Links
<1> QED
  BY <1>2, <1>3, <1>4, <1>5

-----------------------------------------------------------------------------
\* DiskInv.

LEMMA LinksApartStays == ASSUME UNCHANGED conf PROVE LinksApart' <=> LinksApart
BY DEF LinksApart

LEMMA PlacedInvStep == ASSUME DiskInv, NEW g \in Gens, Step(g) PROVE PlacedInv'
<1>1. TypeOK /\ PlacedInv
  BY DEF DiskInv, ControlInv
<1>2. UNCHANGED conf
  BY StepForm DEF OthersStay
<1> SUFFICES ASSUME NEW path \in Paths, IsLink(disk'[path])
             PROVE  \E h \in Gens : \E i \in DOMAIN Jobs(Loaded(h)) :
                      Jobs(Loaded(h))[i].kind = "symlink" /\ Jobs(Loaded(h))[i].path = path
  BY <1>2 DEF PlacedInv, Loaded
<1>3. CASE IsLink(disk[path])
  BY <1>1, <1>3 DEF PlacedInv
<1>4. CASE disk'[path] # disk[path]
  <2>1. Running(g) /\ Changes(g)
    BY <1>4, StepForm
  <2>2. ~MakesParents(g)
    BY <1>4, NodeFacts DEF MakesParents, IsLink
  <2>3. path = Here(g)
    BY <1>1, <1>4, <2>1, <2>2, NodePut, PutsFacts DEF Changes
  <2>4. ~Removes(g) /\ ~Opens(g) /\ ~Closes(g)
    <3>1. ~Removes(g)
      BY <1>1, <2>1, <2>3, PutsFacts, NodeFacts DEF Removes, IsLink
    <3>2. ~Opens(g)
      BY <1>1, <2>1, <2>3, PutsFacts DEF Opens, IsLink, Regular
    <3>3. ~Closes(g)
      BY <1>1, <2>1, <2>3, PutsFacts DEF Closes, IsLink, Filled, Torn, Regular
    <3> QED
      BY <3>1, <3>2, <3>3
  <2>5. pc[g] = "link"
    BY <2>1, <2>2, <2>4 DEF Changes, Links
  <2>6. Job(g).kind = "symlink"
    BY <2>5 DEF DiskInv, ControlInv, KindInv
  <2>7. at[g] \in DOMAIN Jobs(Loaded(g)) /\ Job(g) = Jobs(Loaded(g))[at[g]]
    BY <1>1, <2>1 DEF TypeOK, Job
  <2> QED
    BY <2>3, <2>6, <2>7 DEF Here
<1> QED
  BY <1>3, <1>4

LEMMA OpenInvStep == ASSUME DiskInv, NEW g \in Gens, Step(g) PROVE OpenInv'
<1>1. TypeOK /\ ControlInv /\ OpenInv
  BY DEF DiskInv, ControlInv
<1>2. OthersStay(g)
  BY <1>1, StepForm
<1> SUFFICES ASSUME NEW path \in Paths, disk'[path].kind = "regular", NEW h \in disk'[path].open
             PROVE  pc'[h] = "fill" /\ Here(h)' = path
  BY DEF OpenInv
<1>3. disk[path] \in Nodes
  BY <1>1 DEF TypeOK
<1>4. ASSUME disk[path].kind = "regular", h \in disk[path].open, h # g
      PROVE  pc'[h] = "fill" /\ Here(h)' = path
  <2>1. h \in Gens
    BY <1>3, <1>4, NodeCases, NodeFacts
  <2>2. pc[h] = "fill" /\ Here(h) = path
    BY <1>1, <1>4 DEF OpenInv
  <2> QED
    BY <1>2, <1>4, <2>1, <2>2, JobStays DEF OthersStay
<1>5. disk[path].kind = "regular" /\ g \in disk[path].open =>
        pc[g] = "fill" /\ Here(g) = path /\ HoldsOpen(g)
  BY <1>1 DEF OpenInv, HoldsOpen, HasOpen
<1>6. CASE disk'[path] = disk[path] /\ ~Closes(g)
  <2>1. h # g
    BY <1>1, <1>5, <1>6, StepForm
  <2> QED
    BY <1>4, <1>6, <2>1
<1>7. CASE Running(g) /\ Changes(g)
  <2>1. CASE MakesParents(g)
    <3>1. disk'[path] = Dir \/ disk'[path] = disk[path]
      BY <2>1 DEF MakesParents
    <3>2. ~Closes(g)
      BY <2>1 DEF MakesParents, Closes
    <3> QED
      BY <1>6, <3>1, <3>2, NodeFacts
  <2>2. CASE Removes(g)
    <3>1. disk'[path] = Absent \/ disk'[path] = disk[path]
      BY <1>1, <1>7, <2>2, PutsFacts DEF Removes
    <3>2. ~Closes(g)
      BY <2>2 DEF Removes, Closes
    <3> QED
      BY <1>6, <3>1, <3>2, NodeFacts
  <2>3. CASE Links(g)
    <3>1. disk'[path] = Symlink(g, Job(g).to) \/ disk'[path] = disk[path]
      BY <1>1, <1>7, <2>3, PutsFacts DEF Links
    <3>2. ~Closes(g)
      BY <2>3 DEF Links, Closes
    <3> QED
      BY <1>6, <3>1, <3>2, NodeFacts
  <2>4. CASE Opens(g)
    <3>0. ~Closes(g)
      BY <2>4 DEF Opens, Closes
    <3>1. CASE path # Here(g)
      BY <1>1, <1>6, <1>7, <2>4, <3>0, <3>1, PutsFacts DEF Opens
    <3>2. CASE path = Here(g)
      <4>1. \/ disk'[path] = Regular({}, {}, {g})
            \/ /\ disk[path].kind = "regular"
               /\ disk'[path] = Regular({}, {}, disk[path].open \cup {g})
        BY <1>1, <1>7, <2>4, <3>2, PutsFacts DEF Opens
      <4>2. h = g \/ (disk[path].kind = "regular" /\ h \in disk[path].open)
        BY <4>1 DEF Regular
      <4>3. CASE h # g
        BY <1>4, <4>2, <4>3
      <4>4. CASE h = g
        <5>1. disk'[path] # disk[path]
          <6>1. pc[g] # "fill"
            BY <2>4 DEF Opens
          <6>2. disk[path].kind = "regular" => g \notin disk[path].open
            BY <1>5, <6>1
          <6> QED
            BY <4>4, <6>2
        <5>2. Goes(g, "fill")
          BY <1>1, <2>4, <5>1, StepForm DEF Opens
        <5> QED
          BY <1>2, <3>2, <4>4, <5>2, JobStays DEF Goes
      <4> QED
        BY <4>3, <4>4
    <3> QED
      BY <3>1, <3>2
  <2>5. CASE Closes(g)
    <3>1. CASE path # Here(g)
      <4>1. disk'[path] = disk[path]
        BY <1>1, <1>7, <2>5, <3>1, PutsFacts DEF Closes
      <4>2. h # g
        BY <1>5, <3>1, <4>1
      <4> QED
        BY <1>4, <4>1, <4>2
    <3>2. CASE path = Here(g)
      <4>1. disk[path].kind = "regular"
            /\ (disk'[path] = Filled(disk[path], g) \/ disk'[path] = Torn(disk[path], g))
        BY <1>1, <1>7, <2>5, <3>2, PutsFacts DEF Closes, HoldsOpen, HasOpen
      <4>2. h \in disk[path].open \ {g}
        BY <4>1 DEF Filled, Torn, Regular
      <4> QED
        BY <1>4, <4>1, <4>2
    <3> QED
      BY <3>1, <3>2
  <2> QED
    BY <1>7, <2>1, <2>2, <2>3, <2>4, <2>5 DEF Changes
<1>8. CASE UNCHANGED disk
  <2>1. CASE Closes(g)
    <3>1. Running(g) /\ Changes(g)
      BY <2>1 DEF Closes, Changes, Running
    <3> QED
      BY <1>7, <3>1
  <2>2. CASE ~Closes(g)
    BY <1>6, <1>8, <2>2
  <2> QED
    BY <2>1, <2>2
<1> QED
  BY <1>1, <1>7, <1>8, StepForm

LEMMA DiskInvStep == DiskInv /\ [Next]_vars => DiskInv'
<1> SUFFICES ASSUME DiskInv, [Next]_vars PROVE DiskInv'
  OBVIOUS
<1>1. ControlInv'
  BY ControlInvStep DEF DiskInv
<1>2. ASSUME NEW g \in Gens, Step(g) PROVE DiskInv'
  <2>1. PlacedInv' /\ OpenInv' /\ UNCHANGED conf
    BY <1>2, PlacedInvStep, OpenInvStep, StepForm DEF OthersStay
  <2> QED
    BY <1>1, <2>1, LinksApartStays DEF DiskInv
<1>3. CASE UNCHANGED vars
  BY <1>1, <1>3 DEF DiskInv, LinksApart, PlacedInv, OpenInv, vars, Loaded, Job, Here
<1> QED
  BY <1>2, <1>3 DEF Next, Step

LEMMA DiskInvInit == Init /\ LinksApart => DiskInv
<1> SUFFICES ASSUME Init, LinksApart PROVE DiskInv
  OBVIOUS
<1>1. \A path \in Paths : ~IsLink(disk[path])
  BY NodeFacts DEF Init, Writers, IsLink
<1>2. PlacedInv
  BY <1>1 DEF PlacedInv
<1>3. OpenInv
  BY NodeFacts DEF Init, OpenInv, Writers
<1> QED
  BY <1>2, <1>3, ControlInvInit DEF DiskInv

\* Nobody loads another configuration on the way.
LEMMA ConfStays == ASSUME TypeOK, [Next]_vars PROVE UNCHANGED conf
<1>1. ASSUME NEW g \in Gens, Step(g) PROVE UNCHANGED conf
  BY <1>1, ControlForm DEF OthersStay
<1> QED
  BY <1>1 DEF Next, Step, vars

\* What the links and the open files satisfy where links are apart.
THEOREM DiskInvariant == Spec => [](LinksApart => DiskInv)
<1>1. Init => (LinksApart => DiskInv)
  BY DiskInvInit
<1>2. TypeOK /\ (LinksApart => DiskInv) /\ [Next]_vars => (LinksApart => DiskInv)'
  BY ConfStays, LinksApartStays, DiskInvStep
<1> QED
  BY <1>1, <1>2, WriterTypeCorrect, PTL DEF Spec

-----------------------------------------------------------------------------
\* Managed paths.

LEMMA ManagedStep ==
    ASSUME DiskInv, [Next]_vars, NEW path \in Paths, disk'[path] # disk[path]
    PROVE  /\ disk[path] = Dir => Empty(path)
           /\ \E g \in Gens :
                /\ Running(g)
                /\ \/ path \in Planned(Loaded(g))
                   \/ /\ \E f \in Planned(Loaded(g)) : path \in Parents(f)
                      /\ disk[path] = Absent
<1>0. TypeOK /\ ControlInv
  BY DEF DiskInv, ControlInv
<1>1. PICK g \in Gens : Step(g)
  BY DEF Next, Step, vars
<1>2. Running(g) /\ Changes(g)
  BY <1>0, <1>1, StepForm
<1>3. Here(g) \in Paths /\ Here(g) \in Planned(Loaded(g))
  BY <1>0, <1>2, HereFacts
<1>4. CASE MakesParents(g)
  <2>1. path \in Parents(Here(g))
    BY <1>4 DEF MakesParents
  <2>2. disk[path] = Absent
    BY <1>4, <2>1 DEF MakesParents, Stands
  <2> QED
    BY <1>2, <1>3, <2>1, <2>2, NodeFacts
<1>5. CASE Removes(g) \/ Opens(g) \/ Closes(g) \/ Links(g)
  <2>1. path = Here(g)
    BY <1>0, <1>2, <1>5, NodePut, PutsFacts
  <2>2. disk[path] = Dir => Empty(path)
    <3>1. CASE Removes(g)
      BY <2>1, <3>1, NodeFacts DEF Removes, Removable, IsFile, IsLink
    <3>2. CASE Opens(g) \/ Closes(g) \/ Links(g)
      BY <2>1, <3>2, NodeFacts DEF Opens, Closes, HoldsOpen, HasOpen, Links
    <3> QED
      BY <1>5, <3>1, <3>2
  <2> QED
    BY <1>2, <1>3, <2>1, <2>2
<1> QED
  BY <1>2, <1>4, <1>5 DEF Changes

\* Where links are apart, whatever generations overlap, fail or die: a path changes only when a
\* running generation plans it or makes a directory of it where nothing was,
\* and no directory is removed with anything in it.
THEOREM OnlyManagedPaths == Spec => OnlyManagedPathsTouched
<1>1. (LinksApart => DiskInv) /\ [Next]_vars =>
        \A path \in Paths :
          disk'[path] # disk[path] /\ LinksApart =>
              /\ disk[path] = Dir => Empty(path)
              /\ \E g \in Gens :
                   /\ Running(g)
                   /\ \/ path \in Planned(Loaded(g))
                      \/ /\ \E f \in Planned(Loaded(g)) : path \in Parents(f)
                         /\ disk[path] = Absent
  BY ManagedStep
<1> QED
  BY <1>1, DiskInvariant, PTL DEF Spec, OnlyManagedPathsTouched

-----------------------------------------------------------------------------
\* Generations that have never met.

\* While another generation is at work, g does not touch the disk.
LEMMA OtherRuns ==
    ASSUME DiskInv, OneAtATime, NEW g \in Gens, Step(g), NEW h \in Gens, h # g, Running(h)
    PROVE  UNCHANGED disk
<1>1. ~Running(g)
  BY DEF OneAtATime
<1> QED
  BY <1>1, StepForm

\* Who runs after a step of g.
LEMMA RunsAfter ==
    ASSUME DiskInv, NEW g \in Gens, Step(g), NEW h \in Gens, Running(h)'
    PROVE  /\ h # g => Running(h) /\ pc'[h] = pc[h] /\ at'[h] = at[h] /\ Here(h)' = Here(h)
           /\ Loaded(h)' = Loaded(h)
           /\ h = g => Running(g) \/ (MayBegin(g) /\ at'[g] = 1)
<1>1. OthersStay(g)
  BY StepForm DEF DiskInv, ControlInv
<1>2. h # g => Running(h) /\ pc'[h] = pc[h] /\ at'[h] = at[h] /\ Here(h)' = Here(h)
  BY <1>1, JobStays DEF OthersStay, Running
<1>3. Loaded(h)' = Loaded(h)
  BY <1>1 DEF OthersStay, Loaded
<1>4. ASSUME h = g, ~Running(g) PROVE MayBegin(g) /\ at'[g] = 1
  <2>1. Refuse(g) \/ Begin(g) \/ BadRemoval(g)
    BY <1>4 DEF Step, Work, MkdirParents, Lstat, Unlink, Open, Fill, MakeLink, Fail, Running
  <2>2. MayBegin(g) /\ at[g] = 1
    BY <2>1 DEF Refuse, Begin, BadRemoval, MayBegin, DiskInv, ControlInv, BeginInv
  <2>3. UNCHANGED at
    BY <2>1 DEF Refuse, Begin, BadRemoval
  <2> QED
    BY <2>2, <2>3
<1> QED
  BY <1>2, <1>3, <1>4

\* Where a file is filled or a link made, the step before has made room.
LEMMA FillComesFrom ==
    ASSUME DiskInv, NEW g \in Gens, Step(g), pc'[g] = "fill"
    PROVE  pc[g] = "open" /\ Opens(g) /\ Goes(g, "fill") /\ Running(g)
<1>0. TypeOK /\ ControlInv
  BY DEF DiskInv, ControlInv
<1>1. CASE Open(g)
  BY <1>0, <1>1, OpenForm, OpenPlain DEF Open, Opens, Puts, Goes, Ends
<1>2. CASE Refuse(g) \/ Begin(g) \/ BadRemoval(g)
  BY <1>0, <1>2, EarlyForm DEF Goes, Ends
<1>3. CASE MkdirParents(g)
  BY <1>0, <1>3, MkdirParentsForm DEF Goes, Ends
<1>4. CASE Lstat(g)
  BY <1>0, <1>4, LstatForm DEF Goes, Ends, Create
<1>5. CASE Unlink(g)
  BY <1>0, <1>5, UnlinkForm DEF Goes, Ends, Create
<1>6. CASE Fill(g)
  BY <1>0, <1>6, FillForm DEF Advances, Ends
<1>7. CASE MakeLink(g)
  BY <1>0, <1>7, MakeLinkForm DEF Advances, Ends
<1>8. CASE Fail(g)
  BY <1>0, <1>8, FailForm DEF Ends
<1> QED
  BY <1>1, <1>2, <1>3, <1>4, <1>5, <1>6, <1>7, <1>8 DEF Step, Work

LEMMA LinkComesFrom ==
    ASSUME DiskInv, NEW g \in Gens, Step(g), pc'[g] = "link"
    PROVE  Goes(g, "link") /\ Running(g) /\ disk'[Here(g)] = Absent
<1>0. TypeOK /\ ControlInv
  BY DEF DiskInv, ControlInv
<1>1. CASE Open(g)
  BY <1>0, <1>1, OpenForm DEF Goes, Ends
<1>2. CASE Refuse(g) \/ Begin(g) \/ BadRemoval(g)
  BY <1>0, <1>2, EarlyForm DEF Goes, Ends
<1>3. CASE MkdirParents(g)
  BY <1>0, <1>3, MkdirParentsForm DEF Goes, Ends
<1>4. CASE Lstat(g)
  <2>1. Running(g)
    BY <1>0, <1>4, LstatForm
  <2>2. disk'[Here(g)] = disk[Here(g)] /\ (Goes(g, Create(g)) => disk[Here(g)] = Absent)
    BY <1>4, LstatPlain DEF Goes, Ends, Create
  <2>3. Goes(g, "link")
    BY <1>4, LstatPlain DEF Goes, Ends, Create
  <2> QED
    BY <1>4, <2>1, <2>2, <2>3, LstatPlain DEF Goes, Ends, Create
<1>5. CASE Unlink(g)
  <2>1. Running(g) /\ Puts(g, Absent) /\ Goes(g, Create(g))
    BY <1>0, <1>5, UnlinkPlain, UnlinkForm DEF Removes, Ends
  <2> QED
    BY <1>0, <2>1, PutsFacts DEF Goes
<1>6. CASE Fill(g)
  BY <1>0, <1>6, FillForm DEF Advances, Ends
<1>7. CASE MakeLink(g)
  BY <1>0, <1>7, MakeLinkForm DEF Advances, Ends
<1>8. CASE Fail(g)
  BY <1>0, <1>8, FailForm DEF Ends
<1> QED
  BY <1>1, <1>2, <1>3, <1>4, <1>5, <1>6, <1>7, <1>8 DEF Step, Work

\* A generation goes on to the next element when this one is written whole.
LEMMA AdvanceComesFrom ==
    ASSUME DiskInv, FillInv, NEW g \in Gens, Step(g), Running(g),
           at'[g] # at[g] \/ (outcome'[g] = "ok" /\ outcome[g] # "ok")
    PROVE  /\ Advances(g)
           /\ \/ pc[g] = "fill" /\ Puts(g, Regular({g}, {}, {}))
              \/ pc[g] = "link" /\ Puts(g, Symlink(g, Job(g).to))
<1>0. TypeOK /\ ControlInv
  BY DEF DiskInv, ControlInv
<1>1. CASE Open(g)
  BY <1>0, <1>1, OpenForm DEF Goes, Ends
<1>2. CASE Refuse(g) \/ Begin(g) \/ BadRemoval(g)
  BY <1>0, <1>2, EarlyForm DEF MayBegin, Running
<1>3. CASE MkdirParents(g)
  BY <1>0, <1>3, MkdirParentsForm DEF Goes, Ends
<1>4. CASE Lstat(g)
  BY <1>0, <1>4, LstatPlain DEF Goes, Ends
<1>5. CASE Unlink(g)
  BY <1>0, <1>5, UnlinkForm DEF Goes, Ends
<1>6. CASE Fill(g)
  <2>1. pc[g] = "fill" /\ disk[Here(g)] = Regular({}, {}, {g})
    BY <1>6 DEF Fill, FillInv
  <2>2. HoldsOpen(g) /\ Filled(disk[Here(g)], g) = Regular({g}, {}, {})
    BY <2>1 DEF HoldsOpen, HasOpen, Filled, Regular
  <2> QED
    BY <1>0, <1>6, <2>1, <2>2, FillForm, FillPlain
<1>7. CASE MakeLink(g)
  BY <1>0, <1>7, MakeLinkPlain DEF Ends, Links, MakeLink
<1>8. CASE Fail(g)
  BY <1>0, <1>8, FailForm DEF Ends
<1> QED
  BY <1>1, <1>2, <1>3, <1>4, <1>5, <1>6, <1>7, <1>8 DEF Step, Work

\* What a step of g does to a path that is none of its directories.
LEMMA ElsewhereStays ==
    ASSUME DiskInv, NEW g \in Gens, Step(g), NEW path \in Paths,
           disk[path] \notin {Absent, Dir}, path # Here(g)
    PROVE  disk'[path] = disk[path]
<1>0. TypeOK /\ ControlInv
  BY DEF DiskInv, ControlInv
<1>1. CASE UNCHANGED disk
  BY <1>1
<1>2. CASE Running(g) /\ MakesParents(g)
  <2>1. path \notin Parents(Here(g))
    BY <1>2 DEF MakesParents, Stands
  <2> QED
    BY <1>2, <2>1 DEF MakesParents
<1>3. CASE Running(g) /\ (Removes(g) \/ Opens(g) \/ Closes(g) \/ Links(g))
  BY <1>0, <1>3, NodePut, PutsFacts
<1> QED
  BY <1>0, <1>1, <1>2, <1>3, StepForm DEF Changes

LEMMA FillInvStep ==
    ASSUME DiskInv, OneAtATime, FillInv, NEW g \in Gens, Step(g)
    PROVE  FillInv'
<1> SUFFICES ASSUME NEW h \in Gens, pc'[h] = "fill"
             PROVE  disk'[Here(h)'] = Regular({}, {}, {h})
  BY DEF FillInv
<1>0. TypeOK /\ Running(h)'
  BY DEF DiskInv, ControlInv, Running
<1>1. CASE h # g
  <2>1. Running(h) /\ pc[h] = "fill" /\ Here(h)' = Here(h)
    BY <1>0, <1>1, RunsAfter
  <2> QED
    BY <1>1, <2>1, OtherRuns DEF FillInv
<1>2. CASE h = g
  <2>1. pc[g] = "open" /\ Opens(g) /\ Goes(g, "fill") /\ Running(g)
    BY <1>2, FillComesFrom
  <2>2. Here(g)' = Here(g) /\ Here(g) \in Paths
    <3>1. OthersStay(g)
      BY <1>0, StepForm
    <3> QED
      BY <1>0, <2>1, <3>1, JobStays, HereFacts DEF Goes
  <2>3. \/ disk'[Here(g)] = Regular({}, {}, {g})
        \/ /\ disk[Here(g)].kind = "regular"
           /\ disk'[Here(g)] = Regular({}, {}, disk[Here(g)].open \cup {g})
    BY <1>0, <2>1, PutsFacts DEF Opens
  <2>4. ASSUME disk[Here(g)].kind = "regular" PROVE disk[Here(g)].open = {}
    <3>1. \A k \in disk[Here(g)].open : pc[k] = "fill" /\ k \in Gens
      <4>1. disk[Here(g)] \in Nodes
        BY <1>0, <2>2 DEF TypeOK
      <4>2. disk[Here(g)].open \in SUBSET Gens
        BY <2>4, <4>1, NodeCases, NodeFacts
      <4> QED
        BY <2>2, <2>4, <4>2 DEF DiskInv, OpenInv
    <3>2. \A k \in Gens : pc[k] = "fill" => k = g
      BY <2>1 DEF OneAtATime, Running
    <3> QED
      BY <2>1, <3>1, <3>2
  <2> QED
    BY <1>2, <2>2, <2>3, <2>4
<1> QED
  BY <1>1, <1>2

LEMMA LinkInvStep ==
    ASSUME DiskInv, OneAtATime, LinkInv, NEW g \in Gens, Step(g)
    PROVE  LinkInv'
<1> SUFFICES ASSUME NEW h \in Gens, pc'[h] = "link"
             PROVE  disk'[Here(h)'] = Absent
  BY DEF LinkInv
<1>0. TypeOK /\ Running(h)'
  BY DEF DiskInv, ControlInv, Running
<1>1. CASE h # g
  <2>1. Running(h) /\ pc[h] = "link" /\ Here(h)' = Here(h)
    BY <1>0, <1>1, RunsAfter
  <2> QED
    BY <1>1, <2>1, OtherRuns DEF LinkInv
<1>2. CASE h = g
  <2>1. OthersStay(g)
    BY <1>0, StepForm
  <2>2. Goes(g, "link") /\ disk'[Here(g)] = Absent
    BY <1>2, LinkComesFrom
  <2> QED
    BY <1>2, <2>1, <2>2, JobStays DEF Goes
<1> QED
  BY <1>1, <1>2

\* After an element, all elements up to it are whole.
LEMMA AdvanceWhole ==
    ASSUME DiskInv, FillInv, DoneInv, NEW g \in Gens, Step(g), Running(g),
           at'[g] # at[g] \/ (outcome'[g] = "ok" /\ outcome[g] # "ok"),
           NEW i \in 1..at[g]
    PROVE  Whole(Jobs(Loaded(g))[i].path, g)'
<1> DEFINE path == Jobs(Loaded(g))[i].path
<1>0. TypeOK /\ OthersStay(g)
  BY StepForm DEF DiskInv, ControlInv
<1>1. Loaded(g)' = Loaded(g)
  BY <1>0 DEF OthersStay, Loaded
<1>2. \/ disk'[Here(g)] = Regular({g}, {}, {})
      \/ disk'[Here(g)] = Symlink(g, Job(g).to)
  BY <1>0, AdvanceComesFrom, PutsFacts
<1>3. path \in Paths /\ at[g] \in Nat
  BY <1>0, PlanFacts
<1>4. CASE path = Here(g)
  BY <1>1, <1>2, <1>4, NodeFacts DEF Whole, IsWhole, IsLink
<1>5. CASE path # Here(g)
  <2>1. i \in 1..(at[g] - 1)
    BY <1>3, <1>5 DEF Here, Job
  <2>2. IsWhole(disk[path], g)
    BY <1>5, <2>1 DEF DoneInv, DoneAt, Whole
  <2>3. disk[path] \notin {Absent, Dir}
    BY <2>2, NodeFacts DEF IsWhole, IsLink, Regular, Absent, Dir
  <2>4. disk'[path] = disk[path]
    BY <1>3, <1>5, <2>3, ElsewhereStays
  <2> QED
    BY <1>1, <2>2, <2>4 DEF Whole
<1> QED
  BY <1>4, <1>5

LEMMA DoneInvStep ==
    ASSUME DiskInv, OneAtATime, FillInv, DoneInv, NEW g \in Gens, Step(g)
    PROVE  DoneInv'
<1> SUFFICES ASSUME NEW h \in Gens, Running(h)', NEW i \in 1..(at'[h] - 1)
             PROVE  DoneAt(h, i)'
  BY DEF DoneInv
<1>0. TypeOK /\ OthersStay(g)
  BY StepForm DEF DiskInv, ControlInv
<1>1. Loaded(h)' = Loaded(h)
  BY <1>0 DEF OthersStay, Loaded
<1>2. CASE h # g
  <2>1. Running(h) /\ at'[h] = at[h] /\ Here(h)' = Here(h)
    BY <1>2, RunsAfter
  <2>2. UNCHANGED disk
    BY <1>2, <2>1, OtherRuns
  <2> QED
    BY <1>1, <2>1, <2>2 DEF DoneInv, DoneAt, Whole
<1>3. CASE h = g /\ ~Running(g)
  <2>1. at'[g] = 1
    BY <1>3, RunsAfter
  <2> QED
    BY <1>3, <2>1
<1>4. CASE h = g /\ Running(g) /\ at'[g] # at[g]
  <2>1. at'[g] = at[g] + 1 /\ at[g] \in Nat
    BY <1>0, <1>4, AdvanceComesFrom DEF Advances, Ends, TypeOK
  <2>2. i \in 1..at[g]
    BY <1>4, <2>1
  <2>3. Whole(Jobs(Loaded(g))[i].path, g)'
    BY <1>4, <2>2, AdvanceWhole
  <2> QED
    BY <1>4, <2>3 DEF DoneAt
<1>5. CASE h = g /\ Running(g) /\ at'[g] = at[g]
  <2> DEFINE path == Jobs(Loaded(g))[i].path
  <2>1. Here(g)' = Here(g)
    BY <1>0, <1>5, JobStays
  <2>2. path \in Paths
    <3>1. at[g] \in Nat
      BY <1>0 DEF TypeOK
    <3>2. i \in 1..at[g]
      BY <1>5, <3>1
    <3> QED
      BY <1>0, <1>5, <3>2, PlanFacts
  <2>3. CASE path = Here(g)
    BY <1>1, <1>5, <2>1, <2>3 DEF DoneAt
  <2>4. CASE path # Here(g)
    <3>1. IsWhole(disk[path], g)
      BY <1>5, <2>4 DEF DoneInv, DoneAt, Whole
    <3>2. disk[path] \notin {Absent, Dir}
      BY <3>1, NodeFacts DEF IsWhole, IsLink, Regular, Absent, Dir
    <3>3. disk'[path] = disk[path]
      BY <2>2, <2>4, <3>2, ElsewhereStays
    <3> QED
      BY <1>1, <1>5, <3>1, <3>3 DEF DoneAt, Whole
  <2> QED
    BY <2>3, <2>4
<1> QED
  BY <1>2, <1>3, <1>4, <1>5

\* Nobody else has a hand in a file after a step of g than before.
LEMMA HandsGrow ==
    ASSUME DiskInv, NEW g \in Gens, Step(g), NEW path \in Paths
    PROVE  /\ HandsOf(disk'[path]) \subseteq HandsOf(disk[path]) \cup {g}
           /\ HandsOf(disk'[path]) \subseteq HandsOf(disk[path])
              \/ (Running(g) /\ path = Here(g) /\ (Opens(g) \/ Closes(g) \/ Links(g)))
<1>0. TypeOK /\ ControlInv
  BY DEF DiskInv, ControlInv
<1> DEFINE old == disk[path]
<1>1. CASE UNCHANGED disk
  BY <1>1
<1>2. CASE Running(g) /\ MakesParents(g)
  <2>1. disk'[path] = Dir \/ disk'[path] = disk[path]
    BY <1>2 DEF MakesParents
  <2> QED
    BY <2>1, NodeFacts DEF HandsOf, IsFile, IsLink
<1>3. CASE Running(g) /\ (Removes(g) \/ Opens(g) \/ Closes(g) \/ Links(g)) /\ path # Here(g)
  BY <1>0, <1>3, NodePut, PutsFacts
<1>4. CASE Running(g) /\ path = Here(g) /\ Removes(g)
  <2>1. disk'[path] = Absent
    BY <1>0, <1>4, PutsFacts DEF Removes
  <2> QED
    BY <2>1, NodeFacts DEF HandsOf, IsFile, IsLink
<1>5. CASE Running(g) /\ path = Here(g) /\ Opens(g)
  <2>1. \/ disk'[path] = Regular({}, {}, {g})
        \/ old.kind = "regular" /\ disk'[path] = Regular({}, {}, old.open \cup {g})
    BY <1>0, <1>5, PutsFacts DEF Opens
  <2> QED
    BY <1>5, <2>1 DEF HandsOf, Hands, IsFile, IsLink, Regular
<1>6. CASE Running(g) /\ path = Here(g) /\ Closes(g)
  <2>1. old.kind = "regular" /\ (disk'[path] = Filled(old, g) \/ disk'[path] = Torn(old, g))
    BY <1>0, <1>6, PutsFacts DEF Closes, HoldsOpen, HasOpen
  <2>2. HandsOf(Filled(old, g)) \subseteq HandsOf(old) \cup {g}
    BY <2>1 DEF HandsOf, Hands, IsFile, IsLink, Regular, Filled
  <2>3. HandsOf(Torn(old, g)) \subseteq HandsOf(old) \cup {g}
    BY <2>1 DEF HandsOf, Hands, IsFile, IsLink, Regular, Torn
  <2> QED
    BY <1>6, <2>1, <2>2, <2>3
<1>7. CASE Running(g) /\ path = Here(g) /\ Links(g)
  <2>1. disk'[path] = Symlink(g, Job(g).to)
    BY <1>0, <1>7, PutsFacts DEF Links
  <2> QED
    BY <1>7, <2>1, NodeFacts DEF HandsOf, Hands, IsFile, IsLink
<1> QED
  BY <1>0, <1>1, <1>2, <1>3, <1>4, <1>5, <1>6, <1>7, StepForm DEF Changes

LEMMA HandsInvStep ==
    ASSUME DiskInv, OneAtATime, HandsInv, NEW g \in Gens, Step(g)
    PROVE  HandsInv'
<1> SUFFICES ASSUME NEW path \in Paths, NEW h \in HandsOf(disk'[path]) \cap Gens
             PROVE  pc'[h] # "idle" /\ \A k \in Gens : Running(k)' => h <= k
  BY DEF HandsInv
<1>0. TypeOK /\ OthersStay(g) /\ pc'[g] # "idle"
  BY StepForm, ProgramStep DEF DiskInv, ControlInv
<1>1. h \in HandsOf(disk[path]) \/ (h = g /\ Running(g))
  BY HandsGrow
<1>2. pc[h] # "idle"
  BY <1>1 DEF HandsInv, Running
<1>3. pc'[h] # "idle"
  BY <1>0, <1>2 DEF OthersStay
<1>4. ASSUME NEW k \in Gens, Running(k)' PROVE h <= k
  <2>0. h \in Nat /\ k \in Nat
    BY GenAssumption
  <2>1. CASE Running(k)
    <3>1. h = g /\ Running(g) => h = k
      BY <2>1 DEF OneAtATime
    <3>2. h \in HandsOf(disk[path]) => h <= k
      BY <2>1 DEF HandsInv
    <3> QED
      BY <1>1, <2>0, <3>1, <3>2
  <2>2. CASE ~Running(k)
    <3>1. k = g /\ MayBegin(g)
      BY <1>4, <2>2, RunsAfter
    <3>2. pc[k] = "idle"
      BY <3>1 DEF MayBegin
    <3>3. ~(k < h)
      BY <1>2, <3>2 DEF DiskInv, ControlInv, BeginInv
    <3> QED
      BY <2>0, <3>3
  <2> QED
    BY <2>1, <2>2
<1> QED
  BY <1>3, <1>4

\* A generation that has had its hand in a manifest keeps it there while it is
\* at work: nobody removes a manifest or makes a link of it.
ManifestKind(path) ==
    \A n \in Names : \A i \in DOMAIN Jobs(Configuration[n]) :
        Jobs(Configuration[n])[i].path = path => Jobs(Configuration[n])[i].kind = "manifest"

LEMMA ManifestStep ==
    ASSUME DiskInv, NEW g \in Gens, Step(g), NEW path \in Paths, ManifestKind(path)
    PROVE  \/ disk'[path] = disk[path]
           \/ disk'[path] = Dir
           \/ /\ path = Here(g) /\ Running(g)
              /\ disk'[path].kind = "regular" /\ g \in Hands(disk'[path])
<1>0. TypeOK /\ KindInv
  BY DEF DiskInv, ControlInv
<1>1. CASE UNCHANGED disk
  BY <1>1
<1>2. CASE Running(g) /\ MakesParents(g)
  BY <1>2 DEF MakesParents
<1>3. CASE Running(g) /\ (Removes(g) \/ Opens(g) \/ Closes(g) \/ Links(g)) /\ path # Here(g)
  BY <1>0, <1>3, NodePut, PutsFacts
<1>4. CASE Running(g) /\ path = Here(g)
           /\ (Removes(g) \/ Opens(g) \/ Closes(g) \/ Links(g))
  <2>1. Job(g).kind = "manifest"
    <3>1. conf[g] \in Names /\ at[g] \in DOMAIN Jobs(Configuration[conf[g]])
      BY <1>0, <1>4 DEF TypeOK, Loaded
    <3> QED
      BY <1>4, <3>1 DEF ManifestKind, Here, Job, Loaded
  <2>2. pc[g] \notin {"unlink", "link"}
    BY <1>0, <2>1 DEF KindInv
  <2>3. Opens(g) \/ Closes(g)
    BY <1>4, <2>2 DEF Removes, Links
  <2>4. CASE Opens(g)
    <3>1. \E o : disk'[path] = Regular({}, {}, o) /\ g \in o
      BY <1>0, <1>4, <2>4, PutsFacts DEF Opens
    <3> QED
      BY <1>4, <3>1 DEF Regular, Hands
  <2>5. CASE Closes(g)
    <3>1. disk'[path] = Filled(disk[path], g) \/ disk'[path] = Torn(disk[path], g)
      BY <1>0, <1>4, <2>5, PutsFacts DEF Closes
    <3> QED
      BY <1>4, <3>1 DEF Filled, Torn, Regular, Hands
  <2> QED
    BY <2>3, <2>4, <2>5
<1> QED
  BY <1>0, <1>1, <1>2, <1>3, <1>4, StepForm DEF Changes

\* The manifest of a tenant is planned as nothing else.
LEMMA ManifestPlanned ==
    ASSUME NEW n \in Names, NEW i \in DOMAIN Jobs(Configuration[n]),
           Jobs(Configuration[n])[i].kind = "manifest"
    PROVE  ManifestKind(Jobs(Configuration[n])[i].path)
BY KindAssumption DEF ManifestKind

PassedAt(g, i) ==
    LET job == Jobs(Loaded(g))[i]
    IN  job.kind = "manifest" =>
          disk[job.path].kind = "regular" /\ g \in Hands(disk[job.path])

LEMMA PassedInvStep ==
    ASSUME DiskInv, OneAtATime, FillInv, PassedInv, NEW g \in Gens, Step(g)
    PROVE  PassedInv'
<1> SUFFICES ASSUME NEW h \in Gens, Running(h)', NEW i \in 1..(at'[h] - 1)
             PROVE  PassedAt(h, i)'
  BY DEF PassedInv, PassedAt
<1>0. TypeOK /\ OthersStay(g) /\ KindInv
  BY StepForm DEF DiskInv, ControlInv
<1>1. Loaded(h)' = Loaded(h)
  BY <1>0 DEF OthersStay, Loaded
<1>2. CASE h # g
  <2>1. Running(h) /\ at'[h] = at[h]
    BY <1>2, RunsAfter
  <2>2. UNCHANGED disk
    BY <1>2, <2>1, OtherRuns
  <2> QED
    BY <1>1, <2>1, <2>2 DEF PassedInv, PassedAt
<1>3. CASE h = g /\ ~Running(g)
  <2>1. at'[g] = 1
    BY <1>3, RunsAfter
  <2> QED
    BY <1>3, <2>1
<1>4. CASE h = g /\ Running(g)
  <2> DEFINE job == Jobs(Loaded(g))[i]
  <2>0. at[g] \in Nat /\ at'[g] \in {at[g], at[g] + 1}
    <3>1. at'[g] # at[g] => Advances(g)
      BY <1>4, AdvanceComesFrom
    <3> QED
      BY <1>0, <3>1 DEF Advances, Ends, TypeOK
  <2>1. i \in 1..at[g]
    BY <1>4, <2>0
  <2>2. i \in DOMAIN Jobs(Loaded(g)) /\ job.path \in Paths
    BY <1>0, <1>4, <2>1, PlanFacts
  <2> SUFFICES ASSUME job.kind = "manifest"
               PROVE  disk'[job.path].kind = "regular" /\ g \in Hands(disk'[job.path])
    BY <1>1, <1>4 DEF PassedAt
  <2>3. ManifestKind(job.path)
    <3>1. conf[g] \in Names
      BY <1>0 DEF TypeOK
    <3> QED
      BY <2>2, <3>1, ManifestPlanned DEF Loaded
  <2>4. CASE i # at[g]
    <3>1. disk[job.path].kind = "regular" /\ g \in Hands(disk[job.path])
      <4>1. i \in 1..(at[g] - 1)
        BY <2>0, <2>1, <2>4
      <4> QED
        BY <1>4, <4>1 DEF PassedInv
    <3>2. CASE job.path = Here(g)
      <4>1. ~MakesParents(g) \/ disk'[job.path] = disk[job.path]
        BY <2>2, <3>2, <1>0, <1>4, HereFacts DEF MakesParents
      <4>2. disk'[job.path] # Dir
        <5>1. CASE UNCHANGED disk
          BY <3>1, <5>1, NodeFacts
        <5>2. CASE MakesParents(g)
          BY <3>1, <4>1, <5>2, NodeFacts
        <5>3. CASE Removes(g) \/ Opens(g) \/ Closes(g) \/ Links(g)
          BY <1>0, <1>4, <3>2, <5>3, PutsFacts, NodeFacts
             DEF Removes, Opens, Closes, Links, Filled, Torn, Regular, Symlink, Absent, Dir
        <5> QED
          BY <1>0, <5>1, <5>2, <5>3, StepForm DEF Changes
      <4> QED
        BY <2>2, <2>3, <3>1, <4>2, ManifestStep
    <3>3. CASE job.path # Here(g)
      <4>1. disk[job.path] \notin {Absent, Dir}
        BY <3>1, NodeFacts
      <4> QED
        BY <2>2, <3>1, <3>3, <4>1, ElsewhereStays
    <3> QED
      BY <3>2, <3>3
  <2>5. CASE i = at[g]
    <3>1. at'[g] # at[g] /\ job = Job(g)
      BY <1>4, <2>0, <2>5 DEF Job
    <3>2. pc[g] # "link"
      BY <1>0, <3>1 DEF KindInv
    <3>3. Puts(g, Regular({g}, {}, {}))
      BY <1>4, <3>1, <3>2, AdvanceComesFrom
    <3>4. disk'[job.path] = Regular({g}, {}, {})
      BY <1>0, <1>4, <3>1, <3>3, PutsFacts DEF Here
    <3> QED
      BY <3>4 DEF Regular, Hands
  <2> QED
    BY <2>4, <2>5
<1> QED
  BY <1>2, <1>3, <1>4

LEMMA LoneInvStep ==
    ASSUME DiskInv, OneAtATime, LoneInv, [Next]_vars
    PROVE  LoneInv'
<1>1. ASSUME NEW g \in Gens, Step(g) PROVE LoneInv'
  BY <1>1, FillInvStep, LinkInvStep, DoneInvStep, HandsInvStep, PassedInvStep DEF LoneInv
<1>2. CASE UNCHANGED vars
  BY <1>2 DEF LoneInv, FillInv, LinkInv, DoneInv, DoneAt, HandsInv, PassedInv, Whole, vars,
              Running, Loaded, Job, Here
<1> QED
  BY <1>1, <1>2 DEF Next, Step

LEMMA LoneInvInit == Init => LoneInv
<1> SUFFICES ASSUME Init PROVE LoneInv
  OBVIOUS
<1>1. \A g \in Gens : ~Running(g) /\ pc[g] = "idle"
  BY DEF Init, Running
<1>2. FillInv /\ LinkInv /\ DoneInv /\ PassedInv
  BY <1>1 DEF FillInv, LinkInv, DoneInv, PassedInv
<1>3. ASSUME NEW path \in Paths PROVE HandsOf(disk[path]) \cap Gens = {}
  <2>1. disk[path] \in {Regular({Operator}, {}, {}), Dir, Absent}
    BY DEF Init
  <2>2. HandsOf(Regular({Operator}, {}, {})) = {Operator}
    BY DEF HandsOf, IsFile, IsLink, Hands, Regular
  <2>3. HandsOf(Dir) = {} /\ HandsOf(Absent) = {}
    BY NodeFacts DEF HandsOf, IsFile, IsLink
  <2> QED
    BY <2>1, <2>2, <2>3, GenAssumption
<1>4. HandsInv
  BY <1>3 DEF HandsInv
<1> QED
  BY <1>2, <1>4 DEF LoneInv

-----------------------------------------------------------------------------
\* One generate at a time.

LEMMA SeriallyStep ==
    ASSUME Serial, DiskInv, OneAtATime, [Next]_vars
    PROVE  OneAtATime'
<1>1. ASSUME NEW g \in Gens, Step(g) PROVE OneAtATime'
  <2> SUFFICES ASSUME NEW h \in Gens, NEW k \in Gens, Running(h)', Running(k)', h # k
               PROVE  FALSE
    BY DEF OneAtATime
  <2>1. CASE h # g /\ k # g
    BY <1>1, <2>1, RunsAfter DEF OneAtATime
  <2>2. ASSUME NEW j \in Gens, j # g, Running(j)', Running(g)' PROVE FALSE
    <3>1. Running(j) /\ (Running(g) \/ MayBegin(g))
      BY <1>1, <2>2, RunsAfter
    <3> QED
      BY <2>2, <3>1 DEF OneAtATime, MayBegin
  <2> QED
    BY <2>1, <2>2
<1>2. CASE UNCHANGED vars
  BY <1>2 DEF OneAtATime, vars, Running
<1> QED
  BY <1>1, <1>2 DEF Next, Step

SerialInv == DiskInv /\ OneAtATime /\ LoneInv

\* Where only one generate runs at a time and links are apart, whatever the
\* earlier ones have left: what the one at work has done is still as it has done
\* it.
THEOREM SerialInvariant ==
    ASSUME Serial
    PROVE  Spec => [](LinksApart => SerialInv)
<1>1. Init => (LinksApart => SerialInv)
  <2>1. Init => OneAtATime
    BY DEF Init, OneAtATime, Running
  <2> QED
    BY <2>1, DiskInvInit, LoneInvInit DEF SerialInv
<1>2. TypeOK /\ (LinksApart => SerialInv) /\ [Next]_vars => (LinksApart => SerialInv)'
  <2>1. SerialInv /\ [Next]_vars => SerialInv'
    BY DiskInvStep, SeriallyStep, LoneInvStep DEF SerialInv
  <2> QED
    BY <2>1, ConfStays, LinksApartStays
<1> QED
  BY <1>1, <1>2, WriterTypeCorrect, PTL DEF Spec

LEMMA SuccessStep ==
    ASSUME DiskInv, FillInv, DoneInv, [Next]_vars, NEW h \in Gens,
           outcome'[h] = "ok", outcome[h] # "ok", NEW path \in Planned(Loaded(h))
    PROVE  Whole(path, h)'
<1>0. TypeOK /\ ControlInv
  BY DEF DiskInv, ControlInv
<1>1. PICK g \in Gens : Step(g)
  BY DEF Next, Step, vars
<1>2. h = g /\ OthersStay(g)
  BY <1>0, <1>1, StepForm DEF OthersStay
<1>3. PICK i \in DOMAIN Jobs(Loaded(g)) : path = Jobs(Loaded(g))[i].path
  BY <1>2 DEF Planned
<1>4. CASE Running(g)
  <2>1. Advances(g)
    BY <1>1, <1>2, <1>4, AdvanceComesFrom
  <2>2. at[g] = Len(Jobs(Loaded(g)))
    BY <1>2, <2>1 DEF Advances, AtEnd
  <2>3. DOMAIN Jobs(Loaded(g)) = 1..at[g]
    BY <1>0, <2>2, JobsFacts DEF Loaded, TypeOK
  <2>4. Whole(Jobs(Loaded(g))[i].path, g)'
    BY <1>1, <1>2, <1>4, <2>3, AdvanceWhole
  <2>5. Loaded(g)' = Loaded(g)
    BY <1>2 DEF OthersStay, Loaded
  <2> QED
    BY <1>2, <1>3, <2>4, <2>5
<1>5. CASE ~Running(g)
  <2>1. Refuse(g) \/ Begin(g) \/ BadRemoval(g)
    BY <1>1, <1>5 DEF Step, Work, MkdirParents, Lstat, Unlink, Open, Fill, MakeLink, Fail, Running
  <2>2. Jobs(Loaded(g)) = << >>
    BY <1>0, <1>2, <2>1, EarlyForm DEF Ends, Goes
  <2> QED
    BY <1>3, <2>2
<1> QED
  BY <1>4, <1>5

\* When a generate that nobody works beside reports success, every path it
\* plans holds what it wants there and all of it, whatever generations that
\* failed or were killed have left behind, provided that links are apart.
THEOREM SuccessIsThePlan ==
    ASSUME Serial
    PROVE  Spec => SuccessWritesPlan
<1>1. (LinksApart => SerialInv) /\ [Next]_vars =>
        \A g \in Gens :
          outcome'[g] = "ok" /\ outcome[g] # "ok" /\ LinksApart =>
              \A path \in Planned(Loaded(g)) : Whole(path, g)'
  BY SuccessStep DEF SerialInv, LoneInv
<1> QED
  BY <1>1, SerialInvariant, PTL DEF Spec, SuccessWritesPlan

-----------------------------------------------------------------------------
\* The age of manifests.

TenantIds(n) == {Configuration[n].tenants[i].id : i \in DOMAIN Configuration[n].tenants}

\* l has had a hand in the manifest of a tenant, and nobody who has begun
\* after it in a file of that tenant.
Leads(l, id) ==
    /\ l \in Hands(disk[ManifestPath(id)]) \cap Gens
    /\ \A path \in Paths : Head(path) = id =>
         \A h \in HandsOf(disk[path]) \cap Gens : h <= l

LeadInv ==
    \A n \in Names : \A id \in TenantIds(n) :
        disk[ManifestPath(id)].kind = "regular" => \E l \in Gens : Leads(l, id)

\* A plan has the manifest of a tenant before any file of that tenant.
LEMMA ManifestFirst ==
    ASSUME NEW m \in Names, NEW id \in TenantIds(m), NEW n \in Names,
           NEW k \in DOMAIN Jobs(Configuration[n]),
           Head(Jobs(Configuration[n])[k].path) = id,
           Jobs(Configuration[n])[k].path # ManifestPath(id)
    PROVE  \E j \in 1..(k - 1) :
              Jobs(Configuration[n])[j] = ManifestJob(id)
<1> DEFINE c == Configuration[n]
<1>1. /\ DOMAIN Jobs(c) = 1..Len(Jobs(c)) /\ Len(Jobs(c)) \in Nat
      /\ DOMAIN c.tenants = 1..Len(c.tenants) /\ Len(c.tenants) \in Nat
      /\ \A i \in DOMAIN c.tenants :
            Jobs(c)[i] = ManifestJob(c.tenants[i].id)
      /\ \A i \in DOMAIN Jobs(c) \ DOMAIN c.tenants :
            i - Len(c.tenants) \in DOMAIN Files(c) /\ Jobs(c)[i] = Files(c)[i - Len(c.tenants)]
  BY JobsFacts
<1>2. ASSUME k \in DOMAIN c.tenants PROVE FALSE
  <2>1. Jobs(c)[k] = ManifestJob(c.tenants[k].id)
    BY <1>1, <1>2
  <2>2. Head(ManifestPath(c.tenants[k].id)) = c.tenants[k].id
    BY DEF ManifestPath
  <2> QED
    BY <2>1, <2>2 DEF ManifestJob
<1>3. PICK i \in DOMAIN Configuration[m].tenants : Configuration[m].tenants[i].id = id
  BY DEF TenantIds
<1>4. PICK j \in DOMAIN c.tenants : c.tenants[j].id = id
  <2>1. k \in DOMAIN Jobs(c) \ DOMAIN c.tenants
    BY <1>2
  <2>2. k - Len(c.tenants) \in DOMAIN Files(c) /\ Jobs(c)[k] = Files(c)[k - Len(c.tenants)]
    BY <1>1, <2>1
  <2>3. Head(Files(c)[k - Len(c.tenants)].path) = id
    BY <2>2
  <2> QED
    <3> DEFINE f == k - Len(c.tenants)
    <3>1. f \in DOMAIN Files(c) /\ Head(Files(c)[f].path) = Configuration[m].tenants[i].id
      BY <1>3, <2>2, <2>3
    <3> HIDE DEF f
    <3>2. \E j \in DOMAIN Configuration[n].tenants :
             Configuration[n].tenants[j].id = Configuration[m].tenants[i].id
      BY <3>1, TenantAssumption
    <3> QED
      BY <1>3, <3>2
<1>5. j \in 1..(k - 1)
  BY <1>1, <1>2
<1> QED
  BY <1>1, <1>4, <1>5

LEMMA TenantManifest ==
    ASSUME NEW n \in Names, NEW id \in TenantIds(n)
    PROVE  /\ ManifestPath(id) \in Paths /\ ManifestKind(ManifestPath(id))
           /\ ManifestPath(id) \notin Foreign
           /\ Head(ManifestPath(id)) = id
<1> DEFINE c == Configuration[n]
<1>1. PICK i \in DOMAIN c.tenants : c.tenants[i].id = id
  BY DEF TenantIds
<1>2. i \in DOMAIN Jobs(c) /\ Jobs(c)[i] = ManifestJob(id)
  <2>1. /\ DOMAIN Jobs(c) = 1..Len(Jobs(c)) /\ Len(Jobs(c)) \in Nat
        /\ DOMAIN c.tenants = 1..Len(c.tenants) /\ Len(c.tenants) \in Nat
        /\ Len(c.tenants) <= Len(Jobs(c))
        /\ \A k \in DOMAIN c.tenants :
              Jobs(c)[k] = ManifestJob(c.tenants[k].id)
    BY JobsFacts
  <2> QED
    BY <1>1, <2>1
<1>3. Jobs(c)[i].path = ManifestPath(id) /\ Jobs(c)[i].kind = "manifest"
  BY <1>2 DEF ManifestJob
<1>4. ManifestPath(id) \in Paths /\ ManifestKind(ManifestPath(id))
  BY <1>2, <1>3, PathsFacts, ManifestPlanned
<1>5. ManifestPath(id) \notin Foreign
  BY <1>1, TenantAssumption
<1> QED
  BY <1>4, <1>5 DEF ManifestPath

\* Either the one at work leads, because it has written the manifest, or who has
\* led before it still does.
LEMMA LeadStep ==
    ASSUME DiskInv, OneAtATime, HandsInv, PassedInv, NEW g \in Gens, Step(g),
           NEW n \in Names, NEW id \in TenantIds(n), disk'[ManifestPath(id)].kind = "regular"
    PROVE  \/ Running(g) /\ Leads(g, id)'
           \/ /\ disk[ManifestPath(id)].kind = "regular"
              /\ \A l \in Gens : Leads(l, id) => Leads(l, id)'
<1> DEFINE m == ManifestPath(id)
<1>0. TypeOK /\ ControlInv
  BY DEF DiskInv, ControlInv
<1>1. m \in Paths /\ ManifestKind(m)
  BY TenantManifest
<1>2. ASSUME Running(g), g \in Hands(disk'[m]) PROVE Leads(g, id)'
  <2>1. ASSUME NEW path \in Paths, NEW h \in HandsOf(disk'[path]) \cap Gens PROVE h <= g
    <3>1. h \in HandsOf(disk[path]) \/ h = g
      BY HandsGrow
    <3> QED
      BY <1>2, <3>1, GenAssumption DEF HandsInv
  <2> QED
    BY <1>2, <2>1 DEF Leads
<1>3. CASE disk'[m] # disk[m]
  <2>1. disk'[m] # Dir
    BY NodeFacts
  <2> QED
    BY <1>1, <1>2, <1>3, <2>1, ManifestStep
<1>4. CASE disk'[m] = disk[m] /\ Running(g) /\ g \in Hands(disk[m])
  BY <1>2, <1>4
<1>5. CASE disk'[m] = disk[m] /\ ~(Running(g) /\ g \in Hands(disk[m]))
  <2>1. ASSUME NEW path \in Paths, Head(path) = id
        PROVE  HandsOf(disk'[path]) \subseteq HandsOf(disk[path])
    <3> SUFFICES ASSUME Running(g), path = Here(g), Opens(g) \/ Closes(g) \/ Links(g)
                 PROVE  HandsOf(disk'[path]) \subseteq HandsOf(disk[path])
      BY HandsGrow
    <3>1. CASE path = m
      BY <1>5, <3>1
    <3>2. CASE path # m
      <4>1. /\ conf[g] \in Names /\ at[g] \in DOMAIN Jobs(Configuration[conf[g]])
            /\ Jobs(Configuration[conf[g]])[at[g]].path = path
        BY <1>0 DEF TypeOK, Loaded, Here, Job
      <4>2. PICK j \in 1..(at[g] - 1) :
               Jobs(Configuration[conf[g]])[j] = ManifestJob(id)
        BY <2>1, <3>2, <4>1, ManifestFirst
      <4>3. g \in Hands(disk[m])
        BY <4>2 DEF PassedInv, Loaded, ManifestJob
      <4> QED
        BY <1>5, <4>3
    <3> QED
      BY <3>1, <3>2
  <2>2. \A l \in Gens : Leads(l, id) => Leads(l, id)'
    BY <1>5, <2>1 DEF Leads
  <2> QED
    BY <1>5, <2>2
<1> QED
  BY <1>3, <1>4, <1>5

LEMMA LeadInvStep ==
    ASSUME DiskInv, OneAtATime, HandsInv, PassedInv, LeadInv, [Next]_vars
    PROVE  LeadInv'
<1>1. ASSUME NEW g \in Gens, Step(g) PROVE LeadInv'
  <2> SUFFICES ASSUME NEW n \in Names, NEW id \in TenantIds(n),
                      disk'[ManifestPath(id)].kind = "regular"
               PROVE  \E l \in Gens : Leads(l, id)'
    BY DEF LeadInv
  <2>1. CASE Running(g) /\ Leads(g, id)'
    BY <2>1
  <2>2. CASE /\ disk[ManifestPath(id)].kind = "regular"
             /\ \A l \in Gens : Leads(l, id) => Leads(l, id)'
    BY <2>2 DEF LeadInv
  <2> QED
    BY <1>1, <2>1, <2>2, LeadStep
<1>2. CASE UNCHANGED vars
  BY <1>2 DEF LeadInv, Leads, vars
<1> QED
  BY <1>1, <1>2 DEF Next, Step

LEMMA LeadInvInit == Init => LeadInv
<1> SUFFICES ASSUME Init, NEW n \in Names, NEW id \in TenantIds(n)
             PROVE  disk[ManifestPath(id)].kind # "regular"
  BY DEF LeadInv
<1>1. ManifestPath(id) \in Paths /\ ManifestPath(id) \notin Foreign
  BY TenantManifest
<1>2. disk[ManifestPath(id)] \in {Dir, Absent}
  BY <1>1 DEF Init
<1> QED
  BY <1>2, NodeFacts

LEMMA LeadMeans == LeadInv => ManifestNeverOlder
<1> SUFFICES ASSUME LeadInv, NEW n \in Names, NEW i \in DOMAIN Configuration[n].tenants,
                    disk[ManifestPath(Configuration[n].tenants[i].id)].kind = "regular"
             PROVE  LET id == Configuration[n].tenants[i].id IN
                    \E g \in Hands(disk[ManifestPath(id)]) \cap Gens :
                       \A path \in Paths : Head(path) = id => ~Younger(path, g)
  BY DEF ManifestNeverOlder
<1> DEFINE id == Configuration[n].tenants[i].id
<1>1. PICK l \in Gens : Leads(l, id)
  BY DEF LeadInv, TenantIds
<1>2. ASSUME NEW path \in Paths, Head(path) = id PROVE ~Younger(path, l)
  BY <1>1, <1>2, GenAssumption DEF Leads, HandsOf, Younger
<1> QED
  BY <1>1, <1>2 DEF Leads

\* Generations that run one at a time leave no tenant, at no moment and after
\* no crash, with a manifest that is older than a file beside it: what has to
\* go before a file can do harm is known before the file is written.
THEOREM ManifestsAreNeverOlder ==
    ASSUME Serial
    PROVE  Spec => []ManifestNeverOlder
<1>1. Init => LeadInv
  BY LeadInvInit
<1>2. TypeOK /\ (LinksApart => SerialInv) /\ (LinksApart => LeadInv) /\ [Next]_vars =>
        (LinksApart => LeadInv)'
  BY ConfStays, LinksApartStays, LeadInvStep DEF SerialInv, LoneInv
<1>3. (LinksApart => LeadInv) => ManifestNeverOlder
  BY LeadMeans DEF ManifestNeverOlder
<1> QED
  BY <1>1, <1>2, <1>3, SerialInvariant, WriterTypeCorrect, PTL DEF Spec

-----------------------------------------------------------------------------
\* What is in the way.

\* Files and links are where somebody wants one, directories where somebody
\* wants something below.
ShapeInv ==
    \A path \in Paths :
        /\ IsFile(disk[path]) => path \in Wanted
        /\ disk[path] = Dir => \E f \in Wanted : path \in Parents(f)

LEMMA HereIsLeaf ==
    ASSUME TypeOK, NEW g \in Gens, Running(g)
    PROVE  Here(g) \in Wanted /\ Here(g) \in Paths /\ Parents(Here(g)) \subseteq Paths
BY HereFacts DEF Wanted, TypeOK, Loaded

LEMMA ShapeInvStep ==
    ASSUME DiskInv, ShapeInv, [Next]_vars
    PROVE  ShapeInv'
<1>0. TypeOK /\ ControlInv
  BY DEF DiskInv, ControlInv
<1> SUFFICES ASSUME NEW path \in Paths
             PROVE  /\ IsFile(disk'[path]) => path \in Wanted
                    /\ disk'[path] = Dir => \E f \in Wanted : path \in Parents(f)
  BY DEF ShapeInv
<1>1. CASE disk'[path] = disk[path]
  BY <1>1 DEF ShapeInv
<1>2. CASE disk'[path] # disk[path]
  <2>1. PICK g \in Gens : Step(g)
    BY <1>2 DEF Next, Step, vars
  <2>2. Running(g) /\ Changes(g)
    BY <1>0, <1>2, <2>1, StepForm
  <2>3. Here(g) \in Wanted
    BY <1>0, <2>2, HereIsLeaf
  <2>4. CASE MakesParents(g)
    <3>1. path \in Parents(Here(g)) /\ disk'[path] = Dir
      BY <1>2, <2>4 DEF MakesParents
    <3> QED
      BY <2>3, <3>1, NodeFacts DEF IsFile, IsLink
  <2>5. CASE Removes(g) \/ Opens(g) \/ Closes(g) \/ Links(g)
    <3>1. path = Here(g)
      BY <1>0, <1>2, <2>2, <2>5, NodePut, PutsFacts
    <3>2. disk'[path] # Dir
      BY <1>0, <2>2, <2>5, <3>1, PutsFacts
         DEF Removes, Opens, Closes, Links, Filled, Torn, Regular, Symlink, Absent, Dir
    <3> QED
      BY <2>3, <3>1, <3>2
  <2> QED
    BY <2>2, <2>4, <2>5 DEF Changes
<1> QED
  BY <1>1, <1>2

LEMMA ShapeInvInit == Init => ShapeInv
<1> SUFFICES ASSUME Init, NEW path \in Paths
             PROVE  /\ IsFile(disk[path]) => path \in Wanted
                    /\ disk[path] = Dir => \E f \in Wanted : path \in Parents(f)
  BY DEF ShapeInv
<1>1. CASE path \in Foreign
  <2>1. disk[path] = Regular({Operator}, {}, {})
    BY <1>1 DEF Init
  <2>2. Regular({Operator}, {}, {}) # Dir
    BY DEF Regular, Dir
  <2>3. path \in Wanted
    BY <1>1 DEF Wanted
  <2> QED
    BY <2>1, <2>2, <2>3
<1>2. CASE path \notin Foreign /\ path \in UNION {Parents(f) : f \in Foreign}
  <2>1. disk[path] = Dir
    BY <1>2 DEF Init
  <2>2. PICK f \in Foreign : path \in Parents(f)
    BY <1>2
  <2>3. f \in Wanted
    BY <2>2 DEF Wanted
  <2> QED
    BY <2>1, <2>2, <2>3, NodeFacts DEF IsFile, IsLink
<1>3. CASE path \notin Foreign /\ path \notin UNION {Parents(f) : f \in Foreign}
  <2>1. disk[path] = Absent
    BY <1>3 DEF Init
  <2> QED
    BY <2>1, NodeFacts DEF IsFile, IsLink
<1> QED
  BY <1>1, <1>2, <1>3

LEMMA NeverBlockedStep ==
    ASSUME DiskInv, LinkInv, ShapeInv, PlansFit, NeverBlocked, [Next]_vars, NEW h \in Gens
    PROVE  outcome'[h] # "blocked"
<1>0. TypeOK /\ outcome[h] # "blocked"
  BY DEF DiskInv, ControlInv, NeverBlocked
<1> SUFFICES ASSUME outcome'[h] # outcome[h] PROVE outcome'[h] # "blocked"
  BY <1>0
<1>1. PICK g \in Gens : Step(g)
  BY DEF Next, Step, vars
<1>2. h = g
  BY <1>0, <1>1, StepForm DEF OthersStay
<1>3. \A f \in Wanted : Wanted \cap Parents(f) = {}
  BY DEF PlansFit
<1>4. ASSUME Running(g) PROVE disk[Here(g)] # Dir /\ ~Stands(g)
  <2>1. Here(g) \in Wanted /\ Here(g) \in Paths /\ Parents(Here(g)) \subseteq Paths
    BY <1>0, <1>4, HereIsLeaf
  <2>2. disk[Here(g)] # Dir
    BY <1>3, <2>1 DEF ShapeInv
  <2>3. ASSUME NEW q \in Parents(Here(g)) PROVE disk[q] \in {Absent, Dir}
    <3>1. q \notin Wanted /\ q \in Paths
      BY <1>3, <2>1, <2>3
    <3>2. ~IsFile(disk[q]) /\ disk[q] \in Nodes
      BY <1>0, <3>1 DEF ShapeInv, TypeOK
    <3> QED
      BY <3>2, KindFacts
  <2> QED
    BY <2>2, <2>3 DEF Stands
<1>5. CASE Refuse(g) \/ Begin(g) \/ BadRemoval(g)
  BY <1>0, <1>2, <1>5, EarlyForm DEF Ends, Goes
<1>6. CASE MkdirParents(g)
  BY <1>0, <1>2, <1>4, <1>6, MkdirParentsForm, MkdirParentsPlain DEF Goes
<1>7. CASE Lstat(g)
  BY <1>0, <1>2, <1>4, <1>7, LstatForm, LstatPlain DEF Goes, Ends
<1>8. CASE Unlink(g)
  BY <1>0, <1>2, <1>8, UnlinkForm DEF Goes, Ends
<1>9. CASE Open(g)
  BY <1>0, <1>2, <1>4, <1>9, OpenForm, OpenPlain DEF Goes, Ends
<1>10. CASE Fill(g)
  BY <1>0, <1>2, <1>10, FillForm DEF Advances, Ends
<1>11. CASE MakeLink(g)
  <2>1. disk[Here(g)] = Absent
    BY <1>11 DEF MakeLink, LinkInv
  <2> QED
    BY <1>0, <1>2, <1>11, <2>1, MakeLinkForm, MakeLinkPlain DEF Advances, Ends
<1>12. CASE Fail(g)
  BY <1>0, <1>2, <1>12, FailForm DEF Ends
<1> QED
  BY <1>1, <1>5, <1>6, <1>7, <1>8, <1>9, <1>10, <1>11, <1>12 DEF Step, Work

\* As long as no configuration wants a file where another one wants a directory
\* or a link, nothing that an aborted or an earlier generation leaves stands in
\* the way of the next one.
THEOREM NothingStandsInTheWay ==
    ASSUME Serial
    PROVE  Spec => []NeverBlocked
<1>1. Init => ShapeInv /\ NeverBlocked
  <2>1. Init => NeverBlocked
    BY DEF Init, NeverBlocked
  <2> QED
    BY <2>1, ShapeInvInit
<1>2. TypeOK /\ (LinksApart => SerialInv) /\ (LinksApart => ShapeInv) /\ [Next]_vars =>
        (LinksApart => ShapeInv)'
  BY ConfStays, LinksApartStays, ShapeInvStep DEF SerialInv
<1>3. /\ TypeOK /\ (LinksApart => SerialInv) /\ (LinksApart => ShapeInv)
      /\ NeverBlocked /\ [Next]_vars
      => NeverBlocked'
  <2> SUFFICES ASSUME TypeOK, SerialInv, ShapeInv, NeverBlocked, [Next]_vars, PlansFit, LinksApart
               PROVE  \A h \in Gens : outcome'[h] # "blocked"
    BY ConfStays, LinksApartStays DEF NeverBlocked
  <2> QED
    BY NeverBlockedStep DEF SerialInv, LoneInv
<1> QED
  BY <1>1, <1>2, <1>3, SerialInvariant, WriterTypeCorrect, PTL DEF Spec
=============================================================================
