-------------------------- MODULE EntrypointProofs --------------------------
(***************************************************************************)
(* Theorems about Entrypoint, for any configurations, images and numbers   *)
(* of generations, starts and containers, whatever fails or is killed.     *)
(***************************************************************************)
EXTENDS Entrypoint, WriterProofs, FiniteSetTheorems

-----------------------------------------------------------------------------
\* Paths, and what is under them.

\* What of the tree is mounted into the container of t.
Of(t) == {path \in Paths : Head(path) = t}

LEMMA MovedTyped ==
    ASSUME NEW path \in Seq(Label) \ {<< >>}, NEW from \in Seq(Label) \ {<< >>},
           NEW to \in Seq(Label) \ {<< >>}, IsPrefix(from, path)
    PROVE  Moved(path, from, to) \in Seq(Label) \ {<< >>}
<1>1. Len(from) \in Nat \ {0} /\ Len(path) \in Nat \ {0} /\ Len(from) <= Len(path)
  BY DEF IsPrefix
<1> DEFINE rest == SubSeq(path, Len(from) + 1, Len(path))
<1>2. rest \in Seq(Label)
  BY <1>1
<1> HIDE DEF rest
<1>3. to \o rest \in Seq(Label) /\ Len(to \o rest) = Len(to) + Len(rest)
      /\ Len(to) \in Nat \ {0} /\ Len(rest) \in Nat
  BY <1>2, ConcatFacts
<1> QED
  BY <1>3 DEF Moved, rest

LEMMA LeadTyped ==
    ASSUME NEW paths \in SUBSET (Seq(Label) \ {<< >>})
    PROVE  Lead(paths) \subseteq Seq(Label) \ {<< >>}
<1>1. ASSUME NEW l \in LinkJobs
      PROVE  l.path \in Seq(Label) \ {<< >>} /\ l.to \in Seq(Label) \ {<< >>}
  <2>1. PICK n \in Names : l \in ToSet(Jobs(Configuration[n]))
    BY DEF LinkJobs
  <2>2. PICK i \in DOMAIN Jobs(Configuration[n]) : l = Jobs(Configuration[n])[i]
    BY <2>1 DEF ToSet
  <2>3. Jobs(Configuration[n])[i] \in JobSet
    BY JobsFacts
  <2> QED
    BY <2>2, <2>3 DEF JobSet
<1> QED
  BY <1>1, MovedTyped DEF Lead

LEMMA LeavesTyped == Leaves \subseteq Seq(Label) \ {<< >>}
<1>1. ASSUME NEW n \in Names, NEW path \in Planned(Configuration[n])
      PROVE  path \in Seq(Label) \ {<< >>}
  <2>1. PICK i \in DOMAIN Jobs(Configuration[n]) : path = Jobs(Configuration[n])[i].path
    BY DEF Planned
  <2> QED
    BY <2>1, PathsFacts
<1>2. Foreign \subseteq Seq(Label) \ {<< >>}
  <2>1. Seq(STRING) \subseteq Seq(Label)
    BY DEF Label
  <2> QED
    BY <2>1, PlanAssumption
<1>3. Wanted \subseteq Seq(Label) \ {<< >>}
  BY <1>1, <1>2 DEF Wanted
<1> QED
  BY <1>3, LeadTyped DEF Leaves

LEMMA WantedArePaths == Wanted \subseteq Leaves
BY DEF Leaves, Lead

LEMMA PathsTyped == Paths \subseteq Seq(Label) \ {<< >>}
<1>1. ASSUME NEW f \in Leaves, NEW path \in Parents(f)
      PROVE  path \in Seq(Label) \ {<< >>}
  <2>1. PICK k \in 1..(Len(f) - 1) : path = SubSeq(f, 1, k)
    BY DEF Parents
  <2>2. f \in Seq(Label) /\ Len(f) \in Nat
    BY LeavesTyped
  <2>3. k \in 1..Len(f)
    BY <2>2
  <2> QED
    BY <2>1, <2>2, <2>3, SubSeqFacts
<1> QED
  BY <1>1, LeavesTyped DEF Paths

LEMMA UnderHead ==
    ASSUME NEW dir \in Paths, NEW path \in Paths, Under(path, dir)
    PROVE  Head(path) = Head(dir)
<1>1. dir \in Seq(Label) \ {<< >>} /\ path \in Seq(Label) \ {<< >>}
  BY PathsTyped
<1>2. Len(dir) <= Len(path) /\ SubSeq(dir, 1, Len(dir)) = SubSeq(path, 1, Len(dir))
  BY DEF Under, IsPrefix
<1>3. Len(dir) \in Nat \ {0} /\ Len(path) \in Nat
  BY <1>1
<1>4. Len(dir) \in 1..Len(dir) /\ Len(dir) \in 1..Len(path) /\ 1 \in 1..Len(dir)
  BY <1>2, <1>3
<1>5. SubSeq(dir, 1, Len(dir))[1] = dir[1]
  BY <1>1, <1>4, SubSeqFacts
<1>6. SubSeq(path, 1, Len(dir))[1] = path[1]
  BY <1>1, <1>4, SubSeqFacts
<1> QED
  BY <1>1, <1>2, <1>5, <1>6

\* A tenant with a container has a manifest in some plan.
LEMMA ContainerFacts ==
    ASSUME NEW t \in Containers
    PROVE  /\ ManifestPath(t) \in Paths /\ ManifestPath(t) \in Places
           /\ ManifestKind(ManifestPath(t))
           /\ <<t>> \in Of(t)
           /\ \E n \in Names : t \in TenantIds(n)
<1>1. PICK n \in Names : t \in TenantIds(n)
  BY ContainerAssumption DEF TenantIds
<1>2. ManifestPath(t) \in Paths /\ ManifestKind(ManifestPath(t))
  BY <1>1, TenantManifest
<1>3. PICK i \in DOMAIN Configuration[n].tenants : Configuration[n].tenants[i].id = t
  BY <1>1 DEF TenantIds
<1>4. i \in DOMAIN Jobs(Configuration[n]) /\ Jobs(Configuration[n])[i].path = ManifestPath(t)
  <2>1. /\ DOMAIN Jobs(Configuration[n]) = 1..Len(Jobs(Configuration[n]))
        /\ Len(Jobs(Configuration[n])) \in Nat
        /\ DOMAIN Configuration[n].tenants = 1..Len(Configuration[n].tenants)
        /\ Len(Configuration[n].tenants) \in Nat
        /\ Len(Configuration[n].tenants) <= Len(Jobs(Configuration[n]))
        /\ \A k \in DOMAIN Configuration[n].tenants :
              Jobs(Configuration[n])[k] =
                  ManifestJob(Configuration[n].tenants[k].id)
    BY JobsFacts
  <2>2. Jobs(Configuration[n])[i] = ManifestJob(t)
    BY <1>3, <2>1
  <2> QED
    BY <1>3, <2>1, <2>2 DEF ManifestJob
<1>5. Parents(ManifestPath(t)) \subseteq Paths
  BY <1>4, PathsFacts
<1>6. <<t>> \in Parents(ManifestPath(t)) /\ Head(<<t>>) = t
  <2>1. 1 \in 1..(Len(ManifestPath(t)) - 1) /\ ManifestPath(t)[1] = t
    BY DEF ManifestPath
  <2>2. ManifestPath(t) \in Seq(Label)
    BY <1>2, PathsTyped
  <2>3. /\ SubSeq(ManifestPath(t), 1, 1) \in Seq(Label)
        /\ Len(SubSeq(ManifestPath(t), 1, 1)) = 1 /\ SubSeq(ManifestPath(t), 1, 1)[1] = t
    <3>1. 1 \in 1..Len(ManifestPath(t)) /\ 1 \in 1..1
      BY <2>2, <2>1
    <3> QED
      BY <2>1, <2>2, <3>1, SubSeqFacts
  <2> DEFINE first == SubSeq(ManifestPath(t), 1, 1)
  <2>4. first = <<t>>
    <3>1. first \in Seq(Label) /\ Len(first) = 1 /\ first[1] = t
      BY <2>3
    <3> HIDE DEF first
    <3> QED
      BY <3>1
  <2> HIDE DEF first
  <2>5. first \in Parents(ManifestPath(t))
    BY <2>1 DEF Parents, first
  <2> QED
    BY <2>4, <2>5
<1> QED
  BY <1>1, <1>2, <1>5, <1>6 DEF Of, Places

\* The directory of the manifest is above the manifest.
LEMMA ManifestUnder ==
    ASSUME NEW t
    PROVE  Under(ManifestPath(t), <<t, ".radius-director">>)
<1> DEFINE dir  == <<t, ".radius-director">>
           path == <<t, ".radius-director", "manifest.yaml">>
           S    == {t, ".radius-director", "manifest.yaml"}
<1>1. dir \in Seq(S) /\ Len(dir) = 2 /\ path \in Seq(S) /\ Len(path) = 3
      /\ dir[1] = path[1] /\ dir[2] = path[2]
  OBVIOUS
<1> HIDE DEF dir, path, S
<1>2. 2 \in 1..Len(dir) /\ 2 \in 1..Len(path)
  BY <1>1
<1>3. /\ SubSeq(dir, 1, 2) \in Seq(S) /\ Len(SubSeq(dir, 1, 2)) = 2
      /\ \A i \in 1..2 : SubSeq(dir, 1, 2)[i] = dir[i]
  BY <1>1, <1>2, SubSeqFacts
<1>4. /\ SubSeq(path, 1, 2) \in Seq(S) /\ Len(SubSeq(path, 1, 2)) = 2
      /\ \A i \in 1..2 : SubSeq(path, 1, 2)[i] = path[i]
  BY <1>1, <1>2, SubSeqFacts
<1>5. \A i \in 1..2 : dir[i] = path[i]
  BY <1>1
<1>6. SubSeq(dir, 1, 2) = SubSeq(path, 1, 2)
  BY <1>3, <1>4, <1>5
<1>7. IsPrefix(dir, path)
  BY <1>1, <1>6 DEF IsPrefix
<1> QED
  BY <1>7 DEF Under, ManifestPath, dir, path

\* The listing of a directory, in some order.
LEMMA ListingFacts ==
    ASSUME NEW t \in Containers, NEW dir \in Of(t)
    PROVE  SetToSeq(Children(dir)) \in Seq(Of(t))
<1> DEFINE S == Children(dir)
<1>1. S \subseteq Of(t)
  BY UnderHead DEF Children, Of
<1>2. IsFiniteSet(S)
  <2>1. S \in SUBSET Paths
    BY DEF Children
  <2> QED
    BY <2>1, FS_Subset, ContainerAssumption
<1> HIDE DEF S
<1>3. Cardinality(S) \in Nat /\ ExistsBijection(1..Cardinality(S), S)
  BY <1>2, FS_CardinalityType
<1>4. \E f \in [1..Cardinality(S) -> S] : IsInjective(f)
  BY <1>3 DEF ExistsBijection, Bijection, Injection
<1>5. SetToSeq(S) \in [1..Cardinality(S) -> S]
  BY <1>4 DEF SetToSeq
<1>6. SetToSeq(S) \in [1..Cardinality(S) -> Of(t)]
  BY <1>1, <1>5
<1>7. SetToSeq(S) \in Seq(Of(t))
  BY <1>3, <1>6
<1> QED
  BY <1>7 DEF S
-----------------------------------------------------------------------------
\* Types.

\* Entries of the listing that awk makes are removals some configuration asks
\* for, or directories above such.
LEMMA ReadingsFacts ==
    ASSUME TypeOK, NEW node \in Nodes, NEW t
    PROVE  Readings(node, t) \subseteq SUBSET Listed
<1> DEFINE all == UNION {ToSet(Removals(Configuration[n])) : n \in Names}
<1>1. Listed = all \cup UNION {Parents(r) : r \in all}
  BY DEF Listed
<1>2. ASSUME NEW g \in Gens, NEW k \in DOMAIN Removals(Loaded(g))
      PROVE  Removals(Loaded(g))[k] \in all
  BY DEF TypeOK, Loaded, ToSet
<1> HIDE DEF all
<1>3. ASSUME NEW g \in Gens
      PROVE  LinesOf(g, t) \subseteq Listed
  BY <1>1, <1>2 DEF LinesOf, Plainly, ToSet
<1>4. ASSUME NEW g \in Gens, NEW c \in Cuts(g, t)
      PROVE  c \subseteq Listed
  <2> DEFINE removals == Removals(Loaded(g))
             mine     == {k \in DOMAIN removals : Head(removals[k]) = t}
             First(k) == {removals[j] : j \in {i \in mine : i < k}}
             Cut(k)  == {{}} \cup {{q} : q \in Parents(removals[k]) \ {<<t>>}}
  <2>1. Cuts(g, t) = {{}} \cup UNION {{Plainly(First(k) \cup end) : end \in Cut(k)} : k \in mine}
    BY DEF Cuts
  <2>2. ASSUME NEW k \in mine, NEW end \in Cut(k)
        PROVE  Plainly(First(k) \cup end) \subseteq Listed
    <3>1. First(k) \subseteq all
      BY <1>2
    <3>2. end \subseteq Parents(removals[k]) /\ removals[k] \in all
      BY <1>2
    <3> QED
      BY <1>1, <3>1, <3>2 DEF Plainly
  <2> HIDE DEF First, Cut, mine
  <2>3. CASE c # {}
    <3>1. PICK k \in mine : c \in {Plainly(First(k) \cup end) : end \in Cut(k)}
      BY <1>4, <2>1, <2>3
    <3>2. PICK end \in Cut(k) : c = Plainly(First(k) \cup end)
      BY <3>1
    <3> QED
      BY <2>2, <3>2
  <2> QED
    BY <2>3
<1>5. CASE Entire(node)
  <2>1. node.text \subseteq Gens
    BY <1>5 DEF Entire, Regular
  <2>2. ASSUME NEW r \in Readings(node, t)
        PROVE  \E g \in node.text : r = LinesOf(g, t)
    BY <1>5, <2>2 DEF Readings
  <2> QED
    BY <1>3, <2>1, <2>2
<1>6. CASE ~Entire(node)
  <2>1. \A a \in Pieces(node, t) : a \subseteq Listed
    BY <1>3, <1>4 DEF Pieces
  <2>2. ASSUME NEW r \in Readings(node, t)
        PROVE  \E a, b \in Pieces(node, t) : r = a \cup b
    BY <1>6, <2>2 DEF Readings
  <2> QED
    BY <2>1, <2>2
<1> QED
  BY <1>5, <1>6

\* What the image brings.
LEMMA FreshFacts ==
    ASSUME NEW t
    PROVE  /\ Fresh(t) \in [Places -> Nodes]
           /\ \A path \in Places : Hands(Fresh(t)[path]) \cap Gens = {} \/ ~IsFile(Fresh(t)[path])
<1>1. Regular({Operator}, {}, {}) \in Nodes
  BY NodeFacts DEF Writers
<1>2. Hands(Regular({Operator}, {}, {})) \cap Gens = {}
  BY GenAssumption DEF Hands, Regular
<1>3. ~IsFile(Dir) /\ ~IsFile(Absent)
  BY DEF IsFile, IsLink, Dir, Absent
<1>4. ASSUME NEW l \in DOMAIN ImageLinks
      PROVE  /\ Symlink(Operator, ImageLinks[l]) \in Nodes
             /\ Hands(Symlink(Operator, ImageLinks[l])) \cap Gens = {}
  <2>1. ImageLinks[l] \in Seq(STRING) \ {<< >>}
    BY ImageAssumption
  <2> QED
    BY <2>1, NodeFacts, GenAssumption DEF Writers, Hands
<1> QED
  BY <1>1, <1>2, <1>3, <1>4, NodeFacts DEF Fresh

\* What remains to be copied is the tenant's own.
TodoInv == \A t \in Containers : todo[t] \in Seq(Of(t))

EntryTyped == ControlInv /\ ContainerTypeOK /\ TodoInv

LEMMA OfTyped == \A t : \A s \in Seq(Of(t)) : s \in Seq(Paths)
BY DEF Of

LEMMA SteadyTyped ==
    ASSUME NEW t \in Containers, NEW s \in [Containers -> BOOLEAN], NEW b \in BOOLEAN
    PROVE  [s EXCEPT ![t] = b] \in [Containers -> BOOLEAN]
OBVIOUS

LEMMA LeaveFacts ==
    ASSUME ContainerTypeOK, TodoInv, NEW t \in Containers, NEW s \in Steps, Leave(t, s)
    PROVE  /\ step' \in [Containers -> Steps] /\ step' = [step EXCEPT ![t] = s]
           /\ todo' \in [Containers -> Seq(Paths)] /\ \A u \in Containers : todo'[u] \in Seq(Of(u))
           /\ failed' \in [Containers -> BOOLEAN]
           /\ lines' \in [Containers -> SUBSET Listed]
           /\ steady' \in [Containers -> BOOLEAN]
<1>1. << >> \in Seq(Paths) /\ << >> \in Seq(Of(t))
  OBVIOUS
<1> QED
  BY <1>1 DEF Leave, To, ContainerTypeOK, TodoInv

LEMMA RemoveAllFacts ==
    ASSUME ContainerTypeOK, NEW t \in Containers, NEW dir, RemoveAll(t, dir)
    PROVE  /\ etc' \in [Containers -> [Places -> Nodes]]
           /\ \A u \in Containers, path \in Places :
                etc'[u][path] = etc[u][path] \/ etc'[u][path] = Absent
           /\ \A path \in Places : Under(path, dir) => etc'[t][path] = Absent
<1> DEFINE new == [path \in Places |-> IF Under(path, dir) THEN Absent ELSE etc[t][path]]
<1>1. etc \in [Containers -> [Places -> Nodes]]
  BY DEF ContainerTypeOK
<1>2. new \in [Places -> Nodes]
  BY <1>1, NodeFacts
<1>3. /\ \A path \in Places : new[path] = etc[t][path] \/ new[path] = Absent
      /\ \A path \in Places : Under(path, dir) => new[path] = Absent
  OBVIOUS
<1>4. etc' = [etc EXCEPT ![t] = new]
  BY DEF RemoveAll
<1> HIDE DEF new
<1> QED
  BY <1>1, <1>2, <1>3, <1>4

\* The steps of one script.
Script(t) ==
    \/ \E anew \in BOOLEAN : Start(t, anew)
    \/ Check(t) \/ Copy(t) \/ Copied(t) \/ ReadManifest(t) \/ RemoveLine(t) \/ Exec(t)
    \/ Kill(t)

\* What all of them leave to be shown.
ScriptTyped(t) ==
    /\ etc' \in [Containers -> [Places -> Nodes]]
    /\ step' \in [Containers -> Steps]
    /\ todo' \in [Containers -> Seq(Paths)]
    /\ failed' \in [Containers -> BOOLEAN]
    /\ used' \in [Containers -> Nodes]
    /\ lines' \in [Containers -> SUBSET Listed]
    /\ starts' \in [Containers -> 0..MaxStarts]
    /\ steady' \in [Containers -> BOOLEAN]
    /\ UNCHANGED apart
    /\ \A u \in Containers :
         /\ todo'[u] \in Seq(Of(u))
         /\ step'[u] \in {"read", "remove", "running"} => etc'[u][ManifestPath(u)] = Absent

LEMMA StartStep ==
    ASSUME EntryTyped, NEW t \in Containers, NEW anew \in BOOLEAN, Start(t, anew)
    PROVE  ScriptTyped(t)
<1>1. ContainerTypeOK /\ TodoInv
  BY DEF EntryTyped
<1>2. step' \in [Containers -> Steps] /\ step' = [step EXCEPT ![t] = "check"]
  BY <1>1 DEF Start, To, ContainerTypeOK, Steps
<1>3. etc' \in [Containers -> [Places -> Nodes]] /\ \A u \in Containers \ {t} : etc'[u] = etc[u]
  <2>1. Fresh(t) \in [Places -> Nodes]
    BY FreshFacts
  <2> QED
    BY <1>1, <2>1 DEF Start, ContainerTypeOK
<1>4. starts' \in [Containers -> 0..MaxStarts]
  <2>1. starts \in [Containers -> 0..MaxStarts] /\ MaxStarts \in Nat
    BY <1>1, ImageAssumption DEF ContainerTypeOK
  <2>2. starts[t] + 1 \in 0..MaxStarts
    BY <2>1 DEF Start
  <2> QED
    BY <2>1, <2>2 DEF Start
<1>5. steady' \in [Containers -> BOOLEAN]
  <2> DEFINE alone == \A g \in Gens : ~Running(g)
  <2>1. alone \in BOOLEAN
    OBVIOUS
  <2>2. steady' = [steady EXCEPT ![t] = alone] /\ steady \in [Containers -> BOOLEAN]
    BY <1>1 DEF Start, ContainerTypeOK
  <2> HIDE DEF alone
  <2> QED
    BY <2>1, <2>2, SteadyTyped
<1>6. UNCHANGED <<todo, failed, used, lines, apart>>
  BY DEF Start
<1> QED
  BY <1>1, <1>2, <1>3, <1>4, <1>5, <1>6 DEF ScriptTyped, ContainerTypeOK, TodoInv

LEMMA CheckStep ==
    ASSUME EntryTyped, NEW t \in Containers, Check(t)
    PROVE  ScriptTyped(t)
<1>1. ContainerTypeOK /\ TodoInv
  BY DEF EntryTyped
<1>2. UNCHANGED <<etc, used, starts, apart>>
  BY DEF Check
<1>3. CASE ManifestOf(t).kind = "regular"
  <2>1. step' \in [Containers -> Steps] /\ step' = [step EXCEPT ![t] = "copy"]
    BY <1>1, <1>3 DEF Check, To, ContainerTypeOK, Steps
  <2>2. << <<t>> >> \in Seq(Of(t)) /\ << <<t>> >> \in Seq(Paths)
    BY ContainerFacts DEF Of
  <2>3. todo' = [todo EXCEPT ![t] = << <<t>> >>] /\ UNCHANGED <<failed, lines, steady>>
    BY <1>3 DEF Check
  <2>4. todo' \in [Containers -> Seq(Paths)] /\ \A u \in Containers : todo'[u] \in Seq(Of(u))
    BY <1>1, <2>2, <2>3 DEF ContainerTypeOK, TodoInv
  <2> QED
    BY <1>1, <1>2, <1>3, <2>1, <2>3, <2>4 DEF ScriptTyped, ContainerTypeOK, TodoInv
<1>4. CASE ManifestOf(t).kind # "regular"
  <2>1. Leave(t, "off") /\ "off" \in Steps
    BY <1>4 DEF Check, Steps
  <2> QED
    BY <1>1, <1>2, <2>1, LeaveFacts DEF ScriptTyped, ContainerTypeOK, TodoInv
<1> QED
  BY <1>3, <1>4

LEMMA CopyStep ==
    ASSUME EntryTyped, NEW t \in Containers, Copy(t)
    PROVE  ScriptTyped(t)
<1> DEFINE path  == Head(todo[t])
           below == IF disk[path] = Dir THEN SetToSeq(Children(path)) ELSE << >>
<1>1. ContainerTypeOK /\ TodoInv
  BY DEF EntryTyped
<1>2. UNCHANGED <<step, used, lines, starts, steady, apart>> /\ step[t] = "copy"
  BY DEF Copy
<1>3. path \in Of(t) /\ Tail(todo[t]) \in Seq(Of(t))
  <2>1. todo[t] \in Seq(Of(t)) /\ todo[t] # << >>
    BY <1>1 DEF Copy, TodoInv
  <2> QED
    BY <2>1
<1>4. path \in Paths /\ path \in Places /\ disk[path] \in Nodes
  BY <1>1, <1>3 DEF Of, Places, ContainerTypeOK, TypeOK
<1>5. below \in Seq(Of(t))
  BY <1>3, ListingFacts
<1>6. \/ /\ etc' = [etc EXCEPT ![t][Lands(t, path)] = disk[path]]
         /\ todo' = [todo EXCEPT ![t] = below \o Tail(todo[t])]
         /\ UNCHANGED failed
      \/ /\ todo' = [todo EXCEPT ![t] = Tail(todo[t])]
         /\ failed' = [failed EXCEPT ![t] = TRUE]
         /\ UNCHANGED etc
  BY DEF Copy
<1> HIDE DEF path, below
<1>7. below \o Tail(todo[t]) \in Seq(Of(t))
  BY <1>3, <1>5, ConcatFacts
<1>8. \A u \in Containers : todo'[u] \in Seq(Of(u))
  BY <1>1, <1>3, <1>6, <1>7 DEF ContainerTypeOK, TodoInv
<1>9. todo' \in [Containers -> Seq(Paths)]
  <2>1. below \o Tail(todo[t]) \in Seq(Paths) /\ Tail(todo[t]) \in Seq(Paths)
    BY <1>3, <1>7, OfTyped
  <2>2. todo \in [Containers -> Seq(Paths)]
    BY <1>1 DEF ContainerTypeOK
  <2> QED
    BY <1>6, <2>1, <2>2
<1>10. failed' \in [Containers -> BOOLEAN]
  BY <1>1, <1>6 DEF ContainerTypeOK
<1>11. etc' \in [Containers -> [Places -> Nodes]] /\ \A u \in Containers \ {t} : etc'[u] = etc[u]
  <2>1. etc \in [Containers -> [Places -> Nodes]]
    BY <1>1 DEF ContainerTypeOK
  <2> DEFINE land == Lands(t, path)
  <2> HIDE DEF land
  <2>2. [etc[t] EXCEPT ![land] = disk[path]] \in [Places -> Nodes]
    BY <1>4, <2>1
  <2>3. UNCHANGED etc \/ etc' = [etc EXCEPT ![t] = [etc[t] EXCEPT ![land] = disk[path]]]
    BY <1>6 DEF land
  <2> QED
    BY <2>1, <2>2, <2>3
<1> QED
  BY <1>1, <1>2, <1>8, <1>9, <1>10, <1>11 DEF ScriptTyped, ContainerTypeOK, TodoInv

LEMMA CopiedStep ==
    ASSUME EntryTyped, NEW t \in Containers, Copied(t)
    PROVE  ScriptTyped(t)
<1>1. ContainerTypeOK /\ TodoInv
  BY DEF EntryTyped
<1>2. UNCHANGED <<used, starts, apart>> /\ step[t] = "copy"
  BY DEF Copied
<1>3. CASE Leave(t, "off") /\ UNCHANGED etc
  <2>1. "off" \in Steps
    BY DEF Steps
  <2> QED
    BY <1>1, <1>2, <1>3, <2>1, LeaveFacts DEF ScriptTyped, ContainerTypeOK, TodoInv
<1>4. CASE /\ To(t, "read")
           /\ RemoveAll(t, <<t, ".radius-director">>)
           /\ UNCHANGED <<todo, failed, lines, steady>>
  <2>1. step' \in [Containers -> Steps] /\ step' = [step EXCEPT ![t] = "read"]
    BY <1>1, <1>4 DEF To, ContainerTypeOK, Steps
  <2>2. etc' \in [Containers -> [Places -> Nodes]]
    BY <1>1, <1>4, RemoveAllFacts
  <2>3. \A u \in Containers :
          etc'[u][ManifestPath(u)] = etc[u][ManifestPath(u)] \/ etc'[u][ManifestPath(u)] = Absent
    BY <1>1, <1>4, RemoveAllFacts, ContainerFacts
  <2>4. etc'[t][ManifestPath(t)] = Absent
    BY <1>1, <1>4, RemoveAllFacts, ContainerFacts, ManifestUnder
  <2> QED
    BY <1>1, <1>2, <1>4, <2>1, <2>2, <2>3, <2>4 DEF ScriptTyped, ContainerTypeOK, TodoInv
<1> QED
  BY <1>3, <1>4 DEF Copied

LEMMA ReadManifestStep ==
    ASSUME EntryTyped, NEW t \in Containers, ReadManifest(t)
    PROVE  ScriptTyped(t)
<1>1. ContainerTypeOK /\ TodoInv /\ TypeOK
  BY DEF EntryTyped, ContainerTypeOK
<1>2. UNCHANGED <<etc, todo, failed, starts, steady, apart>> /\ step[t] = "read"
  BY DEF ReadManifest
<1>3. step' \in [Containers -> Steps] /\ step' = [step EXCEPT ![t] = "remove"]
  BY <1>1 DEF ReadManifest, To, ContainerTypeOK, Steps
<1>4. ManifestOf(t) \in Nodes
  BY <1>1, AtTyped DEF ManifestOf
<1>5. used' \in [Containers -> Nodes]
  BY <1>1, <1>4 DEF ReadManifest, ContainerTypeOK
<1>6. lines' \in [Containers -> SUBSET Listed]
  <2>1. PICK found \in Readings(ManifestOf(t), t) : lines' = [lines EXCEPT ![t] = found]
    BY DEF ReadManifest
  <2>2. found \in SUBSET Listed
    BY <1>1, <1>4, ReadingsFacts
  <2> QED
    BY <1>1, <2>1, <2>2 DEF ContainerTypeOK
<1> QED
  BY <1>1, <1>2, <1>3, <1>5, <1>6 DEF ScriptTyped, ContainerTypeOK, TodoInv

LEMMA RemoveLineStep ==
    ASSUME EntryTyped, NEW t \in Containers, RemoveLine(t)
    PROVE  ScriptTyped(t)
<1>1. ContainerTypeOK /\ TodoInv
  BY DEF EntryTyped
<1>2. UNCHANGED <<step, todo, failed, used, starts, steady, apart>>
  BY DEF RemoveLine
<1>3. PICK r \in lines[t] : RemoveAll(t, Spot(etc[t], r)) /\ lines' = [lines EXCEPT ![t] = lines[t] \ {r}]
  BY DEF RemoveLine
<1>4. lines' \in [Containers -> SUBSET Listed]
  BY <1>1, <1>3 DEF ContainerTypeOK
<1>5. etc' \in [Containers -> [Places -> Nodes]]
  BY <1>1, <1>3, RemoveAllFacts
<1>6. \A u \in Containers :
        etc'[u][ManifestPath(u)] = etc[u][ManifestPath(u)] \/ etc'[u][ManifestPath(u)] = Absent
  BY <1>1, <1>3, RemoveAllFacts, ContainerFacts
<1> QED
  BY <1>1, <1>2, <1>4, <1>5, <1>6 DEF ScriptTyped, ContainerTypeOK, TodoInv

LEMMA ExecStep ==
    ASSUME EntryTyped, NEW t \in Containers, Exec(t)
    PROVE  ScriptTyped(t)
<1>1. ContainerTypeOK /\ TodoInv
  BY DEF EntryTyped
<1>2. UNCHANGED <<etc, used, starts, apart>> /\ step[t] = "remove"
  BY DEF Exec
<1>3. Leave(t, "running") /\ "running" \in Steps
  BY DEF Exec, Steps
<1> QED
  BY <1>1, <1>2, <1>3, LeaveFacts DEF ScriptTyped, ContainerTypeOK, TodoInv

LEMMA KillStep ==
    ASSUME EntryTyped, NEW t \in Containers, Kill(t)
    PROVE  ScriptTyped(t)
<1>1. ContainerTypeOK /\ TodoInv
  BY DEF EntryTyped
<1>2. UNCHANGED <<etc, starts, apart>> /\ used' = [used EXCEPT ![t] = Absent]
  BY DEF Kill
<1>3. Leave(t, "off") /\ "off" \in Steps
  BY DEF Kill, Steps
<1>4. used' \in [Containers -> Nodes]
  BY <1>1, <1>2, NodeFacts DEF ContainerTypeOK
<1> QED
  BY <1>1, <1>2, <1>3, <1>4, LeaveFacts DEF ScriptTyped, ContainerTypeOK, TodoInv

\* A generate, or a step that changes nothing of the writer.
LEMMA TypedGenerate ==
    ASSUME EntryTyped, Generate
    PROVE  EntryTyped'
<1>1. ControlInv /\ ContainerTypeOK /\ TodoInv
  BY DEF EntryTyped
<1>2. Next /\ UNCHANGED container
  BY DEF Generate
<1>3. ControlInv' /\ TypeOK'
  BY <1>1, <1>2, ControlInvStep DEF ControlInv
<1>4. steady' \in [Containers -> BOOLEAN]
  <2> DEFINE idle == \A g \in Gens : ~Running(g)'
  <2>1. steady' = [t \in Containers |-> steady[t] /\ idle]
    BY DEF Generate
  <2>2. \A t \in Containers : (steady[t] /\ idle) \in BOOLEAN
    OBVIOUS
  <2> HIDE DEF idle
  <2> QED
    BY <2>1, <2>2
<1>5. apart' \in BOOLEAN
  <2> DEFINE still == \A g, h \in Gens : Running(g)' /\ Running(h)' => g = h
  <2>1. apart' = (apart /\ still)
    BY DEF Generate
  <2> HIDE DEF still
  <2> QED
    BY <2>1
<1>6. TodoInv'
  BY <1>1, <1>2 DEF TodoInv, container, Of
<1>7. ContainerTypeOK'
  BY <1>1, <1>2, <1>3, <1>4, <1>5 DEF ContainerTypeOK, container
<1> QED
  BY <1>3, <1>6, <1>7 DEF EntryTyped

LEMMA TypedScript ==
    ASSUME EntryTyped, NEW t \in Containers, Script(t)
    PROVE  EntryTyped' /\ UNCHANGED vars /\ UNCHANGED apart
<1>1. UNCHANGED vars
  BY DEF Script, Start, Check, Copy, Copied, ReadManifest, RemoveLine, Exec, Kill
<1>2. ScriptTyped(t)
  BY StartStep, CheckStep, CopyStep, CopiedStep, ReadManifestStep, RemoveLineStep,
     ExecStep, KillStep DEF Script
<1>3. ControlInv' /\ TypeOK'
  BY <1>1, ControlInvStep DEF ControlInv, EntryTyped
<1>4. apart' \in BOOLEAN /\ UNCHANGED apart
  BY <1>2 DEF ScriptTyped, EntryTyped, ContainerTypeOK
<1>5. ContainerTypeOK' /\ TodoInv'
  BY <1>2, <1>3, <1>4 DEF ScriptTyped, ContainerTypeOK, TodoInv, Of
<1> QED
  BY <1>1, <1>3, <1>4, <1>5 DEF EntryTyped

LEMMA TypedInit == EInit => EntryTyped
<1> SUFFICES ASSUME EInit PROVE EntryTyped
  OBVIOUS
<1>1. ControlInv /\ TypeOK
  BY ControlInvInit DEF EInit, ControlInv
<1>2. 0 \in 0..MaxStarts /\ "off" \in Steps /\ Absent \in Nodes /\ << >> \in Seq(Paths)
  BY ImageAssumption, NodeFacts DEF Steps
<1>3. etc \in [Containers -> [Places -> Nodes]]
  BY FreshFacts DEF EInit
<1>4. ContainerTypeOK
  BY <1>1, <1>2, <1>3 DEF EInit, ContainerTypeOK
<1>5. TodoInv
  BY DEF EInit, TodoInv
<1> QED
  BY <1>1, <1>4, <1>5 DEF EntryTyped

LEMMA TypedStep == EntryTyped /\ [ENext]_allvars => EntryTyped' /\ UNCHANGED conf
<1> SUFFICES ASSUME EntryTyped, [ENext]_allvars PROVE EntryTyped' /\ UNCHANGED conf
  OBVIOUS
<1>0. TypeOK
  BY DEF EntryTyped, ControlInv
<1>1. CASE Generate
  <2>1. [Next]_vars
    BY <1>1 DEF Generate
  <2> QED
    BY <1>0, <1>1, <2>1, TypedGenerate, ConfStays
<1>2. CASE \E t \in Containers : Script(t)
  BY <1>2, TypedScript DEF vars
<1>3. CASE UNCHANGED allvars
  <2>1. ControlInv' /\ TypeOK'
    BY <1>3, ControlInvStep DEF allvars, EntryTyped, ControlInv
  <2> QED
    BY <1>3, <2>1 DEF allvars, vars, container, EntryTyped, ContainerTypeOK, TodoInv, Of
<1> QED
  BY <1>1, <1>2, <1>3 DEF ENext, Script

\* entrypoint.sh, cp -a and rm -rf keep the container's files in order, and
\* FreeRADIUS never finds the manifest among its configuration.
THEOREM ContainerTypeCorrect == ESpec => []ContainerTypeOK
<1>1. EntryTyped => ContainerTypeOK
  BY DEF EntryTyped
<1> QED
  BY <1>1, TypedInit, TypedStep, PTL DEF ESpec

-----------------------------------------------------------------------------
\* Where links are apart, no link leads to or from a manifest.

\* The script, once it has found the manifest, finds it again.
FoundInv ==
    \A t \in Containers : step[t] \in {"copy", "read"} => disk[ManifestPath(t)].kind = "regular"

EntryInv == EntryTyped /\ DiskInv /\ FoundInv

LEMMA ManifestStraight ==
    ASSUME DiskInv, NEW t \in Containers
    PROVE  ManifestOf(t) = disk[ManifestPath(t)]
<1> DEFINE m == ManifestPath(t)
<1>1. TypeOK /\ LinksApart /\ PlacedInv
  BY DEF DiskInv, ControlInv
<1>2. m \in Paths /\ m \in Seq(Label) \ {<< >>} /\ Head(m) = t
  <2>1. m \in Paths /\ Head(m) = t
    BY ContainerFacts, TenantManifest
  <2> QED
    BY <2>1, PathsTyped
<1>3. PICK n \in Names : t \in TenantIds(n)
  BY ContainerFacts
<1>4. ASSUME NEW q \in Parents(m) \cup {m}, IsLink(At(disk, q)) PROVE FALSE
  <2>1. q \in Paths /\ IsLink(disk[q])
    BY <1>1, <1>4, NodeFacts DEF TypeOK, At, IsLink
  <2>2. PICK h \in Gens : \E i \in DOMAIN Jobs(Loaded(h)) :
          Jobs(Loaded(h))[i].kind = "symlink" /\ Jobs(Loaded(h))[i].path = q
    BY <1>1, <2>1 DEF PlacedInv
  <2>3. PICK i \in DOMAIN Jobs(Loaded(h)) :
          Jobs(Loaded(h))[i].kind = "symlink" /\ Jobs(Loaded(h))[i].path = q
    BY <2>2
  <2>4. conf[h] \in Names
    BY <1>1 DEF TypeOK
  <2>5. q # m
    BY <2>3, <2>4, ContainerFacts DEF ManifestKind, Loaded
  <2>6. Head(q) = t
    <3>1. /\ q \in Seq(Label) \ {<< >>} /\ \A k \in 1..Len(q) : q[k] = m[k]
      BY <1>2, <2>5, ParentsMean
    <3>2. 1 \in 1..Len(q)
      BY <3>1
    <3> QED
      BY <1>2, <3>1, <3>2
  <2>7. PICK j \in 1..(i - 1) : Jobs(Loaded(h))[j] = ManifestJob(t)
    BY <1>3, <2>3, <2>4, <2>5, <2>6, ManifestFirst DEF Loaded
  <2>8. j \in DOMAIN Jobs(Loaded(h)) /\ Jobs(Loaded(h))[j].path = m
    <3>1. DOMAIN Jobs(Loaded(h)) = 1..Len(Jobs(Loaded(h))) /\ Len(Jobs(Loaded(h))) \in Nat
      BY <2>4, JobsFacts DEF Loaded
    <3>2. j \in 1..Len(Jobs(Loaded(h)))
      BY <2>3, <3>1
    <3> QED
      BY <2>7, <3>1, <3>2 DEF ManifestJob
  <2>9. q \notin Parents(m)
    BY <1>1, <2>3, <2>8, Apart
  <2> QED
    BY <1>4, <2>5, <2>9
<1>5. Enter(disk, m) = m
  BY <1>4, EnterStays
<1> QED
  BY <1>1, <1>2, <1>5 DEF ManifestOf, At, TypeOK

\* A manifest that is there remains there: generate writes over it.
LEMMA ManifestStays ==
    ASSUME DiskInv, [Next]_vars, NEW path \in Paths, ManifestKind(path),
           disk[path].kind = "regular"
    PROVE  disk'[path].kind = "regular"
<1>1. TypeOK /\ disk[path] \in Nodes
  BY DEF DiskInv, ControlInv, TypeOK
<1>2. disk[path] \notin {Absent, Dir}
  BY <1>1, KindFacts, NodeFacts
<1>3. CASE UNCHANGED vars
  BY <1>3 DEF vars
<1>4. CASE Next
  <2>1. PICK g \in Gens : Step(g)
    BY <1>4 DEF Next, Step
  <2>2. CASE Running(g) /\ path = Here(g) /\ disk'[path] = Dir
    <3>1. Changes(g)
      BY <1>1, <1>2, <2>1, <2>2, StepForm
    <3>2. ~MakesParents(g)
      <4>1. path \notin Parents(path)
        BY <1>1, <2>2, HereFacts
      <4>2. MakesParents(g) => disk'[path] = disk[path]
        BY <2>2, <4>1 DEF MakesParents
      <4> QED
        BY <1>2, <2>2, <4>2
    <3>3. pc[g] \in {"unlink", "open", "fill", "link"}
      BY <3>1, <3>2 DEF Changes, Removes, Opens, Closes, Links
    <3>4. PICK node \in Nodes : Puts(g, node)
      BY <1>1, <2>2, <3>1, <3>2, NodePut DEF Changes
    <3>5. node = Dir
      BY <1>1, <2>2, <3>4, PutsFacts
    <3>6. ~Puts(g, Dir)
      <4>1. \A other : Puts(g, other) => other = Dir
        BY <1>1, <2>2, PutsFacts
      <4>2. /\ Absent # Dir /\ \A h, to : Symlink(h, to) # Dir
            /\ \A a, b, c : Regular(a, b, c) # Dir
        BY DEF Absent, Dir, Symlink, Regular
      <4> QED
        BY <3>1, <3>2, <4>1, <4>2 DEF Changes, Removes, Opens, Closes, Links, Filled, Torn
    <3> QED
      BY <3>4, <3>5, <3>6
  <2>3. CASE path # Here(g)
    BY <1>2, <2>1, <2>3, ElsewhereStays
  <2>4. CASE ~Running(g)
    BY <1>1, <2>1, <2>4, StepForm
  <2> QED
    BY <2>1, <2>2, <2>3, <2>4, ManifestStep
<1> QED
  BY <1>3, <1>4

\* Where links are apart.
LEMMA EntryStep == EntryInv /\ [ENext]_allvars => EntryInv'
<1> SUFFICES ASSUME EntryInv, [ENext]_allvars PROVE EntryInv'
  OBVIOUS
<1>1. EntryTyped /\ DiskInv /\ FoundInv /\ EntryTyped'
  BY TypedStep DEF EntryInv
<1>2. CASE Generate
  <2>1. Next /\ step' = step /\ DiskInv'
    BY <1>1, <1>2, DiskInvStep DEF Generate, container
  <2>2. \A t \in Containers :
          disk[ManifestPath(t)].kind = "regular" => disk'[ManifestPath(t)].kind = "regular"
    BY <1>1, <2>1, ContainerFacts, ManifestStays
  <2> QED
    BY <1>1, <2>1, <2>2 DEF EntryInv, FoundInv
<1>3. ASSUME NEW t \in Containers, Script(t) PROVE EntryInv'
  <2>1. UNCHANGED vars /\ DiskInv' /\ step \in [Containers -> Steps]
    BY <1>1, <1>3, TypedScript, DiskInvStep DEF EntryTyped, ContainerTypeOK
  <2>2. ASSUME NEW u \in Containers, step'[u] \in {"copy", "read"}
        PROVE  step[u] \in {"copy", "read"} \/ ManifestOf(u).kind = "regular"
    BY <1>3, <2>1, <2>2 DEF Script, Start, Check, Copy, Copied, ReadManifest, RemoveLine, Exec,
                            Kill, Leave, To
  <2>3. disk' = disk
    BY <2>1 DEF vars
  <2>4. FoundInv'
    BY <1>1, <2>2, <2>3, ManifestStraight DEF FoundInv
  <2> QED
    BY <1>1, <2>1, <2>4 DEF EntryInv
<1>4. CASE UNCHANGED allvars
  <2>1. UNCHANGED vars /\ step' = step
    BY <1>4 DEF allvars, container
  <2>2. DiskInv' /\ disk' = disk
    BY <1>1, <2>1, DiskInvStep DEF vars
  <2> QED
    BY <1>1, <2>1, <2>2 DEF EntryInv, FoundInv
<1> QED
  BY <1>2, <1>3, <1>4 DEF ENext, Script

LEMMA EntryInit == EInit /\ LinksApart => EntryInv
<1>1. EInit => FoundInv
  BY DEF EInit, FoundInv
<1> QED
  BY <1>1, TypedInit, DiskInvInit DEF EInit, EntryInv

\* The inductive invariant of the scripts, where links are apart: the one of the
\* writer, the types, and that a script which has seen the manifest will find
\* one to read.
THEOREM EntryInvariant == ESpec => [](LinksApart => EntryInv)
<1>1. EntryTyped /\ (LinksApart => EntryInv) /\ [ENext]_allvars => (LinksApart => EntryInv)'
  BY TypedStep, LinksApartStays, EntryStep
<1> QED
  BY <1>1, EntryInit, TypedInit, TypedStep, PTL DEF ESpec

-----------------------------------------------------------------------------
\* The manifest a container has read is never older than its files, as long as
\* no two generates have been at work at once.

\* Nothing in the container of t is from a generation after l.
Covers(l, t) ==
    \A path \in Places : \A h \in HandsOf(etc[t][path]) \cap Gens : h <= l

\* What a container has is from generations that have begun, and none of them
\* is after the one at work.
EtcInv ==
    \A t \in Containers : \A path \in Places : \A h \in HandsOf(etc[t][path]) \cap Gens :
        /\ pc[h] # "idle"
        /\ \A g \in Gens : Running(g) => h <= g

\* One generation with a hand in the manifest is as young as anything of the
\* tenant, in the tree and in the container.
LedInv ==
    \A t \in Containers :
        disk[ManifestPath(t)].kind = "regular" => \E l \in Gens : Leads(l, t) /\ Covers(l, t)

\* The same of the manifest that was read and the container.
UsedInv ==
    \A t \in Containers :
        step[t] \in {"remove", "running"} => \E l \in Hands(used[t]) \cap Gens : Covers(l, t)

ApartInv == apart => OneAtATime /\ LoneInv /\ EtcInv /\ LedInv /\ UsedInv

LEMMA NoHands ==
    /\ HandsOf(Absent) = {}
    /\ \A t \in Containers : \A path \in Places : HandsOf(Fresh(t)[path]) \cap Gens = {}
<1>1. HandsOf(Absent) = {}
  BY DEF HandsOf, IsFile, IsLink, Absent
<1> QED
  BY <1>1, FreshFacts DEF HandsOf

\* A script brings into its container what the tree of its tenant has, and
\* only while it copies, with the manifest in the tree.
LEMMA EtcHands ==
    ASSUME EntryTyped, NEW t \in Containers, Script(t), NEW u \in Containers, NEW path \in Places
    PROVE  \/ HandsOf(etc'[u][path]) \cap Gens \subseteq HandsOf(etc[u][path])
           \/ /\ u = t /\ step[t] = "copy"
              /\ \E from \in Of(t) : HandsOf(etc'[u][path]) = HandsOf(disk[from])
<1>1. ContainerTypeOK /\ TodoInv
  BY DEF EntryTyped
<1>2. etc \in [Containers -> [Places -> Nodes]]
  BY <1>1 DEF ContainerTypeOK
<1>3. ASSUME NEW anew \in BOOLEAN, Start(t, anew)
      PROVE  HandsOf(etc'[u][path]) \cap Gens \subseteq HandsOf(etc[u][path])
  <2>1. etc' = etc \/ etc' = [etc EXCEPT ![t] = Fresh(t)]
    BY <1>3 DEF Start
  <2>2. etc'[u][path] = etc[u][path] \/ (u = t /\ etc'[u][path] = Fresh(t)[path])
    BY <1>2, <2>1
  <2> QED
    BY <2>2, NoHands
<1>4. CASE Check(t) \/ ReadManifest(t) \/ Exec(t) \/ Kill(t)
  BY <1>4 DEF Check, ReadManifest, Exec, Kill
<1>5. ASSUME NEW dir, RemoveAll(t, dir)
      PROVE  HandsOf(etc'[u][path]) \cap Gens \subseteq HandsOf(etc[u][path])
  BY <1>1, <1>5, RemoveAllFacts, NoHands
<1>6. CASE Copied(t) \/ RemoveLine(t)
  <2>1. UNCHANGED etc \/ \E dir : RemoveAll(t, dir)
    BY <1>6 DEF Copied, RemoveLine
  <2> QED
    BY <1>5, <2>1
<1>7. CASE Copy(t)
  <2> DEFINE from == Head(todo[t])
  <2> DEFINE land == Lands(t, from)
  <2> HIDE DEF land
  <2>1. UNCHANGED etc \/ etc' = [etc EXCEPT ![t] = [etc[t] EXCEPT ![land] = disk[from]]]
    BY <1>7 DEF Copy, land
  <2>2. from \in Of(t) /\ step[t] = "copy"
    <3>1. todo[t] \in Seq(Of(t)) /\ todo[t] # << >>
      BY <1>1, <1>7 DEF Copy, TodoInv
    <3> QED
      BY <1>7, <3>1 DEF Copy
  <2> HIDE DEF from
  <2>3. etc'[u][path] = etc[u][path] \/ (u = t /\ etc'[u][path] = disk[from])
    BY <1>2, <2>1
  <2> QED
    BY <2>2, <2>3
<1> QED
  BY <1>3, <1>4, <1>6, <1>7 DEF Script

LEMMA ApartInvInit == EInit => ApartInv
<1> SUFFICES ASSUME EInit PROVE ApartInv
  OBVIOUS
<1>1. Init
  BY DEF EInit
<1>2. OneAtATime /\ LoneInv /\ LeadInv
  BY <1>1, LoneInvInit, LeadInvInit DEF Init, OneAtATime, Running
<1>3. ASSUME NEW t \in Containers, NEW path \in Places
      PROVE  HandsOf(etc[t][path]) \cap Gens = {}
  BY NoHands DEF EInit
<1>4. EtcInv
  BY <1>3 DEF EtcInv
<1>5. \A l \in Gens, t \in Containers : Covers(l, t)
  BY <1>3 DEF Covers
<1>6. LedInv
  BY <1>2, <1>5, ContainerFacts DEF LedInv, LeadInv
<1>7. UsedInv
  BY DEF EInit, UsedInv
<1> QED
  BY <1>2, <1>4, <1>6, <1>7 DEF ApartInv

LEMMA ApartGenerate ==
    ASSUME EntryInv, ApartInv, Generate
    PROVE  ApartInv'
<1> SUFFICES ASSUME apart' PROVE (OneAtATime /\ LoneInv /\ EtcInv /\ LedInv /\ UsedInv)'
  BY DEF ApartInv
<1>1. apart /\ OneAtATime'
  BY DEF Generate, OneAtATime
<1>2. DiskInv /\ OneAtATime /\ LoneInv /\ EtcInv /\ LedInv /\ UsedInv
  BY <1>1 DEF ApartInv, EntryInv
<1>3. Next /\ UNCHANGED container
  BY DEF Generate
<1>4. etc' = etc /\ used' = used /\ step' = step
  BY <1>3 DEF container
<1>5. LoneInv'
  BY <1>2, <1>3, LoneInvStep
<1>6. PICK g \in Gens : Step(g)
  BY <1>3 DEF Next, Step
<1>7. \A h \in Gens : pc[h] # "idle" => pc'[h] # "idle"
  BY <1>2, <1>6, ProgramStep, StepForm DEF OthersStay, DiskInv, ControlInv
<1>8. ASSUME NEW h \in Gens, pc[h] # "idle", \A r \in Gens : Running(r) => h <= r,
             NEW r \in Gens, Running(r)'
      PROVE  h <= r
  <2>1. CASE Running(r)
    BY <1>8, <2>1
  <2>2. CASE ~Running(r)
    <3>1. r = g /\ MayBegin(g)
      BY <1>2, <1>6, <1>8, <2>2, RunsAfter
    <3>2. pc[g] = "idle"
      BY <3>1 DEF MayBegin
    <3>3. ~(g < h)
      BY <1>2, <1>8, <3>2 DEF DiskInv, ControlInv, BeginInv
    <3> QED
      BY <3>1, <3>3, GenAssumption
  <2> QED
    BY <2>1, <2>2
<1>9. EtcInv'
  BY <1>2, <1>4, <1>7, <1>8 DEF EtcInv
<1>10. \A l, t : Covers(l, t)' <=> Covers(l, t)
  BY <1>4 DEF Covers
<1>11. LedInv'
  <2>1. ASSUME NEW t \in Containers, disk'[ManifestPath(t)].kind = "regular"
        PROVE  \E l \in Gens : Leads(l, t)' /\ Covers(l, t)
    <3>1. PICK n \in Names : t \in TenantIds(n)
      BY ContainerFacts
    <3>2. HandsInv /\ PassedInv
      BY <1>2 DEF LoneInv
    <3>3. \/ Running(g) /\ Leads(g, t)'
          \/ /\ disk[ManifestPath(t)].kind = "regular"
             /\ \A l \in Gens : Leads(l, t) => Leads(l, t)'
      BY <1>2, <1>6, <2>1, <3>1, <3>2, LeadStep
    <3>4. Running(g) => Covers(g, t)
      BY <1>2 DEF EtcInv, Covers
    <3> QED
      BY <1>2, <3>3, <3>4 DEF LedInv
  <2> QED
    BY <1>10, <2>1 DEF LedInv
<1>12. UsedInv'
  BY <1>2, <1>4, <1>10 DEF UsedInv
<1> QED
  BY <1>1, <1>5, <1>9, <1>11, <1>12

LEMMA ApartScript ==
    ASSUME EntryInv, ApartInv, NEW t \in Containers, Script(t)
    PROVE  ApartInv'
<1>0. EntryTyped
  BY DEF EntryInv
<1>1. UNCHANGED vars /\ UNCHANGED apart
  BY <1>0, TypedScript
<1> SUFFICES ASSUME apart PROVE (OneAtATime /\ LoneInv /\ EtcInv /\ LedInv /\ UsedInv)'
  BY <1>1 DEF ApartInv
<1>2. DiskInv /\ ContainerTypeOK /\ FoundInv
      /\ OneAtATime /\ LoneInv /\ HandsInv /\ EtcInv /\ LedInv /\ UsedInv
  BY DEF ApartInv, EntryInv, EntryTyped, LoneInv
<1>3. disk' = disk /\ pc' = pc
  BY <1>1 DEF vars
<1>4. OneAtATime' /\ LoneInv'
  BY <1>1, <1>2, <1>3, LoneInvStep DEF OneAtATime, Running
<1>5. EtcInv'
  <2>1. ASSUME NEW u \in Containers, NEW path \in Places,
               NEW h \in HandsOf(etc'[u][path]) \cap Gens
        PROVE  pc[h] # "idle" /\ \A g \in Gens : Running(g) => h <= g
    <3>1. h \in HandsOf(etc[u][path]) \/ \E from \in Paths : h \in HandsOf(disk[from])
      BY <1>0, <2>1, EtcHands DEF Of
    <3> QED
      BY <1>2, <3>1 DEF EtcInv, HandsInv
  <2> QED
    BY <1>3, <2>1 DEF EtcInv, Running
<1>6. ASSUME NEW u \in Containers, NEW l \in Gens, Covers(l, u), u # t \/ step[t] # "copy" \/ Leads(l, u)
      PROVE  Covers(l, u)'
  <2>1. ASSUME NEW path \in Places, NEW h \in HandsOf(etc'[u][path]) \cap Gens
        PROVE  h <= l
    <3>1. \/ h \in HandsOf(etc[u][path])
          \/ u = t /\ step[t] = "copy" /\ \E from \in Of(t) : h \in HandsOf(disk[from])
      BY <1>0, <2>1, EtcHands
    <3> QED
      BY <1>6, <2>1, <3>1 DEF Covers, Leads, Of
  <2> QED
    BY <2>1 DEF Covers
<1>7. LedInv'
  <2>1. \A u, l : Leads(l, u)' <=> Leads(l, u)
    BY <1>3 DEF Leads
  <2> QED
    BY <1>2, <1>3, <1>6, <2>1 DEF LedInv
<1>8. UsedInv'
  <2> SUFFICES ASSUME NEW u \in Containers, step'[u] \in {"remove", "running"}
               PROVE  \E l \in Hands(used'[u]) \cap Gens : Covers(l, u)'
    BY DEF UsedInv
  <2>1. step \in [Containers -> Steps] /\ used \in [Containers -> Nodes]
    BY <1>2 DEF ContainerTypeOK
  <2>2. \/ ReadManifest(t) /\ u = t
        \/ /\ step[u] \in {"remove", "running"} /\ used'[u] = used[u]
           /\ u # t \/ step[t] # "copy"
    BY <2>1 DEF Script, Start, Check, Copy, Copied, ReadManifest, RemoveLine, Exec, Kill, Leave, To
  <2>3. CASE ReadManifest(t) /\ u = t
    <3>1. used'[u] = disk[ManifestPath(u)] /\ step[u] = "read"
      BY <1>2, <2>1, <2>3, ManifestStraight DEF ReadManifest
    <3>2. PICK l \in Gens : Leads(l, u) /\ Covers(l, u)
      BY <1>2, <3>1 DEF FoundInv, LedInv
    <3> QED
      BY <1>6, <3>1, <3>2 DEF Leads
  <2>4. CASE /\ step[u] \in {"remove", "running"} /\ used'[u] = used[u]
             /\ u # t \/ step[t] # "copy"
    BY <1>2, <1>6, <2>4 DEF UsedInv
  <2> QED
    BY <2>2, <2>3, <2>4
<1> QED
  BY <1>4, <1>5, <1>7, <1>8

LEMMA ApartInvStep == EntryInv /\ ApartInv /\ [ENext]_allvars => ApartInv'
<1> SUFFICES ASSUME EntryInv, ApartInv, [ENext]_allvars PROVE ApartInv'
  OBVIOUS
<1>1. CASE Generate
  BY <1>1, ApartGenerate
<1>2. CASE \E t \in Containers : Script(t)
  BY <1>2, ApartScript
<1>3. CASE UNCHANGED allvars
  <2>1. vars' = vars /\ etc' = etc /\ used' = used /\ step' = step /\ apart' = apart
    BY <1>3 DEF allvars, container
  <2>2. disk' = disk /\ pc' = pc
    BY <2>1 DEF vars
  <2>3. apart => OneAtATime' /\ LoneInv'
    BY <2>1, <2>2, LoneInvStep DEF ApartInv, EntryInv, OneAtATime, Running
  <2>4. apart => EtcInv' /\ LedInv' /\ UsedInv'
    BY <2>1, <2>2 DEF ApartInv, EtcInv, LedInv, UsedInv, Covers, Leads, Running
  <2> QED
    BY <2>1, <2>3, <2>4 DEF ApartInv
<1> QED
  BY <1>1, <1>2, <1>3 DEF ENext, Script

LEMMA ApartInvHolds == ESpec => [](EntryTyped /\ (LinksApart => EntryInv /\ ApartInv))
<1>1. EInit => EntryTyped /\ (LinksApart => EntryInv /\ ApartInv)
  BY TypedInit, EntryInit, ApartInvInit
<1>2. EntryTyped /\ (LinksApart => EntryInv /\ ApartInv) /\ [ENext]_allvars =>
        (EntryTyped /\ (LinksApart => EntryInv /\ ApartInv))'
  BY TypedStep, LinksApartStays, EntryStep, ApartInvStep
<1> QED
  BY <1>1, <1>2, PTL DEF ESpec

\* Whatever fails or is killed, and whenever a container starts: entrypoint.sh
\* reads the manifest last and generate writes it first, so that where links are
\* apart no file in the container is from a generation younger than the manifest
\* that was read.  Of a manifest that breaks off only some removals are found.
THEOREM RemovalsAreNotOlder == ESpec => []RemovalsNotOlder
<1>1. EntryTyped /\ (LinksApart => EntryInv /\ ApartInv) => RemovalsNotOlder
  <2> SUFFICES ASSUME ApartInv, NEW t \in Containers, step[t] = "running", apart,
                      NEW path \in Places, IsFile(etc[t][path])
               PROVE  \E g \in Hands(used[t]) \cap Gens :
                         \A h \in Hands(etc[t][path]) \cap Gens : h <= g
    BY DEF RemovalsNotOlder
  <2>1. PICK g \in Hands(used[t]) \cap Gens : Covers(g, t)
    BY DEF ApartInv, UsedInv
  <2> QED
    BY <2>1 DEF Covers, HandsOf
<1> QED
  BY <1>1, ApartInvHolds, PTL

-----------------------------------------------------------------------------
\* Paths as sequences.

LEMMA UnderMeans ==
    ASSUME NEW dir \in Seq(Label) \ {<< >>}, NEW path \in Seq(Label) \ {<< >>}
    PROVE  /\ Len(dir) \in Nat \ {0} /\ Len(path) \in Nat \ {0}
           /\ Under(path, dir) <=>
                Len(dir) <= Len(path) /\ \A i \in 1..Len(dir) : path[i] = dir[i]
<1>1. Len(dir) \in Nat \ {0} /\ Len(path) \in Nat \ {0}
  OBVIOUS
<1>2. CASE Len(dir) <= Len(path)
  <2> DEFINE k == Len(dir)
             a == SubSeq(dir, 1, k)
             b == SubSeq(path, 1, k)
  <2>1. k \in 1..Len(dir) /\ k \in 1..Len(path)
    BY <1>1, <1>2
  <2>2. a \in Seq(Label) /\ Len(a) = k /\ \A i \in 1..k : a[i] = dir[i]
    BY <2>1, SubSeqFacts
  <2>3. b \in Seq(Label) /\ Len(b) = k /\ \A i \in 1..k : b[i] = path[i]
    BY <2>1, SubSeqFacts
  <2>4. Under(path, dir) <=> a = b
    BY <1>2 DEF Under, IsPrefix
  <2> HIDE DEF a, b, k
  <2>5. (\A i \in 1..k : path[i] = dir[i]) => a = b
    <3> SUFFICES ASSUME \A i \in 1..k : path[i] = dir[i] PROVE a = b
      OBVIOUS
    <3>1. \A i \in 1..Len(a) : a[i] = b[i]
      BY <2>2, <2>3
    <3> QED
      BY <2>2, <2>3, <3>1, SamePath
  <2>6. a = b => \A i \in 1..k : path[i] = dir[i]
    BY <2>2, <2>3
  <2> QED
    BY <1>1, <1>2, <2>4, <2>5, <2>6 DEF k
<1>3. CASE ~(Len(dir) <= Len(path))
  BY <1>1, <1>3 DEF Under, IsPrefix
<1> QED
  BY <1>2, <1>3

LEMMA ParentsArePaths ==
    ASSUME NEW path \in Paths
    PROVE  Parents(path) \subseteq Paths
<1>1. CASE path \in Leaves
  BY <1>1 DEF Paths
<1>2. ASSUME NEW f \in Leaves, path \in Parents(f)
      PROVE  Parents(path) \subseteq Paths
  BY <1>2, LeavesTyped, ParentsOfParents DEF Paths
<1> QED
  BY <1>1, <1>2 DEF Paths

\* What is below a directory is in it, or below what is in it.
LEMMA NextBelow ==
    ASSUME NEW dir \in Paths, NEW path \in Paths, Under(path, dir), path # dir
    PROVE  /\ dir \in Parents(path)
           /\ \E c \in Paths : /\ Len(c) = Len(dir) + 1 /\ Under(c, dir) /\ Under(path, c)
                               /\ c = path \/ c \in Parents(path)
<1>1. dir \in Seq(Label) \ {<< >>} /\ path \in Seq(Label) \ {<< >>}
  BY PathsTyped
<1>2. /\ Len(dir) \in Nat \ {0} /\ Len(path) \in Nat \ {0}
      /\ Len(dir) <= Len(path) /\ \A i \in 1..Len(dir) : path[i] = dir[i]
  BY <1>1, UnderMeans
<1>3. Len(dir) < Len(path)
  BY <1>1, <1>2, SamePath
<1>4. dir \in Parents(path)
  BY <1>1, <1>2, <1>3, ParentsMean
<1> DEFINE k == Len(dir) + 1
           c == SubSeq(path, 1, k)
<1>5. k \in 1..Len(path) /\ k \in Nat
  BY <1>2, <1>3
<1>6. c \in Seq(Label) \ {<< >>} /\ Len(c) = k /\ \A i \in 1..k : c[i] = path[i]
  BY <1>1, <1>5, SubSeqFacts
<1>7. c = path \/ c \in Parents(path)
  <2> HIDE DEF c
  <2>1. CASE k = Len(path)
    BY <1>1, <1>6, <2>1, SamePath
  <2>2. CASE k < Len(path)
    BY <1>1, <1>6, <2>2, ParentsMean
  <2> QED
    BY <1>2, <1>5, <2>1, <2>2 DEF k
<1> HIDE DEF c
<1>8. Under(path, c)
  BY <1>1, <1>2, <1>5, <1>6, UnderMeans
<1>9. Under(c, dir)
  <2>1. Len(dir) <= Len(c) /\ \A i \in 1..Len(dir) : c[i] = dir[i]
    BY <1>2, <1>6
  <2> QED
    BY <1>1, <1>6, <2>1, UnderMeans
<1>10. c \in Paths
  BY <1>7, ParentsArePaths
<1> QED
  BY <1>4, <1>6, <1>7, <1>8, <1>9, <1>10 DEF k

\* All of a tenant's tree is below its root.
LEMMA UnderRoot ==
    ASSUME NEW t, NEW path \in Of(t)
    PROVE  Under(path, <<t>>)
<1>1. path \in Seq(Label) \ {<< >>} /\ Head(path) = t
  BY PathsTyped DEF Of
<1>2. Len(path) \in Nat \ {0} /\ path[1] = t /\ t \in Label
  BY <1>1
<1> DEFINE dir == <<t>>
<1>3. dir \in Seq(Label) \ {<< >>} /\ Len(dir) = 1 /\ dir[1] = t
  BY <1>2
<1> HIDE DEF dir
<1>4. Under(path, dir)
  BY <1>1, <1>2, <1>3, UnderMeans
<1> QED
  BY <1>4 DEF dir

\* cp visits everything a directory has.
LEMMA ListingIsWhole ==
    ASSUME NEW dir \in Paths, NEW c \in Children(dir)
    PROVE  \E i \in DOMAIN SetToSeq(Children(dir)) : SetToSeq(Children(dir))[i] = c
<1> DEFINE S == Children(dir)
<1>1. IsFiniteSet(S)
  <2>1. S \in SUBSET Paths
    BY DEF Children
  <2> QED
    BY <2>1, FS_Subset, ContainerAssumption
<1> HIDE DEF S
<1>2. Cardinality(S) \in Nat /\ ExistsBijection(1..Cardinality(S), S)
  BY <1>1, FS_CardinalityType
<1> DEFINE T == 1..Cardinality(S)
<1>3. \E f \in [T -> S] : IsInjective(f)
  BY <1>2 DEF ExistsBijection, Bijection, Injection
<1>4. SetToSeq(S) \in [T -> S] /\ IsInjective(SetToSeq(S))
  BY <1>3 DEF SetToSeq
<1>5. SetToSeq(S) \in Injection(T, S)
  BY <1>4 DEF Injection, IsInjective
<1>6. IsFiniteSet(T) /\ Cardinality(T) = Cardinality(S)
  BY <1>2, FS_Interval
<1>7. SetToSeq(S) \in Surjection(T, S)
  BY <1>1, <1>5, <1>6, FS_Injection
<1>8. \E i \in T : SetToSeq(S)[i] = c
  BY <1>7 DEF Surjection, S
<1> QED
  BY <1>4, <1>8 DEF S

-----------------------------------------------------------------------------
\* What a container runs with that starts when generate has succeeded.

\* Whatever is there is in a directory.
TreeInv ==
    \A path \in Paths : disk[path] # Absent => \A q \in Parents(path) : disk[q] = Dir

LEMMA TreeInvInit == Init => TreeInv
<1> SUFFICES ASSUME Init, NEW path \in Paths, disk[path] # Absent, NEW q \in Parents(path)
             PROVE  disk[q] = Dir
  BY DEF TreeInv
<1>1. q \in Paths
  BY ParentsArePaths
<1>2. PICK f \in Foreign : path = f \/ path \in Parents(f)
  BY DEF Init
<1>3. f \in Seq(Label) \ {<< >>}
  BY WantedArePaths, LeavesTyped DEF Wanted
<1>4. q \in Parents(f)
  BY <1>2, <1>3, ParentsOfParents
<1>5. q \notin Foreign
  BY <1>4, PlanAssumption
<1> QED
  BY <1>1, <1>4, <1>5 DEF Init

LEMMA TreePut ==
    ASSUME TypeOK, TreeInv, NEW g \in Gens, Running(g), NEW node, Puts(g, node),
           disk[Here(g)] # Dir, disk[Here(g)] = Absent => Reachable(Here(g))
    PROVE  TreeInv'
<1>1. /\ Here(g) \in Paths /\ disk'[Here(g)] = node
      /\ \A path \in Paths \ {Here(g)} : disk'[path] = disk[path]
  BY HereFacts DEF Puts, TypeOK
<1> SUFFICES ASSUME NEW path \in Paths, disk'[path] # Absent, NEW q \in Parents(path)
             PROVE  disk'[q] = Dir
  BY DEF TreeInv
<1>2. q \in Paths
  BY ParentsArePaths
<1>3. CASE path = Here(g)
  <2>1. q # Here(g)
    BY <1>3, HereFacts
  <2>2. disk[q] = Dir
    <3>1. At(disk, q) = disk[q]
      BY <1>2 DEF At, TypeOK
    <3> QED
      BY <1>1, <1>3, <3>1 DEF TreeInv, Reachable
  <2> QED
    BY <1>1, <1>2, <2>1, <2>2
<1>4. CASE path # Here(g)
  <2>1. disk[q] = Dir
    BY <1>1, <1>4 DEF TreeInv
  <2> QED
    BY <1>1, <1>2, <2>1
<1> QED
  BY <1>3, <1>4

\* A file or a link is made only in a directory.
LEMMA OpensReachable ==
    ASSUME DiskInv, NEW g \in Gens, Step(g), Running(g), disk[Here(g)] = Absent,
           Opens(g) \/ Links(g)
    PROVE  Reachable(Here(g))
<1>1. TypeOK /\ LinksApart /\ PlacedInv /\ KindInv
  BY DEF DiskInv, ControlInv
<1>2. disk' # disk
  <2>1. Absent.kind # "regular"
    BY NodeFacts
  <2>2. Puts(g, Regular({}, {}, {g})) \/ Puts(g, Symlink(g, Job(g).to))
    BY <2>1 DEF Opens, Links
  <2>3. disk'[Here(g)] = Regular({}, {}, {g}) \/ disk'[Here(g)] = Symlink(g, Job(g).to)
    BY <1>1, <2>2, PutsFacts
  <2>4. disk'[Here(g)] # Absent
    BY <2>3 DEF Absent, Regular, Symlink
  <2> QED
    BY <2>4
<1>3. pc[g] \in {"open", "link"}
  BY DEF Opens, Links
<1>4. Open(g) \/ MakeLink(g) \/ UNCHANGED disk
  BY <1>3 DEF Step, Work, MkdirParents, Lstat, Unlink, Fill, Fail, Refuse, Begin, BadRemoval
<1>5. CASE Open(g)
  <2>1. Target(g) = Here(g) /\ At(disk, Target(g)) = Absent
    BY <1>1, <1>5, Straight DEF Open, KindInv
  <2>2. Absent.kind # "regular"
    BY NodeFacts
  <2> QED
    BY <1>1, <1>2, <1>5, <2>1, <2>2, OpenForm
<1>6. CASE MakeLink(g)
  <2>1. There(g) = Here(g)
    BY <1>1, Straight
  <2> QED
    BY <1>1, <1>2, <1>6, <2>1, MakeLinkForm
<1> QED
  BY <1>2, <1>4, <1>5, <1>6

LEMMA TreeStep ==
    ASSUME DiskInv, TreeInv, NEW g \in Gens, Step(g)
    PROVE  TreeInv'
<1>0. TypeOK
  BY DEF DiskInv, ControlInv
<1>1. CASE UNCHANGED disk
  BY <1>1 DEF TreeInv
<1>2. CASE Running(g) /\ MakesParents(g)
  <2>1. \A path \in Paths : disk'[path] = IF path \in Parents(Here(g)) THEN Dir ELSE disk[path]
    BY <1>2 DEF MakesParents
  <2> SUFFICES ASSUME NEW path \in Paths, disk'[path] # Absent, NEW q \in Parents(path)
               PROVE  disk'[q] = Dir
    BY DEF TreeInv
  <2>2. q \in Paths /\ Here(g) \in Paths
    BY <1>0, <1>2, ParentsArePaths, HereFacts
  <2>3. CASE path \in Parents(Here(g))
    <3>1. q \in Parents(Here(g))
      BY <2>2, <2>3, PathsTyped, ParentsOfParents
    <3> QED
      BY <2>1, <2>2, <3>1
  <2>4. CASE path \notin Parents(Here(g))
    BY <2>1, <2>2, <2>4 DEF TreeInv
  <2> QED
    BY <2>3, <2>4
<1>3. CASE Running(g) /\ Removes(g)
  <2>1. /\ Here(g) \in Paths /\ disk'[Here(g)] = Absent
        /\ \A path \in Paths \ {Here(g)} : disk'[path] = disk[path]
    BY <1>0, <1>3, HereFacts, PutsFacts DEF Removes
  <2> SUFFICES ASSUME NEW path \in Paths, disk'[path] # Absent, NEW q \in Parents(path)
               PROVE  disk'[q] = Dir
    BY DEF TreeInv
  <2>2. disk[path] # Absent /\ disk[q] = Dir /\ q \in Paths
    BY <2>1, ParentsArePaths DEF TreeInv
  <2>3. q # Here(g)
    <3>1. IsFile(disk[Here(g)]) \/ Empty(Here(g))
      BY <1>3 DEF Removes, Removable
    <3>2. ~IsFile(Dir)
      BY DEF IsFile, IsLink, Dir
    <3> QED
      BY <2>2, <3>1, <3>2 DEF Empty
  <2> QED
    BY <2>1, <2>2, <2>3
<1>4. CASE Running(g) /\ (Opens(g) \/ Closes(g) \/ Links(g))
  <2>1. PICK node : Puts(g, node)
    BY <1>4 DEF Opens, Closes, Links
  <2>2. disk[Here(g)] = Absent \/ disk[Here(g)].kind = "regular"
    BY <1>4 DEF Opens, Closes, Links, HoldsOpen, HasOpen
  <2>3. disk[Here(g)] # Dir
    BY <2>2, NodeFacts
  <2>4. ASSUME disk[Here(g)] = Absent PROVE Reachable(Here(g))
    <3>1. ~Closes(g)
      BY <2>4, NodeFacts DEF Closes, HoldsOpen, HasOpen
    <3> QED
      BY <1>4, <2>4, <3>1, OpensReachable
  <2> QED
    BY <1>0, <1>4, <2>1, <2>3, <2>4, TreePut
<1> QED
  BY <1>1, <1>2, <1>3, <1>4, StepForm DEF Changes

\* Generations that have ended.

EndInv == \A g \in Gens : outcome[g] # "none" => pc[g] = "done"

\* Who is at work is younger than any that has written something and succeeded.
AgeInv ==
    \A g, h \in Gens :
        outcome[g] = "ok" /\ Jobs(Loaded(g)) # << >> /\ Running(h) => g < h

\* The last that has written anything has its plan on the disk.
Rests(g) ==
    \A h \in Gens : h > g => outcome[h] \in {"none", "refused", "badRemoval"} /\ ~Running(h)

LastInv ==
    \A g \in Gens :
        outcome[g] = "ok" /\ Rests(g) => \A path \in Planned(Loaded(g)) : Whole(path, g)

LEMMA StepEnds ==
    ASSUME TypeOK, NEW g \in Gens, Step(g)
    PROVE  /\ pc[g] # "done"
           /\ outcome'[g] = outcome[g] \/ pc'[g] = "done"
           /\ outcome'[g] = "ok" /\ outcome[g] # "ok" => Running(g) \/ Jobs(Loaded(g)) = << >>
           /\ Running(g) => Running(g)' \/ outcome'[g] \in {"ok", "blocked", "ioError", "crashed"}
<1>1. CASE Refuse(g) \/ Begin(g) \/ BadRemoval(g)
  BY <1>1, EarlyForm DEF Refuse, Begin, BadRemoval, MayBegin, Ends, Goes, Running
<1>2. CASE MkdirParents(g)
  BY <1>2, MkdirParentsForm DEF Ends, Goes, Running
<1>3. CASE Lstat(g)
  BY <1>3, LstatForm DEF Create, Ends, Goes, Running
<1>4. CASE Unlink(g)
  BY <1>4, UnlinkForm DEF Create, Ends, Goes, Running
<1>5. CASE Open(g)
  BY <1>5, OpenForm DEF Ends, Goes, Running
<1>6. CASE Fill(g)
  BY <1>6, FillForm DEF Advances, Ends, Running
<1>7. CASE MakeLink(g)
  BY <1>7, MakeLinkForm DEF Advances, Ends, Running
<1>8. CASE Fail(g)
  BY <1>8, FailForm DEF Ends, Running
<1> QED
  BY <1>1, <1>2, <1>3, <1>4, <1>5, <1>6, <1>7, <1>8 DEF Step, Work

LEMMA EndStep ==
    ASSUME TypeOK, EndInv, NEW g \in Gens, Step(g)
    PROVE  EndInv'
<1>1. OthersStay(g)
  BY ControlForm
<1> QED
  BY <1>1, StepEnds DEF EndInv, OthersStay

LEMMA AgeStep ==
    ASSUME DiskInv, EndInv, AgeInv, OneAtATime, NEW r \in Gens, Step(r)
    PROVE  AgeInv'
<1>1. TypeOK /\ OthersStay(r) /\ EndInv'
  BY ControlForm, EndStep DEF DiskInv, ControlInv
<1>2. \A g \in Gens : Loaded(g)' = Loaded(g)
  BY <1>1 DEF OthersStay, Loaded
<1> SUFFICES ASSUME NEW g \in Gens, NEW h \in Gens, outcome'[g] = "ok",
                    Jobs(Loaded(g)) # << >>, Running(h)'
             PROVE  g < h
  BY <1>2 DEF AgeInv
<1>3. h # r => Running(h)
  BY RunsAfter
<1>4. h = r => Running(r) \/ MayBegin(r)
  BY RunsAfter
<1>5. g # h
  BY <1>1 DEF EndInv, Running
<1>6. CASE g = r
  <2>1. outcome[g] # "ok"
    BY <1>1, <1>6, StepEnds DEF EndInv
  <2>2. Running(g)
    BY <1>1, <1>6, <2>1, StepEnds
  <2> QED
    BY <1>3, <1>5, <1>6, <2>2 DEF OneAtATime
<1>7. CASE g # r
  <2>1. outcome[g] = "ok"
    BY <1>1, <1>7 DEF OthersStay
  <2>2. CASE Running(h)
    BY <2>1, <2>2 DEF AgeInv
  <2>3. CASE MayBegin(h)
    <3>1. pc[h] = "idle" /\ pc[g] = "done"
      BY <2>1, <2>3 DEF MayBegin, EndInv
    <3>2. ~(h < g)
      BY <3>1 DEF DiskInv, ControlInv, BeginInv
    <3> QED
      BY <1>5, <3>2, GenAssumption
  <2> QED
    BY <1>3, <1>4, <2>2, <2>3
<1> QED
  BY <1>6, <1>7

LEMMA LastStep ==
    ASSUME DiskInv, EndInv, AgeInv, LastInv, LoneInv, NEW r \in Gens, Step(r)
    PROVE  LastInv'
<1>1. TypeOK /\ OthersStay(r) /\ [Next]_vars
  BY ControlForm DEF DiskInv, ControlInv, Next, Step
<1>2. \A g \in Gens : Loaded(g)' = Loaded(g)
  BY <1>1 DEF OthersStay, Loaded
<1> SUFFICES ASSUME NEW g \in Gens, outcome'[g] = "ok", Rests(g)',
                    NEW path \in Planned(Loaded(g))
             PROVE  Whole(path, g)'
  BY <1>2 DEF LastInv
<1>3. CASE outcome[g] # "ok"
  BY <1>1, <1>3, SuccessStep DEF LoneInv
<1>4. CASE outcome[g] = "ok"
  <2>1. r # g
    BY <1>1, <1>4, StepEnds DEF EndInv
  <2>2. Jobs(Loaded(g)) # << >>
    BY DEF Planned
  <2>3. ~Running(r)
    <3> SUFFICES ASSUME Running(r) PROVE FALSE
      OBVIOUS
    <3>1. g < r
      BY <1>4, <2>2 DEF AgeInv
    <3>2. r > g
      BY <3>1, GenAssumption
    <3>3. ~Running(r)' /\ outcome'[r] \in {"none", "refused", "badRemoval"}
      BY <3>2 DEF Rests
    <3> QED
      BY <1>1, <3>3, StepEnds
  <2>4. UNCHANGED disk
    BY <1>1, <2>3, StepForm
  <2>5. outcome[r] = "none"
    BY <1>1, StepEnds DEF EndInv
  <2>6. Rests(g)
    BY <1>1, <2>3, <2>5 DEF Rests, OthersStay, Running
  <2> QED
    BY <1>4, <2>4, <2>6 DEF LastInv, Whole
<1> QED
  BY <1>3, <1>4

-----------------------------------------------------------------------------
\* A start that no generate disturbs.

\* cp has still to come by.
Pending(t, path) == \E i \in DOMAIN todo[t] : Under(path, todo[t][i])

Kept(t, path) == ~Under(path, <<t, ".radius-director">>)

\* What is in the tree of t is in its container too.
Same(t, path) == disk[path] # Absent => etc[t][path] = disk[path]

\* The manifest of g wants a path removed.
Doomed(t, g, path) == \E r \in LinesOf(g, t) : Under(path, r)

CopyInv(t) ==
    step[t] = "copy" /\ ~failed[t] => \A path \in Of(t) : Same(t, path) \/ Pending(t, path)

ReadInv(t) ==
    step[t] = "read" => \A path \in Of(t) : Kept(t, path) => Same(t, path)

\* How far the removals are, when the manifest is that of g and all of it.
Removing(t, g) ==
    /\ lines[t] \subseteq LinesOf(g, t)
    /\ \A path \in Places :
         /\ Doomed(t, g, path) =>
              etc[t][path] = Absent \/ \E r \in lines[t] : Under(path, r)
         /\ ~Doomed(t, g, path) /\ path \in Of(t) /\ Kept(t, path) => Same(t, path)

RemoveInv(t) ==
    step[t] = "remove" =>
        /\ disk[ManifestPath(t)].kind = "regular"
        /\ \A g \in Gens :
             disk[ManifestPath(t)] = Regular({g}, {}, {}) /\ ~RemovesThroughLink(g, t) =>
                 Removing(t, g)

Steadily(t) ==
    /\ \A g \in Gens : ~Running(g)
    /\ ~FileOverLink(t) => CopyInv(t) /\ ReadInv(t) /\ RemoveInv(t)

SteadyInv == \A t \in Containers : steady[t] => Steadily(t)

\* A loaded configuration plans a link there.
LinkPath(path) ==
    \E h \in Gens : \E i \in DOMAIN Jobs(Loaded(h)) :
        Jobs(Loaded(h))[i].kind = "symlink" /\ Jobs(Loaded(h))[i].path = path

\* A link in a container is one of its image, or a copy; and where it was copied
\* from there will be no file.
EtcLinkInv ==
    \A t \in Containers : \A path \in Places :
        IsLink(etc[t][path]) =>
            \/ path \in DOMAIN ImageLinks
            \/ LinkPath(path) /\ At(disk, path).kind # "regular"

StartInv ==
    /\ TreeInv
    /\ EndInv
    /\ apart => AgeInv /\ LastInv
    /\ EtcLinkInv
    /\ SteadyInv

\* Where a configuration plans a link, no file is made.
LEMMA NoFileAtLink ==
    ASSUME DiskInv, NEW g \in Gens, Step(g), NEW path \in Paths, LinkPath(path),
           disk[path].kind # "regular"
    PROVE  disk'[path].kind # "regular"
<1>0. TypeOK /\ LinksApart /\ PlacedInv /\ KindInv
  BY DEF DiskInv, ControlInv
<1>1. CASE UNCHANGED disk
  BY <1>1
<1>2. CASE Running(g) /\ MakesParents(g)
  BY <1>2, NodeFacts DEF MakesParents
<1>3. CASE Running(g) /\ path # Here(g) /\ (Removes(g) \/ Opens(g) \/ Closes(g) \/ Links(g))
  <2>1. PICK node \in Nodes : Puts(g, node)
    BY <1>0, <1>3, NodePut
  <2> QED
    BY <1>0, <1>3, <2>1, PutsFacts
<1>4. CASE Running(g) /\ path = Here(g) /\ Removes(g)
  BY <1>0, <1>4, PutsFacts, NodeFacts DEF Removes
<1>5. CASE Running(g) /\ path = Here(g) /\ Links(g)
  BY <1>0, <1>5, PutsFacts, NodeFacts DEF Links
<1>6. CASE Running(g) /\ path = Here(g) /\ Closes(g)
  BY <1>6 DEF Closes, HoldsOpen, HasOpen
<1>7. CASE Running(g) /\ path = Here(g) /\ Opens(g)
  <2>1. PICK h \in Gens : \E i \in DOMAIN Jobs(Loaded(h)) :
          Jobs(Loaded(h))[i].kind = "symlink" /\ Jobs(Loaded(h))[i].path = path
    BY DEF LinkPath
  <2>2. PICK i \in DOMAIN Jobs(Loaded(h)) :
          Jobs(Loaded(h))[i].kind = "symlink" /\ Jobs(Loaded(h))[i].path = path
    BY <2>1
  <2>3. at[g] \in DOMAIN Jobs(Loaded(g)) /\ Jobs(Loaded(g))[at[g]].path = path
        /\ Jobs(Loaded(g))[at[g]].kind # "symlink"
    BY <1>0, <1>7 DEF TypeOK, Here, Job, KindInv, Opens
  <2> QED
    BY <1>0, <2>2, <2>3, Apart
<1> QED
  BY <1>1, <1>2, <1>3, <1>4, <1>5, <1>6, <1>7, StepForm DEF Changes

LEMMA EtcLinkGenerate ==
    ASSUME EntryInv, EtcLinkInv, Generate
    PROVE  EtcLinkInv'
<1>1. DiskInv /\ TypeOK /\ etc' = etc /\ Next
  BY DEF EntryInv, DiskInv, ControlInv, Generate, container
<1>2. PICK g \in Gens : Step(g)
  BY <1>1 DEF Next, Step
<1>3. conf' = conf /\ TypeOK'
  BY <1>1, <1>2, ControlForm, TypeStep DEF OthersStay, DiskInv
<1>4. \A path : LinkPath(path)' <=> LinkPath(path)
  BY <1>3 DEF LinkPath, Loaded
<1>5. ASSUME NEW path, LinkPath(path), At(disk, path).kind # "regular"
      PROVE  At(disk, path)'.kind # "regular"
  <2>1. CASE path \in Paths
    BY <1>1, <1>2, <1>3, <1>5, <2>1, NoFileAtLink DEF At, TypeOK
  <2>2. CASE path \notin Paths
    BY <1>1, <1>3, <2>2, NodeFacts DEF At, TypeOK
  <2> QED
    BY <2>1, <2>2
<1> QED
  BY <1>1, <1>4, <1>5 DEF EtcLinkInv

\* A script's step brings a link from the image, or copies one to its path.
LEMMA EtcLinks ==
    ASSUME EntryTyped, NEW t \in Containers, Script(t), NEW u \in Containers, NEW path \in Places,
           IsLink(etc'[u][path])
    PROVE  \/ IsLink(etc[u][path])
           \/ path \in DOMAIN ImageLinks
           \/ path \in Paths /\ IsLink(disk[path])
<1>1. ContainerTypeOK /\ TodoInv
  BY DEF EntryTyped
<1>2. etc \in [Containers -> [Places -> Nodes]]
  BY <1>1 DEF ContainerTypeOK
<1>3. ~IsLink(Absent) /\ ~IsLink(Dir) /\ ~IsLink(Regular({Operator}, {}, {}))
  BY DEF IsLink, Absent, Dir, Regular
<1>4. ASSUME NEW anew \in BOOLEAN, Start(t, anew)
      PROVE  IsLink(etc[u][path]) \/ path \in DOMAIN ImageLinks
  <2>1. etc' = etc \/ etc' = [etc EXCEPT ![t] = Fresh(t)]
    BY <1>4 DEF Start
  <2>2. etc'[u][path] = etc[u][path] \/ (u = t /\ etc'[u][path] = Fresh(t)[path])
    BY <1>2, <2>1
  <2> QED
    BY <1>3, <2>2 DEF Fresh
<1>5. CASE Check(t) \/ ReadManifest(t) \/ Exec(t) \/ Kill(t)
  BY <1>5 DEF Check, ReadManifest, Exec, Kill
<1>6. CASE Copied(t) \/ RemoveLine(t)
  <2>1. UNCHANGED etc \/ \E dir : RemoveAll(t, dir)
    BY <1>6 DEF Copied, RemoveLine
  <2> QED
    BY <1>1, <1>3, <2>1, RemoveAllFacts
<1>7. CASE Copy(t)
  <2> DEFINE from == Head(todo[t])
  <2>1. from \in Paths
    <3>1. todo[t] \in Seq(Paths) /\ todo[t] # << >>
      BY <1>1, <1>7 DEF Copy, ContainerTypeOK
    <3> QED
      BY <3>1
  <2> DEFINE land == Lands(t, from)
  <2>2. disk[from].kind # "regular" => land = from
    BY DEF Lands
  <2> HIDE DEF land
  <2>3. UNCHANGED etc \/ etc' = [etc EXCEPT ![t] = [etc[t] EXCEPT ![land] = disk[from]]]
    BY <1>7 DEF Copy, land
  <2> HIDE DEF from
  <2>4. etc'[u][path] = etc[u][path] \/ (path = land /\ etc'[u][path] = disk[from])
    BY <1>2, <2>3
  <2> QED
    BY <2>1, <2>2, <2>4 DEF IsLink
<1> QED
  BY <1>4, <1>5, <1>6, <1>7 DEF Script

LEMMA EtcLinkScript ==
    ASSUME EntryInv, EtcLinkInv, NEW t \in Containers, Script(t)
    PROVE  EtcLinkInv'
<1>1. EntryTyped /\ TypeOK /\ PlacedInv /\ UNCHANGED vars
  BY TypedScript DEF EntryInv, DiskInv, ControlInv
<1>2. disk' = disk /\ conf' = conf
  BY <1>1 DEF vars
<1>3. \A path : LinkPath(path)' <=> LinkPath(path)
  BY <1>2 DEF LinkPath, Loaded
<1>4. ASSUME NEW path \in Paths, IsLink(disk[path])
      PROVE  LinkPath(path) /\ At(disk, path).kind # "regular"
  BY <1>1, <1>4 DEF PlacedInv, LinkPath, At, TypeOK, IsLink
<1> SUFFICES ASSUME NEW u \in Containers, NEW path \in Places, IsLink(etc'[u][path])
             PROVE  \/ path \in DOMAIN ImageLinks
                    \/ LinkPath(path) /\ At(disk, path).kind # "regular"
  BY <1>2, <1>3 DEF EtcLinkInv, At
<1> QED
  BY <1>1, <1>4, EtcLinks DEF EtcLinkInv

\* Where the tree has no file over a link of the image, cp writes through none.
LEMMA LandsThere ==
    ASSUME EntryInv, EtcLinkInv, NEW t \in Containers, ~FileOverLink(t), NEW path \in Of(t)
    PROVE  Lands(t, path) = path
<1>1. TypeOK /\ path \in Paths /\ path \in Places /\ Head(path) = t
  BY DEF EntryInv, DiskInv, ControlInv, Of, Places
<1>2. At(disk, path) = disk[path]
  BY <1>1 DEF At, TypeOK
<1>3. disk[path].kind = "regular" => ~IsLink(etc[t][path])
  BY <1>1, <1>2 DEF EtcLinkInv, FileOverLink
<1> QED
  BY <1>3 DEF Lands

\* Where a removal leads through no link, rm finds what it is to remove.
LEMMA RemovesThere ==
    ASSUME EntryInv, EtcLinkInv, NEW t \in Containers, NEW g \in Gens, ~RemovesThroughLink(g, t),
           NEW r \in LinesOf(g, t)
    PROVE  Spot(etc[t], r) = r
<1>1. ContainerTypeOK /\ TypeOK
  BY DEF EntryInv, EntryTyped, DiskInv, ControlInv
<1>2. conf[g] \in Names /\ r \in ToSet(Removals(Loaded(g)))
  BY <1>1 DEF TypeOK, LinesOf, Plainly
<1>3. r \in Seq(Label) \ {<< >>}
  <2>1. Removals(Loaded(g)) \in Seq(Seq(STRING) \ {<< >>})
    BY <1>2, PlanAssumption DEF Loaded
  <2>2. PICK i \in DOMAIN Removals(Loaded(g)) : r = Removals(Loaded(g))[i]
    BY <1>2 DEF ToSet
  <2>3. r \in Seq(STRING) \ {<< >>}
    BY <2>1, <2>2
  <2> QED
    BY <2>3 DEF Label
<1>4. ASSUME NEW q \in Parents(r), IsLink(At(etc[t], q)) PROVE FALSE
  <2>1. q \in Places /\ IsLink(etc[t][q])
    <3>1. ~IsLink(Absent)
      BY DEF IsLink, Absent
    <3>2. DOMAIN etc[t] = Places
      BY <1>1 DEF ContainerTypeOK
    <3> QED
      BY <1>4, <3>1, <3>2 DEF At
  <2>2. q \notin DOMAIN ImageLinks /\ q \notin {job.path : job \in LinkJobs}
    BY <1>4 DEF RemovesThroughLink
  <2>3. LinkPath(q)
    BY <2>1, <2>2 DEF EtcLinkInv
  <2>4. PICK h \in Gens : \E i \in DOMAIN Jobs(Loaded(h)) :
          Jobs(Loaded(h))[i].kind = "symlink" /\ Jobs(Loaded(h))[i].path = q
    BY <2>3 DEF LinkPath
  <2>5. PICK i \in DOMAIN Jobs(Loaded(h)) :
          Jobs(Loaded(h))[i].kind = "symlink" /\ Jobs(Loaded(h))[i].path = q
    BY <2>4
  <2>6. conf[h] \in Names
    BY <1>1 DEF TypeOK
  <2>7. Jobs(Loaded(h))[i] \in LinkJobs
    BY <2>5, <2>6 DEF LinkJobs, ToSet, Loaded
  <2> QED
    BY <2>2, <2>5, <2>7
<1> QED
  BY <1>3, <1>4, SpotStays

\* A script's step changes nothing of another container.
LEMMA OthersSteady ==
    ASSUME ContainerTypeOK, NEW t \in Containers, Script(t), NEW u \in Containers, u # t
    PROVE  /\ step'[u] = step[u] /\ etc'[u] = etc[u] /\ todo'[u] = todo[u]
           /\ failed'[u] = failed[u] /\ lines'[u] = lines[u] /\ steady'[u] = steady[u]
BY DEF Script, Start, Check, Copy, Copied, ReadManifest, RemoveLine, Exec, Kill, Leave, To,
       RemoveAll, ContainerTypeOK

LEMMA SteadilyStays ==
    ASSUME disk' = disk, NEW u \in Containers, Steadily(u), \A g \in Gens : ~Running(g)',
           conf' = conf,
           step'[u] = step[u], etc'[u] = etc[u], todo'[u] = todo[u],
           failed'[u] = failed[u], lines'[u] = lines[u]
    PROVE  Steadily(u)'
<1>1. \A g : LinesOf(g, u)' = LinesOf(g, u)
  BY DEF LinesOf, Loaded
<1>2. \A path : Same(u, path)' <=> Same(u, path)
  BY DEF Same
<1>3. \A path : Pending(u, path)' <=> Pending(u, path)
  BY DEF Pending
<1>4. CopyInv(u) => CopyInv(u)'
  BY <1>2, <1>3 DEF CopyInv
<1>5. ReadInv(u) => ReadInv(u)'
  BY <1>2 DEF ReadInv
<1>6. \A g : Removing(u, g)' <=> Removing(u, g)
  BY <1>1, <1>2 DEF Removing, Doomed
<1>7. \A g : RemovesThroughLink(g, u)' <=> RemovesThroughLink(g, u)
  BY <1>1 DEF RemovesThroughLink
<1>8. RemoveInv(u) => RemoveInv(u)'
  BY <1>6, <1>7 DEF RemoveInv
<1>9. FileOverLink(u)' <=> FileOverLink(u)
  BY DEF FileOverLink, At
<1> QED
  BY <1>4, <1>5, <1>8, <1>9 DEF Steadily

\* All that is in a directory cp has made is on its list.
LEMMA CopySteady ==
    ASSUME EntryInv, EtcLinkInv, TreeInv, NEW t \in Containers, ~FileOverLink(t),
           CopyInv(t), Copy(t)
    PROVE  CopyInv(t)'
<1> DEFINE head  == Head(todo[t])
           below == IF disk[head] = Dir THEN SetToSeq(Children(head)) ELSE << >>
           rest  == Tail(todo[t])
<1>1. ContainerTypeOK /\ TodoInv /\ UNCHANGED <<vars, step>> /\ step[t] = "copy"
  BY DEF EntryInv, EntryTyped, Copy
<1>2. todo[t] \in Seq(Of(t)) /\ todo[t] # << >>
  BY <1>1 DEF Copy, TodoInv
<1>3. /\ head \in Of(t) /\ rest \in Seq(Of(t)) /\ head = todo[t][1]
      /\ \A i \in DOMAIN todo[t] : i # 1 => i - 1 \in DOMAIN rest /\ rest[i - 1] = todo[t][i]
  BY <1>2
<1>4. below \in Seq(Of(t))
  BY <1>3, ListingFacts
<1>5. \/ /\ etc' = [etc EXCEPT ![t][head] = disk[head]]
         /\ todo' = [todo EXCEPT ![t] = below \o rest]
         /\ UNCHANGED failed
      \/ failed' = [failed EXCEPT ![t] = TRUE]
  BY <1>3, LandsThere DEF Copy
<1>6. disk' = disk
  BY <1>1 DEF vars
<1>7. head \in Paths /\ head \in Places
  BY <1>3 DEF Of, Places
<1>8. disk[head] = Dir => below = SetToSeq(Children(head))
  OBVIOUS
<1> HIDE DEF head, below, rest
<1>9. CASE failed' = [failed EXCEPT ![t] = TRUE]
  BY <1>1, <1>9 DEF CopyInv, ContainerTypeOK
<1>10. CASE /\ etc' = [etc EXCEPT ![t][head] = disk[head]]
            /\ todo' = [todo EXCEPT ![t] = below \o rest]
            /\ UNCHANGED failed
  <2> SUFFICES ASSUME ~failed[t], NEW path \in Of(t), disk[path] # Absent,
                      etc'[t][path] # disk[path]
               PROVE  Pending(t, path)'
    BY <1>1, <1>6, <1>10 DEF CopyInv, Same
  <2>1. etc \in [Containers -> [Places -> Nodes]] /\ todo \in [Containers -> Seq(Paths)]
    BY <1>1 DEF ContainerTypeOK
  <2>2. path \in Paths /\ path \in Places
    BY DEF Of, Places
  <2>3. path # head /\ etc'[t][path] = etc[t][path]
    <3>1. etc'[t] = [etc[t] EXCEPT ![head] = disk[head]]
      BY <1>10, <2>1
    <3> QED
      BY <1>7, <2>1, <2>2, <3>1
  <2>4. todo'[t] = below \o rest
    BY <1>10, <2>1
  <2>5. /\ Len(below) \in Nat /\ DOMAIN below = 1..Len(below)
        /\ Len(rest) \in Nat /\ DOMAIN rest = 1..Len(rest)
    BY <1>3, <1>4, SeqFacts
  <2>6. /\ DOMAIN todo'[t] = 1..(Len(below) + Len(rest))
        /\ \A i \in 1..(Len(below) + Len(rest)) :
             todo'[t][i] = IF i <= Len(below) THEN below[i] ELSE rest[i - Len(below)]
    <3>1. below \o rest \in Seq(Of(t)) /\ Len(below \o rest) = Len(below) + Len(rest)
      BY <1>3, <1>4, ConcatFacts
    <3>2. DOMAIN (below \o rest) = 1..(Len(below) + Len(rest))
      BY <3>1, SeqFacts
    <3> QED
      BY <1>3, <1>4, <2>4, <3>2, ConcatFacts
  <2>7. PICK i \in DOMAIN todo[t] : Under(path, todo[t][i])
    BY <1>1, <2>3 DEF CopyInv, Same, Pending
  <2>8. CASE i = 1
    <3>1. Under(path, head)
      BY <1>3, <2>7, <2>8
    <3>2. PICK c \in Paths : /\ Len(c) = Len(head) + 1 /\ Under(c, head) /\ Under(path, c)
                             /\ c = path \/ c \in Parents(path)
      BY <1>7, <2>2, <2>3, <3>1, NextBelow
    <3>3. disk[head] = Dir
      BY <1>7, <2>2, <2>3, <3>1, NextBelow DEF TreeInv
    <3>4. disk[c] # Absent
      BY <2>2, <3>2, NodeFacts DEF TreeInv
    <3>5. c \in Children(head)
      BY <3>2, <3>4 DEF Children
    <3>6. PICK j \in DOMAIN below : below[j] = c
      BY <1>7, <1>8, <3>3, <3>5, ListingIsWhole
    <3>7. j \in DOMAIN todo'[t] /\ todo'[t][j] = c
      BY <2>5, <2>6, <3>6
    <3> QED
      BY <3>2, <3>7 DEF Pending
  <2>9. CASE i # 1
    <3>1. i - 1 \in DOMAIN rest /\ rest[i - 1] = todo[t][i]
      BY <1>3, <2>9
    <3> DEFINE j == (i - 1) + Len(below)
    <3>2. j \in 1..(Len(below) + Len(rest)) /\ ~(j <= Len(below)) /\ j - Len(below) = i - 1
      BY <2>5, <3>1
    <3>3. j \in DOMAIN todo'[t] /\ todo'[t][j] = todo[t][i]
      BY <2>6, <3>1, <3>2
    <3> HIDE DEF j
    <3> QED
      BY <2>7, <3>3 DEF Pending
  <2> QED
    BY <2>8, <2>9
<1> QED
  BY <1>5, <1>9, <1>10

LEMMA RemoveAllKeeps ==
    ASSUME ContainerTypeOK, NEW t \in Containers, NEW dir, RemoveAll(t, dir), NEW path \in Places
    PROVE  etc'[t][path] = IF Under(path, dir) THEN Absent ELSE etc[t][path]
<1> DEFINE new == [other \in Places |-> IF Under(other, dir) THEN Absent ELSE etc[t][other]]
<1>1. etc' = [etc EXCEPT ![t] = new]
  BY DEF RemoveAll
<1>2. new[path] = IF Under(path, dir) THEN Absent ELSE etc[t][path]
  OBVIOUS
<1> HIDE DEF new
<1>3. etc'[t] = new
  BY <1>1 DEF ContainerTypeOK
<1> QED
  BY <1>2, <1>3

\* When cp is through, everything has been copied.
LEMMA CopiedSteady ==
    ASSUME EntryInv, NEW t \in Containers, CopyInv(t), Copied(t), steady'[t]
    PROVE  step'[t] = "read" /\ ReadInv(t)'
<1>1. ContainerTypeOK /\ UNCHANGED vars /\ step[t] = "copy" /\ todo[t] = << >>
  BY DEF EntryInv, EntryTyped, Copied
<1>2. ~Leave(t, "off")
  BY <1>1 DEF Leave, ContainerTypeOK
<1>3. ~failed[t] /\ To(t, "read") /\ RemoveAll(t, <<t, ".radius-director">>)
  BY <1>2 DEF Copied
<1>4. step'[t] = "read" /\ disk' = disk
  BY <1>1, <1>3 DEF To, ContainerTypeOK, vars
<1>5. \A path \in Of(t) : Same(t, path)
  BY <1>1, <1>3 DEF CopyInv, Pending
<1>6. ASSUME NEW path \in Of(t), Kept(t, path) PROVE Same(t, path)'
  <2>1. path \in Places
    BY DEF Of, Places
  <2>2. etc'[t][path] = etc[t][path]
    BY <1>1, <1>3, <1>6, <2>1, RemoveAllKeeps DEF Kept
  <2> QED
    BY <1>4, <1>5, <2>2 DEF Same
<1> QED
  BY <1>4, <1>6 DEF ReadInv, Kept

\* A manifest that one generation wrote is read as that generation's removals.
LEMMA ReadSteady ==
    ASSUME EntryInv, NEW t \in Containers, ReadInv(t), ReadManifest(t)
    PROVE  RemoveInv(t)'
<1>1. ContainerTypeOK /\ FoundInv /\ UNCHANGED vars /\ step[t] = "read"
      /\ etc' = etc /\ ManifestOf(t) = disk[ManifestPath(t)]
  BY ManifestStraight DEF EntryInv, EntryTyped, ReadManifest
<1>2. disk' = disk /\ conf' = conf
  BY <1>1 DEF vars
<1>3. disk[ManifestPath(t)].kind = "regular"
  BY <1>1 DEF FoundInv
<1>4. PICK found \in Readings(disk[ManifestPath(t)], t) : lines' = [lines EXCEPT ![t] = found]
  BY <1>1 DEF ReadManifest
<1>5. lines'[t] = found
  BY <1>1, <1>4 DEF ContainerTypeOK
<1>6. ASSUME NEW g \in Gens, disk[ManifestPath(t)] = Regular({g}, {}, {})
      PROVE  Removing(t, g)'
  <2>1. Entire(Regular({g}, {}, {})) /\ Regular({g}, {}, {}).text = {g}
    BY DEF Entire, Regular
  <2>2. Readings(Regular({g}, {}, {}), t) = {LinesOf(h, t) : h \in {g}}
    BY <2>1 DEF Readings
  <2>3. found = LinesOf(g, t)
    BY <1>4, <1>6, <2>2
  <2>4. LinesOf(g, t)' = LinesOf(g, t)
    BY <1>2 DEF LinesOf, Loaded
  <2>5. \A path \in Of(t) : Kept(t, path) => Same(t, path)'
    BY <1>1, <1>2 DEF ReadInv, Same
  <2> QED
    BY <1>5, <2>3, <2>4, <2>5 DEF Removing, Doomed, Kept, Of
<1> QED
  BY <1>2, <1>3, <1>6 DEF RemoveInv

LEMMA RemoveSteady ==
    ASSUME EntryInv, EtcLinkInv, NEW t \in Containers, RemoveInv(t), RemoveLine(t)
    PROVE  RemoveInv(t)'
<1>1. ContainerTypeOK /\ UNCHANGED vars /\ step[t] = "remove"
  BY DEF EntryInv, EntryTyped, RemoveLine
<1>2. disk' = disk /\ conf' = conf
  BY <1>1 DEF vars
<1>3. PICK r \in lines[t] : /\ RemoveAll(t, Spot(etc[t], r))
                            /\ lines' = [lines EXCEPT ![t] = lines[t] \ {r}]
  BY DEF RemoveLine
<1>4. lines'[t] = lines[t] \ {r}
  BY <1>1, <1>3 DEF ContainerTypeOK
<1>6. ASSUME NEW g \in Gens, Removing(t, g), ~RemovesThroughLink(g, t)
      PROVE  Removing(t, g)'
  <2>1. LinesOf(g, t)' = LinesOf(g, t) /\ r \in LinesOf(g, t)
    BY <1>2, <1>3, <1>6 DEF LinesOf, Loaded, Removing
  <2>0. \A path \in Places : etc'[t][path] = IF Under(path, r) THEN Absent ELSE etc[t][path]
    <3>1. RemoveAll(t, r)
      BY <1>3, <1>6, <2>1, RemovesThere
    <3> QED
      BY <1>1, <3>1, RemoveAllKeeps
  <2>2. lines'[t] \subseteq LinesOf(g, t)
    BY <1>4, <1>6 DEF Removing
  <2>3. ASSUME NEW path \in Places, Doomed(t, g, path)
        PROVE  etc'[t][path] = Absent \/ \E s \in lines'[t] : Under(path, s)
    BY <1>4, <1>6, <2>0, <2>3 DEF Removing
  <2>4. ASSUME NEW path \in Places, ~Doomed(t, g, path), path \in Of(t), Kept(t, path)
        PROVE  Same(t, path)'
    <3>1. ~Under(path, r) /\ Same(t, path)
      BY <1>6, <2>1, <2>4 DEF Removing, Doomed
    <3> QED
      BY <1>2, <2>0, <3>1 DEF Same
  <2>5. \A path : Doomed(t, g, path)' <=> Doomed(t, g, path)
    BY <2>1 DEF Doomed
  <2> QED
    BY <2>1, <2>2, <2>3, <2>4, <2>5 DEF Removing, Kept, Of
<1>7. \A g : RemovesThroughLink(g, t)' <=> RemovesThroughLink(g, t)
  BY <1>2 DEF RemovesThroughLink, LinesOf, Loaded
<1> QED
  BY <1>1, <1>2, <1>6, <1>7 DEF RemoveInv

LEMMA SteadyScript ==
    ASSUME EntryInv, EtcLinkInv, TreeInv, SteadyInv, NEW t \in Containers, Script(t)
    PROVE  SteadyInv'
<1>1. ContainerTypeOK /\ UNCHANGED vars
  BY TypedScript DEF EntryInv, EntryTyped
<1>2. /\ disk' = disk /\ conf' = conf /\ \A g \in Gens : Running(g)' <=> Running(g)
      /\ FileOverLink(t)' <=> FileOverLink(t)
  BY <1>1 DEF vars, Running, FileOverLink, At
<1> SUFFICES ASSUME NEW u \in Containers, steady'[u] PROVE Steadily(u)'
  BY DEF SteadyInv
<1>3. CASE u # t
  <2>1. /\ step'[u] = step[u] /\ etc'[u] = etc[u] /\ todo'[u] = todo[u]
        /\ failed'[u] = failed[u] /\ lines'[u] = lines[u] /\ steady'[u] = steady[u]
    BY <1>1, <1>3, OthersSteady
  <2>2. Steadily(u)
    BY <2>1 DEF SteadyInv
  <2> QED
    BY <1>2, <2>1, <2>2, SteadilyStays DEF Steadily
<1>4. CASE u = t
  <2>1. CASE \E anew \in BOOLEAN : Start(t, anew)
    <3>1. step'[t] = "check" /\ \A g \in Gens : ~Running(g)
      BY <1>1, <1>4, <2>1 DEF Start, To, ContainerTypeOK
    <3> QED
      BY <1>2, <1>4, <3>1 DEF Steadily, CopyInv, ReadInv, RemoveInv
  <2>2. ASSUME NEW s, Leave(t, s) PROVE FALSE
    BY <1>1, <1>4, <2>2 DEF Leave, ContainerTypeOK
  <2>3. CASE ~\E anew \in BOOLEAN : Start(t, anew)
    <3>1. steady[t]
      BY <1>1, <1>4, <2>2, <2>3
      DEF Script, Check, Copy, Copied, ReadManifest, RemoveLine, Exec, Kill
    <3>2. Steadily(t)
      BY <3>1 DEF SteadyInv
    <3> SUFFICES ASSUME ~FileOverLink(t)
                 PROVE  CopyInv(t)' /\ ReadInv(t)' /\ RemoveInv(t)'
      BY <1>2, <1>4, <3>2 DEF Steadily
    <3>0. CopyInv(t) /\ ReadInv(t) /\ RemoveInv(t)
      BY <3>2 DEF Steadily
    <3>3. CASE Check(t)
      <4>1. step'[t] = "copy" /\ todo'[t] = << <<t>> >>
        BY <1>1, <1>4, <2>2, <3>3 DEF Check, To, ContainerTypeOK
      <4>2. \A path \in Of(t) : Pending(t, path)'
        BY <4>1, UnderRoot DEF Pending
      <4>3. Of(t)' = Of(t)
        BY DEF Of
      <4> QED
        BY <4>1, <4>2, <4>3 DEF CopyInv, ReadInv, RemoveInv
    <3>4. CASE Copy(t)
      <4>1. step'[t] = "copy"
        BY <3>4 DEF Copy
      <4>2. CopyInv(t)'
        BY <3>0, <3>4, CopySteady
      <4> QED
        BY <4>1, <4>2 DEF ReadInv, RemoveInv
    <3>5. CASE Copied(t)
      <4>1. step'[t] = "read" /\ ReadInv(t)'
        BY <1>4, <3>0, <3>5, CopiedSteady
      <4> QED
        BY <4>1 DEF CopyInv, RemoveInv
    <3>6. CASE ReadManifest(t)
      <4>1. step'[t] = "remove"
        BY <1>1, <3>6 DEF ReadManifest, To, ContainerTypeOK
      <4>2. RemoveInv(t)'
        BY <3>0, <3>6, ReadSteady
      <4> QED
        BY <4>1, <4>2 DEF CopyInv, ReadInv
    <3>7. CASE RemoveLine(t)
      <4>1. step'[t] = "remove"
        BY <3>7 DEF RemoveLine
      <4>2. RemoveInv(t)'
        BY <3>0, <3>7, RemoveSteady
      <4> QED
        BY <4>1, <4>2 DEF CopyInv, ReadInv
    <3>8. CASE Exec(t) \/ Kill(t)
      BY <1>4, <2>2, <3>8 DEF Exec, Kill
    <3> QED
      BY <2>3, <3>3, <3>4, <3>5, <3>6, <3>7, <3>8 DEF Script
  <2> QED
    BY <2>1, <2>3
<1> QED
  BY <1>3, <1>4

\* A generate that only looks, or is refused, disturbs nobody.
LEMMA SteadyGenerate ==
    ASSUME EntryInv, SteadyInv, Generate
    PROVE  SteadyInv'
<1>1. TypeOK /\ Next /\ UNCHANGED container
  BY DEF EntryInv, DiskInv, ControlInv, Generate
<1> SUFFICES ASSUME NEW u \in Containers, steady'[u] PROVE Steadily(u)'
  BY DEF SteadyInv
<1>2. steady[u] /\ \A g \in Gens : ~Running(g)'
  BY DEF Generate
<1>3. Steadily(u)
  BY <1>2 DEF SteadyInv
<1>4. PICK g \in Gens : Step(g)
  BY <1>1 DEF Next, Step
<1>5. disk' = disk /\ conf' = conf
  BY <1>3, <1>4, StepForm DEF EntryInv, Steadily, OthersStay
<1> QED
  BY <1>1, <1>2, <1>3, <1>5, SteadilyStays DEF container

LEMMA StartInvInit == EInit => StartInv
<1> SUFFICES ASSUME EInit PROVE StartInv
  OBVIOUS
<1>1. TreeInv
  BY TreeInvInit DEF EInit
<1>2. EndInv /\ AgeInv /\ LastInv
  BY DEF EInit, Init, EndInv, AgeInv, LastInv
<1>3. SteadyInv
  BY DEF EInit, SteadyInv
<1>4. EtcLinkInv
  <2>1. ~IsLink(Absent) /\ ~IsLink(Dir) /\ ~IsLink(Regular({Operator}, {}, {}))
    BY DEF IsLink, Absent, Dir, Regular
  <2>2. \A t \in Containers : \A path \in Places :
          IsLink(Fresh(t)[path]) => path \in DOMAIN ImageLinks
    BY <2>1 DEF Fresh
  <2> QED
    BY <2>2 DEF EInit, EtcLinkInv
<1> QED
  BY <1>1, <1>2, <1>3, <1>4 DEF StartInv

LEMMA StartInvStep == EntryInv /\ ApartInv /\ StartInv /\ [ENext]_allvars => StartInv'
<1> SUFFICES ASSUME EntryInv, ApartInv, StartInv, [ENext]_allvars PROVE StartInv'
  OBVIOUS
<1>1. DiskInv /\ TypeOK /\ TreeInv /\ EndInv /\ EtcLinkInv /\ SteadyInv
      /\ (apart => OneAtATime /\ LoneInv /\ AgeInv /\ LastInv)
  BY DEF EntryInv, DiskInv, ControlInv, StartInv, ApartInv
<1>2. CASE Generate
  <2>1. PICK g \in Gens : Step(g)
    BY <1>2 DEF Generate, Next, Step
  <2>2. TreeInv' /\ EndInv'
    BY <1>1, <2>1, TreeStep, EndStep
  <2>3. apart' => apart
    BY <1>2 DEF Generate
  <2>4. apart => AgeInv' /\ LastInv'
    BY <1>1, <2>1, AgeStep, LastStep
  <2> QED
    BY <1>1, <1>2, <2>2, <2>3, <2>4, EtcLinkGenerate, SteadyGenerate DEF StartInv
<1>3. CASE UNCHANGED vars
  <2>1. TreeInv' /\ EndInv' /\ (AgeInv => AgeInv') /\ (LastInv => LastInv')
    BY <1>1, <1>3 DEF vars, TreeInv, EndInv, AgeInv, LastInv, Rests, Whole, Running, Loaded
  <2>2. CASE \E t \in Containers : Script(t)
    BY <1>1, <2>1, <2>2, TypedScript, EtcLinkScript, SteadyScript DEF StartInv, EntryInv
  <2>3. CASE UNCHANGED allvars
    <3>1. /\ disk' = disk /\ conf' = conf /\ pc' = pc /\ apart' = apart /\ steady' = steady
          /\ step' = step /\ etc' = etc /\ todo' = todo /\ failed' = failed /\ lines' = lines
      BY <2>3 DEF allvars, container, vars
    <3>2. \A u \in Containers : Steadily(u) => Steadily(u)'
      <4> SUFFICES ASSUME NEW u \in Containers, Steadily(u) PROVE Steadily(u)'
        OBVIOUS
      <4>1. \A g \in Gens : ~Running(g)'
        BY <3>1 DEF Steadily, Running
      <4> QED
        BY <3>1, <4>1, SteadilyStays
    <3>3. SteadyInv'
      BY <1>1, <3>1, <3>2 DEF SteadyInv
    <3>4. EtcLinkInv'
      BY <1>1, <3>1 DEF EtcLinkInv, LinkPath, Loaded, At
    <3> QED
      BY <1>1, <2>1, <3>1, <3>3, <3>4 DEF StartInv
  <2>4. CASE Generate
    BY <1>2, <2>4
  <2> QED
    BY <2>2, <2>3, <2>4 DEF ENext, Script
<1>4. CASE \E t \in Containers : Script(t)
  BY <1>3, <1>4, TypedScript DEF EntryInv
<1>5. CASE UNCHANGED allvars
  BY <1>3, <1>5 DEF allvars
<1> QED
  BY <1>2, <1>4, <1>5 DEF ENext, Script

\* Where links are apart: what the tree is when a generate has succeeded and
\* nothing has been written since, how far a container is that starts meanwhile,
\* and which links it has.
THEOREM StartInvariant ==
    ESpec => [](EntryTyped /\ (LinksApart => EntryInv /\ ApartInv /\ StartInv))
<1>1. EInit => EntryTyped /\ (LinksApart => EntryInv /\ ApartInv /\ StartInv)
  BY TypedInit, EntryInit, ApartInvInit, StartInvInit
<1>2. EntryTyped /\ (LinksApart => EntryInv /\ ApartInv /\ StartInv) /\ [ENext]_allvars =>
        (EntryTyped /\ (LinksApart => EntryInv /\ ApartInv /\ StartInv))'
  BY TypedStep, LinksApartStays, EntryStep, ApartInvStep, StartInvStep
<1> QED
  BY <1>1, <1>2, PTL DEF ESpec

LEMMA ExecAsGenerated ==
    ASSUME EntryInv, StartInv, NEW t \in Containers, Exec(t), steady[t], apart,
           NEW g \in Gens, IsLast(g), outcome[g] = "ok",
           t \in {tenant.id : tenant \in ToSet(Loaded(g).tenants)},
           ~FileOverLink(t), ~RemovesThroughLink(g, t),
           NEW path \in Places
    PROVE  /\ Doomed(t, g, path) => etc[t][path] = Absent
           /\ /\ ~Doomed(t, g, path)
              /\ path \in Planned(Loaded(g)) /\ Head(path) = t /\ Kept(t, path)
              => IsWhole(etc[t][path], g)
<1>1. Steadily(t) /\ LastInv
  BY DEF StartInv, SteadyInv
<1>2. Rests(g)
  BY <1>1 DEF IsLast, Rests, Steadily
<1>3. \A other \in Planned(Loaded(g)) : IsWhole(disk[other], g)
  BY <1>1, <1>2 DEF LastInv, Whole
<1>4. conf[g] \in Names
  BY DEF EntryInv, DiskInv, ControlInv, TypeOK
<1>5. PICK i \in DOMAIN Loaded(g).tenants : Loaded(g).tenants[i].id = t
  BY DEF ToSet
<1>6. ManifestPath(t) \in Planned(Loaded(g))
  <2>1. /\ DOMAIN Jobs(Loaded(g)) = 1..Len(Jobs(Loaded(g)))
        /\ DOMAIN Loaded(g).tenants = 1..Len(Loaded(g).tenants)
        /\ Len(Loaded(g).tenants) \in Nat /\ Len(Jobs(Loaded(g))) \in Nat
        /\ Len(Loaded(g).tenants) <= Len(Jobs(Loaded(g)))
        /\ \A k \in DOMAIN Loaded(g).tenants :
              Jobs(Loaded(g))[k] = ManifestJob(Loaded(g).tenants[k].id)
    BY <1>4, JobsFacts DEF Loaded
  <2>2. Jobs(Loaded(g))[i] = ManifestJob(t)
    BY <1>5, <2>1
  <2>3. i \in DOMAIN Jobs(Loaded(g)) /\ Jobs(Loaded(g))[i].path = ManifestPath(t)
    BY <1>5, <2>1, <2>2 DEF ManifestJob
  <2> QED
    BY <2>3 DEF Planned
<1>7. disk[ManifestPath(t)] = Regular({g}, {}, {})
  <2>1. disk[ManifestPath(t)].kind = "regular"
    BY <1>1 DEF Exec, Steadily, RemoveInv
  <2> QED
    BY <1>3, <1>6, <2>1 DEF IsWhole, IsLink
<1>8. Removing(t, g) /\ lines[t] = {}
  BY <1>1, <1>7 DEF Exec, Steadily, RemoveInv
<1>9. Doomed(t, g, path) => etc[t][path] = Absent
  BY <1>8 DEF Removing
<1>10. ASSUME ~Doomed(t, g, path), path \in Planned(Loaded(g)), Head(path) = t, Kept(t, path)
       PROVE  IsWhole(etc[t][path], g)
  <2>1. path \in Of(t)
    BY <1>4, <1>10, WantedArePaths DEF Of, Paths, Wanted, Loaded
  <2>2. IsWhole(disk[path], g)
    BY <1>3, <1>10
  <2>3. disk[path] # Absent
    BY <2>2 DEF IsWhole, IsLink, Absent, Regular
  <2>4. Same(t, path)
    BY <1>8, <1>10, <2>1 DEF Removing
  <2> QED
    BY <2>2, <2>3, <2>4 DEF Same
<1> QED
  BY <1>9, <1>10

\* A container that starts when generate has succeeded, and that no generate
\* disturbs, runs with all that was planned and not to be removed and with
\* nothing at the paths that were: whatever an earlier start left in the
\* container, whatever generations were refused, failed or were killed before,
\* and whatever files and links the image brought, as long as the tree has no
\* file where the image has a link, no removal leads through a link, and links
\* are apart.
THEOREM StartsAreAsGenerated == ESpec => StartsAsGenerated
<1> DEFINE Right ==
        \A t \in Containers, g \in Gens :
         /\ step[t] # "running" /\ step'[t] = "running"
         /\ steady[t] /\ apart
         /\ IsLast(g) /\ outcome[g] = "ok"
         /\ t \in {tenant.id : tenant \in ToSet(Loaded(g).tenants)}
         /\ LinksApart /\ ~FileOverLink(t) /\ ~RemovesThroughLink(g, t)
         => \A path \in Places :
              IF \E r \in LinesOf(g, t) : Under(path, r)
                THEN etc[t][path] = Absent
                ELSE /\ path \in Planned(Loaded(g))
                     /\ Head(path) = t /\ ~Under(path, <<t, ".radius-director">>)
                     => IsWhole(etc[t][path], g)
<1>1. EntryTyped /\ (LinksApart => EntryInv /\ ApartInv /\ StartInv) /\ [ENext]_allvars =>
        [Right]_allvars
  <2> SUFFICES ASSUME EntryInv, StartInv, [ENext]_allvars, NEW t \in Containers, NEW g \in Gens,
                      step[t] # "running", step'[t] = "running", steady[t], apart,
                      IsLast(g), outcome[g] = "ok",
                      t \in {tenant.id : tenant \in ToSet(Loaded(g).tenants)},
                      ~FileOverLink(t), ~RemovesThroughLink(g, t),
                      NEW path \in Places
               PROVE  IF Doomed(t, g, path)
                        THEN etc[t][path] = Absent
                        ELSE /\ path \in Planned(Loaded(g)) /\ Head(path) = t /\ Kept(t, path)
                             => IsWhole(etc[t][path], g)
    BY DEF Doomed, Kept
  <2>1. step \in [Containers -> Steps] /\ ContainerTypeOK
    BY DEF EntryInv, EntryTyped, ContainerTypeOK
  <2>2. Exec(t)
    <3>1. ~Generate /\ ~UNCHANGED allvars
      BY DEF Generate, allvars, container
    <3>2. PICK u \in Containers : Script(u)
      BY <3>1 DEF ENext, Script
    <3>3. u = t
      BY <2>1, <3>2, OthersSteady
    <3>4. Script(t)
      BY <3>2, <3>3
    <3> QED
      BY <2>1, <3>4 DEF Script, Start, Check, Copy, Copied, ReadManifest, RemoveLine, Kill,
                      Leave, To
  <2> QED
    BY <2>2, ExecAsGenerated
<1> QED
  BY <1>1, StartInvariant, PTL DEF ESpec, StartsAsGenerated

=============================================================================
