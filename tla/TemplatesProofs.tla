--------------------------- MODULE TemplatesProofs ---------------------------
(***************************************************************************)
(* Theorems about Templates, for any library and any selection.            *)
(***************************************************************************)
EXTENDS Templates, TLAPS

\* The layer that is merged next is there, and it is a layer.
LEMMA NextLayerIsThere ==
    ASSUME TypeOK, MoreLayers, ~Refused
    PROVE  NextLayer \in Layers
<1>1. /\ selection.overlays \in Seq(Names)
      /\ Len(layers) \in Nat /\ Len(layers) < Len(selection.overlays) + 1
  BY SelectionAssumption DEF TypeOK, MoreLayers, LayerCount
<1>2. RootsOf(selection)[Len(layers) + 1] \in DOMAIN library.layer
  <2>1. CASE layers = << >>
    BY <1>1, <2>1 DEF Refused, SupportsTemplateSet, HasLayer, RootsOf
  <2>2. CASE layers # << >>
    <3>1. Len(layers) # 0
      BY <2>2 DEF TypeOK
    <3>2. Len(layers) \in DOMAIN selection.overlays
      BY <1>1, <3>1
    <3> QED
      BY <1>1, <3>1, <3>2 DEF Refused, SupportsOverlay, HasLayer, RootsOf
  <2> QED
    BY <2>1, <2>2
<1> QED
  BY <1>2 DEF NextLayer, LayerNo, TypeOK, IsLibrary

LEMMA MergeType ==
    ASSUME NEW R \in [Paths -> EntrySet], NEW L \in Layers, NEW k \in Nat, Walks(L)
    PROVE  Merge(R, L, k) \in [Paths -> EntrySet]
<1> SUFFICES ASSUME NEW p \in Paths, p \in EntriesOf(L)
             PROVE  EntryOf(L, k, p) \in EntrySet
  BY DEF Merge
<1>1. CASE L[p].kind = "link"
  BY <1>1 DEF Walks, ValidLinks, TargetExists, LinksOf, EntryOf, EntrySet
<1>2. CASE L[p].kind # "link"
  BY <1>2 DEF EntryOf, EntrySet
<1> QED
  BY <1>1, <1>2

LEMMA NoEntriesType == NoEntries \in [Paths -> EntrySet]
BY DEF NoEntries, EntrySet

LEMMA TypeStep == TypeOK /\ [Next]_vars => TypeOK'
<1> SUFFICES ASSUME TypeOK, [Next]_vars
             PROVE  TypeOK'
  OBVIOUS
<1> USE DEF TypeOK, IsLibrary, LayerCount, Phases, Outcomes, resolving, rendering
<1>1. CASE Validate
  BY <1>1 DEF Validate, Return
<1>2. CASE Refuse
  BY <1>2 DEF Refuse, Return
<1>3. CASE MergeLayer
  <2>1. CASE Walks(NextLayer)
    <3>1. NextLayer \in Layers
      BY <1>3, NextLayerIsThere DEF MergeLayer
    <3>2. entries' \in [Paths -> EntrySet]
      BY <1>3, <2>1, <3>1, MergeType DEF MergeLayer
    <3>3. layers' \in Seq(Layers) /\ Len(layers') = Len(layers) + 1
      BY <1>3, <2>1, <3>1 DEF MergeLayer
    <3>4. Len(layers') <= LayerCount'
      <4>1. Len(selection.overlays) \in Nat
        BY SelectionAssumption
      <4> QED
        BY <1>3, <3>3, <4>1 DEF MergeLayer, MoreLayers
    <3> QED
      BY <1>3, <2>1, <3>2, <3>3, <3>4 DEF MergeLayer
  <2>2. CASE ~Walks(NextLayer)
    BY <1>3, <2>2 DEF MergeLayer, Return
  <2> QED
    BY <2>1, <2>2
<1>4. CASE List
  BY <1>4 DEF List
<1>5. CASE RenderLink
  BY <1>5 DEF RenderLink, ToRender
<1>6. CASE CallLoad
  <2>1. layers' \in Seq(Layers) /\ Len(layers') <= LayerCount'
    <3>1. Len(selection.overlays) \in Nat
      BY SelectionAssumption
    <3> QED
      BY <1>6, <3>1 DEF CallLoad
  <2> QED
    BY <1>6, <2>1, NoEntriesType DEF CallLoad, ToRender
<1>7. CASE Load
  BY <1>7 DEF Load, Return
<1>8. CASE LoadFails \/ Rendered
  BY <1>8 DEF LoadFails, Rendered, Return
<1>9. CASE Edit
  BY <1>9, LibraryAssumption DEF Edit
<1>10. CASE UNCHANGED vars
  BY <1>10 DEF vars
<1> QED
  BY <1>1, <1>2, <1>3, <1>4, <1>5, <1>6, <1>7, <1>8, <1>9, <1>10 DEF Next

\* Every variable keeps its type; the targets of merged links are paths.
THEOREM TemplatesTypeCorrect == Spec => []TypeOK
<1>1. Init => TypeOK
  <2> SUFFICES ASSUME Init
               PROVE  TypeOK
    OBVIOUS
  <2>1. Len(selection.overlays) \in Nat
    BY SelectionAssumption DEF Init
  <2>2. layers \in Seq(Layers) /\ Len(layers) <= LayerCount
    <3>1. layers \in Seq(Layers) /\ Len(layers) = 0
      BY DEF Init
    <3> QED
      BY <2>1, <3>1 DEF LayerCount
  <2> QED
    BY <2>2, LibraryAssumption, NoEntriesType DEF Init, TypeOK, Phases, Outcomes
<1> QED
  BY <1>1, TypeStep, PTL DEF Spec

-----------------------------------------------------------------------------
\* Entries are never taken back, and a merge changes exactly the paths that
\* the new layer has.

LEMMA MergeAt ==
    ASSUME NEW R \in [Paths -> EntrySet], NEW L \in Layers, NEW k \in Nat, NEW p \in Paths
    PROVE  /\ p \in EntriesOf(L) => Merge(R, L, k)[p] = EntryOf(L, k, p)
           /\ p \notin EntriesOf(L) => Merge(R, L, k)[p] = R[p]
BY DEF Merge

LEMMA MergeOccupies ==
    ASSUME NEW R \in [Paths -> EntrySet], NEW L \in Layers, NEW k \in Nat
    PROVE  Occupied(Merge(R, L, k)) = Occupied(R) \cup EntriesOf(L)
<1>1. \A p \in EntriesOf(L) : EntryOf(L, k, p) # NoEntry
  BY DEF EntryOf, NoEntry
<1> QED
  BY <1>1, MergeAt DEF Occupied, EntriesOf

\* A merged tree in which files and directories fit has grown out of one in
\* which they did.
LEMMA FitsBefore ==
    ASSUME NEW R \in [Paths -> EntrySet], NEW L \in Layers, NEW k \in Nat,
           Fits(Merge(R, L, k))
    PROVE  Fits(R)
BY MergeOccupies DEF Fits, IsDirectory

\* What a link of a solid layer points to is an entry of the merged tree or a
\* directory of it.
LEMMA TargetMerged ==
    ASSUME NEW R \in [Paths -> EntrySet], NEW L \in Layers, NEW k \in Nat,
           Solid(L), ValidLinks(L), NEW p \in LinksOf(L)
    PROVE  \/ L[p].target \in EntriesOf(L)
           \/ IsDirectory(Merge(R, L, k), L[p].target)
<1>1. L[p].target \in Paths /\ L[L[p].target].kind \in Leaves \cup {"dir"}
  BY DEF ValidLinks, TargetExists
<1>2. CASE L[L[p].target].kind = "dir"
  BY <1>1, <1>2, MergeOccupies DEF Solid, IsDirectory
<1> QED
  BY <1>1, <1>2 DEF EntriesOf

\* What is a link after the merge, at a path of the new layer, is a link of that
\* layer with the same target.
LEMMA MergedLink ==
    ASSUME NEW R \in [Paths -> EntrySet], NEW L \in Layers, NEW k \in Nat,
           NEW p \in EntriesOf(L), Merge(R, L, k)[p].kind = "link"
    PROVE  p \in LinksOf(L) /\ Merge(R, L, k)[p].target = L[p].target
<1>1. p \in Paths
  BY DEF EntriesOf
<1>2. Merge(R, L, k)[p] = EntryOf(L, k, p)
  BY <1>1, MergeAt
<1>3. CASE L[p].kind = "link"
  <2>1. EntryOf(L, k, p) = [kind |-> "link", target |-> L[p].target]
    BY <1>3 DEF EntryOf
  <2> QED
    BY <1>1, <1>2, <1>3, <2>1 DEF LinksOf
<1>4. CASE L[p].kind # "link"
  <2>1. EntryOf(L, k, p) = [kind |-> "file", source |-> k]
    BY <1>4 DEF EntryOf
  <2> QED
    BY <1>2, <2>1
<1> QED
  BY <1>3, <1>4

LEMMA MergeWhole ==
    ASSUME NEW R \in [Paths -> EntrySet], NEW L \in Layers, NEW k \in Nat,
           Solid(L), ValidLinks(L), Whole(R)
    PROVE  Whole(Merge(R, L, k))
<1> DEFINE M == Merge(R, L, k)
<1> SUFFICES ASSUME NEW p \in Links(M)
             PROVE  M[p].target \in Occupied(M) \/ IsDirectory(M, M[p].target)
  BY DEF Whole
<1>1. p \in Paths /\ M[p].kind = "link"
  BY DEF Links
<1>2. CASE p \in EntriesOf(L)
  <2>1. p \in LinksOf(L) /\ M[p].target = L[p].target
    BY <1>1, <1>2, MergedLink
  <2> QED
    BY <2>1, TargetMerged, MergeOccupies
<1>3. CASE p \notin EntriesOf(L)
  <2>1. p \in Links(R) /\ M[p].target = R[p].target
    BY <1>1, <1>3, MergeAt DEF Links
  <2> QED
    BY <2>1, MergeOccupies DEF Whole, IsDirectory
<1> QED
  BY <1>2, <1>3

\* A circle of links in the merged tree lies within the new layer or within the
\* tree before: a link of the new layer points to what that layer has, and
\* that is what the merged tree then has.
LEMMA MergeAcyclic ==
    ASSUME NEW R \in [Paths -> EntrySet], NEW L \in Layers, NEW k \in Nat,
           Solid(L), ValidLinks(L), Acyclic(R), Fits(Merge(R, L, k))
    PROVE  Acyclic(Merge(R, L, k))
<1> DEFINE M == Merge(R, L, k)
<1> SUFFICES ASSUME NEW C \in SUBSET Links(M), C # {},
                    \A p \in C : M[p].target \in C
             PROVE  FALSE
  BY DEF Acyclic, Circular
<1> DEFINE D == C \cap EntriesOf(L)
<1>1. CASE D = {}
  <2>1. \A p \in C : p \in Links(R) /\ M[p].target = R[p].target
    BY <1>1, MergeAt DEF Links
  <2> QED
    BY <2>1 DEF Acyclic, Circular
<1>2. CASE D # {}
  <2>1. ASSUME NEW p \in D
        PROVE  p \in LinksOf(L) /\ L[p].target \in D
    <3>1. p \in Paths /\ M[p].kind = "link"
      BY <2>1 DEF Links
    <3>2. p \in LinksOf(L) /\ M[p].target = L[p].target
      BY <2>1, <3>1, MergedLink
    <3>3. L[p].target \in C
      BY <2>1, <3>2
    <3>4. L[p].target \in Occupied(M)
      BY <3>3 DEF Links, Occupied, NoEntry
    <3>5. ~IsDirectory(M, L[p].target)
      BY <3>4 DEF Fits
    <3> QED
      BY <3>2, <3>3, <3>5, TargetMerged
  <2> QED
    BY <1>2, <2>1 DEF ValidLinks, Circular
<1> QED
  BY <1>1, <1>2

-----------------------------------------------------------------------------
\* resolve goes on by one layer, starts over or rests.

Merges == MergeLayer /\ Walks(NextLayer)
Rests  == UNCHANGED resolving

LEMMA ResolveStep ==
    ASSUME [Next]_vars
    PROVE  Merges \/ CallLoad \/ Rests
<1>1. CASE MergeLayer
  BY <1>1 DEF MergeLayer, Merges, Rests
<1>2. CASE Validate \/ Refuse \/ List \/ RenderLink \/ Load \/ LoadFails \/ Rendered \/ Edit
  BY <1>2 DEF Validate, Refuse, List, RenderLink, Load, LoadFails, Rendered, Edit, Rests,
              resolving
<1>3. CASE UNCHANGED vars
  BY <1>3 DEF vars, Rests, resolving
<1> QED
  BY <1>1, <1>2, <1>3 DEF Next

LEMMA MergesLayer ==
    ASSUME TypeOK, Merges
    PROVE  /\ NextLayer \in Layers /\ Walks(NextLayer)
           /\ layers \in Seq(Layers) /\ entries \in [Paths -> EntrySet]
           /\ entries' = Merge(entries, NextLayer, Len(layers) + 1)
           /\ layers' = Append(layers, NextLayer)
BY NextLayerIsThere DEF Merges, MergeLayer, TypeOK

-----------------------------------------------------------------------------
\* LinksLeadSomewhere is inductive: what fits after a merge has fitted before.

LEMMA NoLinks ==
    ASSUME entries = NoEntries
    PROVE  LinksLeadSomewhere
<1>1. \A p \in Paths : entries[p].kind # "link"
  BY DEF NoEntries, NoEntry
<1>2. Links(entries) = {}
  BY <1>1 DEF Links
<1> QED
  BY <1>2 DEF LinksLeadSomewhere, Whole, Acyclic, Circular

LEMMA LinksStep ==
    TypeOK /\ LinksLeadSomewhere /\ [Next]_vars => LinksLeadSomewhere'
<1> SUFFICES ASSUME TypeOK, LinksLeadSomewhere, [Next]_vars,
                    SolidLayers', Fits(entries')
             PROVE  Whole(entries') /\ Acyclic(entries')
  BY DEF LinksLeadSomewhere, Fits, Occupied, IsDirectory, Whole, Acyclic, Links
<1>1. CASE Rests
  BY <1>1 DEF Rests, resolving, LinksLeadSomewhere, SolidLayers
<1>2. CASE CallLoad
  <2>1. \A p \in Paths : entries'[p].kind # "link"
    BY <1>2 DEF CallLoad, NoEntries, NoEntry
  <2>2. Links(entries') = {}
    BY <2>1 DEF Links
  <2> QED
    BY <2>2 DEF Whole, Acyclic, Circular
<1>3. CASE Merges
  <2> DEFINE L == NextLayer
             k == Len(layers) + 1
  <2>1. /\ entries' = Merge(entries, L, k)
        /\ layers' = Append(layers, L)
        /\ L \in Layers /\ ValidLinks(L)
        /\ layers \in Seq(Layers) /\ k \in Nat
        /\ entries \in [Paths -> EntrySet]
    BY <1>3, MergesLayer DEF Walks
  <2> HIDE DEF L, k
  <2>2. Solid(L) /\ SolidLayers
    <3>1. /\ DOMAIN layers' = 1..(Len(layers) + 1)
          /\ layers'[Len(layers) + 1] = L
          /\ \A j \in DOMAIN layers : j \in DOMAIN layers' /\ layers'[j] = layers[j]
      BY <2>1
    <3>2. Len(layers) + 1 \in DOMAIN layers'
      BY <2>1, <3>1
    <3>3. \A j \in DOMAIN layers' : Solid(layers'[j])
      BY DEF SolidLayers, Solid
    <3> QED
      BY <3>1, <3>2, <3>3 DEF SolidLayers
  <2>3. Fits(Merge(entries, L, k))
    BY <2>1
  <2>4. Whole(entries) /\ Acyclic(entries)
    BY <2>1, <2>2, <2>3, FitsBefore DEF LinksLeadSomewhere
  <2> QED
    BY <2>1, <2>2, <2>3, <2>4, MergeWhole, MergeAcyclic
<1> QED
  BY <1>1, <1>2, <1>3, ResolveStep

\* The links of the effective tree lead somewhere and never in a circle,
\* whatever libraries, edits and selections there are.
THEOREM LinksStayValid == Spec => []LinksLeadSomewhere
<1>1. Init => LinksLeadSomewhere
  BY NoLinks DEF Init
<1> QED
  BY <1>1, LinksStep, TemplatesTypeCorrect, PTL DEF Spec

-----------------------------------------------------------------------------
\* LastWins is inductive as it stands: the new layer takes the paths it has and
\* leaves the others to the layer that had them.

LEMMA WinsAppend ==
    ASSUME NEW R \in [Paths -> EntrySet], NEW ls \in Seq(Layers), NEW L \in Layers,
           Wins(R, ls)
    PROVE  Wins(Merge(R, L, Len(ls) + 1), Append(ls, L))
<1> DEFINE n  == Len(ls) + 1
           M  == Merge(R, L, n)
           as == Append(ls, L)
<1>1. /\ n \in Nat /\ n \in DOMAIN as /\ as[n] = L
      /\ \A k \in DOMAIN as : k <= n /\ k \in Nat
      /\ \A k \in DOMAIN as : k \in DOMAIN ls \/ k = n
      /\ \A k \in DOMAIN ls : k \in DOMAIN as /\ as[k] = ls[k]
  OBVIOUS
<1> SUFFICES ASSUME NEW p \in Paths
             PROVE  \/ /\ M[p] = NoEntry
                       /\ \A k \in DOMAIN as : p \notin EntriesOf(as[k])
                    \/ \E k \in DOMAIN as :
                         /\ p \in EntriesOf(as[k])
                         /\ M[p] = EntryOf(as[k], k, p)
                         /\ \A j \in DOMAIN as : j > k => p \notin EntriesOf(as[j])
  BY DEF Wins
<1> HIDE DEF n, as
<1>2. CASE p \in EntriesOf(L)
  <2>1. M[p] = EntryOf(as[n], n, p)
    BY <1>1, <1>2, MergeAt
  <2>2. ASSUME NEW j \in DOMAIN as
        PROVE  ~(j > n)
    <3>1. j \in Nat /\ n \in Nat /\ j <= n
      BY <1>1
    <3> QED
      BY <3>1
  <2> QED
    BY <1>1, <1>2, <2>1, <2>2
<1>3. CASE p \notin EntriesOf(L)
  <2>1. M[p] = R[p]
    BY <1>1, <1>3, MergeAt
  <2>2. CASE R[p] = NoEntry /\ \A k \in DOMAIN ls : p \notin EntriesOf(ls[k])
    BY <1>1, <1>3, <2>1, <2>2
  <2>3. ASSUME NEW k \in DOMAIN ls,
               p \in EntriesOf(ls[k]),
               R[p] = EntryOf(ls[k], k, p),
               \A j \in DOMAIN ls : j > k => p \notin EntriesOf(ls[j])
        PROVE  /\ k \in DOMAIN as
               /\ p \in EntriesOf(as[k])
               /\ M[p] = EntryOf(as[k], k, p)
               /\ \A j \in DOMAIN as : j > k => p \notin EntriesOf(as[j])
    BY <1>1, <1>3, <2>1, <2>3
  <2> QED
    BY <2>2, <2>3 DEF Wins
<1> QED
  BY <1>2, <1>3

LEMMA NothingWins == Wins(NoEntries, << >>)
BY DEF Wins, NoEntries

LEMMA LastWinsStep ==
    TypeOK /\ LastWins /\ [Next]_vars => LastWins'
<1> SUFFICES ASSUME TypeOK, LastWins, [Next]_vars
             PROVE  Wins(entries', layers')
  BY DEF LastWins, Wins, EntriesOf, EntryOf
<1>1. CASE Rests
  BY <1>1 DEF Rests, resolving, LastWins
<1>2. CASE CallLoad
  BY <1>2, NothingWins DEF CallLoad
<1>3. CASE Merges
  BY <1>3, MergesLayer, WinsAppend DEF LastWins
<1> QED
  BY <1>1, <1>2, <1>3, ResolveStep

\* Each path of the effective tree shows the last merged layer that has an
\* entry there, whatever library, edits and selection there are.
THEOREM LastLayerWins == Spec => []LastWins
<1>1. Init => LastWins
  BY NothingWins DEF Init, LastWins
<1> QED
  BY <1>1, LastWinsStep, TemplatesTypeCorrect, PTL DEF Spec

-----------------------------------------------------------------------------
\* The listing and every Load resolve the same layers, as long as nobody edits
\* the library; and what wins is determined by the layers.

AllLayers == [k \in 1..LayerCount |-> LayerNo(k)]

LEMMA WinnerIsUnique ==
    ASSUME NEW R \in [Paths -> EntrySet], NEW Q \in [Paths -> EntrySet],
           NEW ls \in Seq(Layers), Wins(R, ls), Wins(Q, ls)
    PROVE  R = Q
<1> SUFFICES ASSUME NEW p \in Paths
             PROVE  R[p] = Q[p]
  OBVIOUS
<1>1. CASE \A k \in DOMAIN ls : p \notin EntriesOf(ls[k])
  BY <1>1 DEF Wins
<1>2. CASE \E k \in DOMAIN ls : p \in EntriesOf(ls[k])
  <2>1. PICK k \in DOMAIN ls :
           /\ p \in EntriesOf(ls[k])
           /\ R[p] = EntryOf(ls[k], k, p)
           /\ \A j \in DOMAIN ls : j > k => p \notin EntriesOf(ls[j])
    BY <1>2 DEF Wins
  <2>2. PICK i \in DOMAIN ls :
           /\ p \in EntriesOf(ls[i])
           /\ Q[p] = EntryOf(ls[i], i, p)
           /\ \A j \in DOMAIN ls : j > i => p \notin EntriesOf(ls[j])
    BY <1>2 DEF Wins
  <2>3. ~(i > k) /\ ~(k > i)
    BY <2>1, <2>2
  <2>4. i \in Nat /\ k \in Nat
    OBVIOUS
  <2>5. i = k
    BY <2>3, <2>4
  <2> QED
    BY <2>1, <2>2, <2>5
<1> QED
  BY <1>1, <1>2

SameLibrary ==
    ~edited =>
        /\ pc \in {"list", "render", "load"} => Accepted(selection)
        /\ \A k \in DOMAIN layers : layers[k] = LayerNo(k)
        /\ pc \in {"render", "load"} \/ outcome = "ok" => Wins(listed, AllLayers)
        /\ outcome \notin {"refused", "missing"}

FilesInv ==
    /\ pc \in {"validate", "list"} => files = NoEntries
    /\ pc \in {"validate", "list", "render", "load"} => outcome = "none"
    /\ pc = "load" => listed[name].kind = "file"
    /\ \A p \in Paths : files[p] # NoEntry =>
         /\ files[p].kind = listed[p].kind
         /\ listed[p].kind = "link" => files[p] = listed[p]
         /\ ~edited => files[p] = listed[p]
    /\ outcome = "ok" => pc = "done" /\ ToRender = {}

RenderInv == SameLibrary /\ FilesInv

\* What validation accepts is supported and available.
LEMMA AcceptedNotRefused ==
    ASSUME Accepted(selection)
    PROVE  ~Refused
<1>1. SupportsTemplateSet(selection.version, selection.template)
  BY DEF Accepted, ValidProfile, Available
<1>2. \A i \in DOMAIN selection.overlays :
         SupportsOverlay(selection.version, selection.overlays[i])
  BY DEF Accepted, ValidProfile, Available
<1> QED
  BY <1>1, <1>2 DEF Refused

\* A resolution that has ended in an unedited library has read all its layers.
LEMMA ResolvedAll ==
    ASSUME TypeOK, SameLibrary, ~edited, ~MoreLayers
    PROVE  layers = AllLayers
<1>1. Len(selection.overlays) \in Nat
  BY SelectionAssumption DEF TypeOK
<1>2. Len(layers) = LayerCount /\ LayerCount \in Nat
  BY <1>1 DEF TypeOK, MoreLayers, LayerCount
<1>3. layers = [k \in 1..Len(layers) |-> layers[k]]
  BY DEF TypeOK
<1>4. \A k \in 1..Len(layers) : layers[k] = LayerNo(k)
  BY DEF TypeOK, SameLibrary
<1> QED
  BY <1>2, <1>3, <1>4 DEF AllLayers

\* So a Load finds what was listed.
LEMMA LoadFindsListed ==
    ASSUME TypeOK, LastWins, SameLibrary, ~edited, pc = "load", ~MoreLayers
    PROVE  entries = listed
<1>1. layers = AllLayers
  BY ResolvedAll
<1>2. Wins(entries, layers) /\ Wins(listed, layers)
  BY <1>1 DEF LastWins, SameLibrary
<1> QED
  BY <1>2, WinnerIsUnique DEF TypeOK

\* What is derived from library and selection stays when they do.
LEMMA SameQuestions ==
    ASSUME library' = library, selection' = selection
    PROVE  /\ Accepted(selection)' = Accepted(selection)
           /\ AllLayers' = AllLayers
           /\ \A k : LayerNo(k)' = LayerNo(k)
<1>1. \A k : LayerNo(k)' = LayerNo(k)
  BY DEF LayerNo, RootsOf
<1>2. AllLayers' = AllLayers
  BY <1>1 DEF AllLayers, LayerCount
<1>3. Accepted(selection)' = Accepted(selection)
  BY DEF Accepted, ValidProfile, Available, SupportsVersion, SupportsTemplateSet,
         SupportsOverlay, HasLayer
<1> QED
  BY <1>1, <1>2, <1>3

\* A step within resolve or before it touches neither the list nor the files.
LEMMA FilesRest ==
    ASSUME FilesInv, UNCHANGED <<edited, rendering>>,
           (pc' = pc /\ outcome' = outcome) \/ (pc' = "done" /\ outcome' # "ok")
    PROVE  FilesInv'
BY DEF FilesInv, rendering, ToRender

LEMMA RenderStep ==
    TypeOK /\ LastWins /\ RenderInv /\ [Next]_vars => RenderInv'
<1> SUFFICES ASSUME TypeOK, LastWins, SameLibrary, FilesInv, [Next]_vars
             PROVE  SameLibrary' /\ FilesInv'
  BY DEF RenderInv
<1>1. CASE Validate
  <2>1. SameLibrary'
    <3>1. pc' = "list" => Accepted(selection)
      BY <1>1 DEF Validate, Return
    <3> QED
      BY <1>1, <3>1, SameQuestions DEF Validate, Return, SameLibrary, resolving, rendering, FilesInv
  <2>2. FilesInv'
    BY <1>1 DEF Validate, Return, FilesInv, resolving, rendering, ToRender
  <2> QED
    BY <2>1, <2>2
<1>2. CASE Refuse
  <2>1. edited
    BY <1>2, AcceptedNotRefused DEF Refuse, Resolving, SameLibrary
  <2>2. FilesInv'
    BY <1>2, FilesRest DEF Refuse, Return
  <2> QED
    BY <1>2, <2>1, <2>2 DEF Refuse, SameLibrary
<1>3. CASE MergeLayer
  <2>1. FilesInv'
    <3>1. UNCHANGED <<edited, rendering>>
      BY <1>3 DEF MergeLayer, rendering
    <3>2. (pc' = pc /\ outcome' = outcome) \/ (pc' = "done" /\ outcome' # "ok")
      <4>1. CASE Walks(NextLayer)
        BY <1>3, <4>1 DEF MergeLayer
      <4>2. CASE ~Walks(NextLayer)
        BY <1>3, <4>2 DEF MergeLayer, Return
      <4> QED
        BY <4>1, <4>2
    <3> QED
      BY <3>1, <3>2, FilesRest
  <2>2. CASE Walks(NextLayer)
    <3>1. layers' = Append(layers, NextLayer) /\ layers \in Seq(Layers) /\ NextLayer \in Layers
      BY <1>3, <2>2, MergesLayer DEF Merges
    <3>2. ~edited => \A k \in DOMAIN layers' : layers'[k] = LayerNo(k)
      BY <3>1 DEF SameLibrary, NextLayer
    <3> QED
      BY <1>3, <2>1, <2>2, <3>2, SameQuestions DEF MergeLayer, SameLibrary, rendering
  <2>3. CASE ~Walks(NextLayer)
    BY <1>3, <2>1, <2>3, SameQuestions DEF MergeLayer, Return, SameLibrary, rendering, resolving
  <2> QED
    BY <2>2, <2>3
<1>4. CASE List
  <2>1. ~edited => Wins(listed', AllLayers)
    BY <1>4, ResolvedAll DEF List, LastWins
  <2>2. SameLibrary'
    BY <1>4, <2>1, SameQuestions DEF List, SameLibrary, resolving
  <2>3. FilesInv'
    <3>1. \A p \in Paths : files'[p] = NoEntry
      BY <1>4 DEF List, FilesInv, NoEntries
    <3> QED
      BY <1>4, <3>1 DEF List, FilesInv
  <2> QED
    BY <2>2, <2>3
<1>5. CASE RenderLink
  <2>1. SameLibrary'
    BY <1>5, SameQuestions DEF RenderLink, SameLibrary, resolving
  <2>2. PICK p \in ToRender : files' = [files EXCEPT ![p] = listed[p]]
    BY <1>5 DEF RenderLink
  <2>3. \A q \in Paths : files'[q] = IF q = p THEN listed[p] ELSE files[q]
    BY <2>2 DEF TypeOK
  <2> QED
    BY <1>5, <2>1, <2>3 DEF RenderLink, FilesInv
<1>6. CASE CallLoad
  <2>1. SameLibrary'
    BY <1>6, SameQuestions DEF CallLoad, SameLibrary
  <2>2. listed[name'].kind = "file"
    BY <1>6 DEF CallLoad
  <2> QED
    BY <1>6, <2>1, <2>2 DEF CallLoad, FilesInv
<1>7. CASE Load
  <2>1. ~edited => entries = listed
    BY <1>7, LoadFindsListed DEF Load
  <2>2. listed[name].kind = "file" /\ name \in Paths
    BY <1>7 DEF Load, FilesInv, TypeOK
  <2>3. CASE IsRegular
    <3>1. SameLibrary'
      BY <1>7, <2>3, SameQuestions DEF Load, SameLibrary, resolving
    <3>2. \A q \in Paths : files'[q] = IF q = name THEN entries[name] ELSE files[q]
      BY <1>7, <2>3 DEF Load, TypeOK
    <3>3. entries[name].kind = "file"
      BY <2>3 DEF IsRegular
    <3> QED
      BY <1>7, <2>1, <2>2, <2>3, <3>1, <3>2, <3>3 DEF Load, FilesInv
  <2>4. CASE ~IsRegular
    <3>1. edited
      BY <2>1, <2>2, <2>4 DEF IsRegular
    <3> QED
      BY <1>7, <2>4, <3>1 DEF Load, Return, SameLibrary, FilesInv
  <2> QED
    BY <2>3, <2>4
<1>8. CASE Rendered
  <2>1. SameLibrary'
    BY <1>8, SameQuestions DEF Rendered, Return, SameLibrary, resolving, rendering
  <2>2. FilesInv'
    BY <1>8 DEF Rendered, Return, FilesInv, ToRender, rendering
  <2> QED
    BY <2>1, <2>2
<1>9. CASE Edit
  BY <1>9 DEF Edit, SameLibrary, FilesInv, ToRender, rendering
<1>10. CASE LoadFails
  <2>1. SameLibrary'
    BY <1>10, SameQuestions DEF LoadFails, Return, SameLibrary, resolving, rendering
  <2>2. FilesInv'
    BY <1>10, FilesRest DEF LoadFails, Return
  <2> QED
    BY <2>1, <2>2
<1>11. CASE UNCHANGED vars
  BY <1>11, SameQuestions DEF vars, SameLibrary, FilesInv, ToRender, resolving, rendering
<1> QED
  BY <1>1, <1>2, <1>3, <1>4, <1>5, <1>6, <1>7, <1>8, <1>9, <1>10, <1>11 DEF Next

LEMMA RenderInvariant == Spec => []RenderInv
<1>1. Init => RenderInv
  BY DEF Init, RenderInv, SameLibrary, FilesInv, NoEntries
<1> QED
  BY <1>1, RenderStep, TemplatesTypeCorrect, LastLayerWins, PTL DEF Spec

\* In a library that is not edited, a selection that validation accepts is never
\* refused by resolve, and no file that was listed is missing.
THEOREM AcceptedIsResolved == Spec => []AcceptedIsAvailable
<1>1. RenderInv => AcceptedIsAvailable
  BY DEF RenderInv, SameLibrary, AcceptedIsAvailable
<1> QED
  BY <1>1, RenderInvariant, PTL

\* A success of Render is all that was listed, whatever edits there are, and
\* from the listed layers if there are none.
THEOREM ListIsRendered == Spec => []RendersTheList
<1>1. TypeOK /\ RenderInv => RendersTheList
  <2> SUFFICES ASSUME TypeOK, FilesInv, outcome = "ok"
               PROVE  \A p \in Paths :
                         /\ files[p].kind = listed[p].kind
                         /\ listed[p].kind = "link" => files[p] = listed[p]
                         /\ ~edited => files[p] = listed[p]
    BY DEF RenderInv, RendersTheList, TypeOK
  <2> SUFFICES ASSUME NEW p \in Paths
               PROVE  /\ files[p].kind = listed[p].kind
                      /\ listed[p].kind = "link" => files[p] = listed[p]
                      /\ ~edited => files[p] = listed[p]
    OBVIOUS
  <2>1. CASE files[p] = NoEntry
    <3>1. listed[p] = NoEntry
      BY <2>1 DEF FilesInv, ToRender
    <3> QED
      BY <2>1, <3>1
  <2>2. CASE files[p] # NoEntry
    BY <2>2 DEF FilesInv
  <2> QED
    BY <2>1, <2>2
<1> QED
  BY <1>1, RenderInvariant, TemplatesTypeCorrect, PTL

=============================================================================
