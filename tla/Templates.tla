------------------------------ MODULE Templates ------------------------------
(***************************************************************************)
(* From the template selection of a tenant to its rendered files:           *)
(* validation decides whether the version, the template set and the         *)
(* overlays are available; Loader.resolve merges the template set and the   *)
(* overlays in their order, path by path, and checks the symlinks of each   *)
(* layer within that layer; Render lists what resolve has found and then    *)
(* loads every listed file, for which it resolves all the layers again,     *)
(* from a library that somebody may be editing.                             *)
(*                                                                         *)
(* A path is the sequence of its names.  A link is told by the path it      *)
(* points to; none points through another link or at the layer itself.      *)
(* An edit comes between two layers, never while one is walked.             *)
(***************************************************************************)
EXTENDS Naturals, Sequences

CONSTANTS
    Paths,       \* the paths below a layer
    Names,       \* template set and overlay names a configuration may use
    ValidNames,  \* those of them that are single path components
    Versions,    \* FreeRADIUS versions it may use
    Outside,     \* no path: a link target that is absolute, escapes the layer, is nowhere
    Libraries,   \* template libraries
    Edits,       \* pairs of them, before and after an edit
    Selections   \* what deployment profiles select

Leaves    == {"file", "link"}
NodeKinds == Leaves \cup {"none", "dir", "special"}

\* What is at a path of a layer; target says something of a link only.
Nodes  == [kind : NodeKinds, target : Paths \cup {Outside}]
Layers == [Paths -> Nodes]

Trees == {"sets", "overlays"}
Roots == [version : Versions, tree : Trees, name : Names]
Root(v, tree, n) == [version |-> v, tree |-> tree, name |-> n]

ASSUME SelectionAssumption ==
    /\ ValidNames \subseteq Names
    /\ Selections \subseteq
         [version : Versions, template : Names, overlays : Seq(Names)]

\* A library has a directory sets/<version> for some versions, and the layers
\* <tree>/<version>/<name> for some names.
IsLibrary(lib) ==
    /\ lib.versions \subseteq Versions
    /\ DOMAIN lib.layer \subseteq Roots
    /\ \A r \in DOMAIN lib.layer :
         /\ lib.layer[r] \in Layers
         /\ r.tree = "sets" => r.version \in lib.versions

ASSUME LibraryAssumption ==
    /\ \A lib \in Libraries : IsLibrary(lib)
    /\ Edits \subseteq Libraries \X Libraries

VARIABLES
    library,    \* the template library
    edited,     \* whether it has been edited since validation
    selection,  \* the tenant's version, template set and overlays
    pc,         \* "validate", "list", "render", "load" or "done"
    layers,     \* the layers that the current call of resolve has merged
    entries,    \* its resolved.entries
    listed,     \* what ManagedTemplateEntries has returned
    name,       \* the file that Load is asked for
    files,      \* what has been rendered
    outcome     \* how it ends, "none" while it is undecided

resolving == <<layers, entries>>
rendering == <<listed, name, files>>
vars == <<library, edited, selection, pc, resolving, rendering, outcome>>

-----------------------------------------------------------------------------
\* Loader: what is available.

SupportsVersion(v) == v \in library.versions

HasLayer(v, tree, n) == Root(v, tree, n) \in DOMAIN library.layer

SupportsTemplateSet(v, n) ==
    SupportsVersion(v) /\ n \in ValidNames /\ HasLayer(v, "sets", n)

SupportsOverlay(v, n) ==
    SupportsVersion(v) /\ n \in ValidNames /\ HasLayer(v, "overlays", n)

-----------------------------------------------------------------------------
\* Validate, as far as the selection goes: validateRADIUSServer,
\* validateDeploymentProfile and validateTemplateAvailability.

ValidProfile(s) ==
    s.template \in ValidNames /\ \A i \in DOMAIN s.overlays : s.overlays[i] \in ValidNames

\* Mutant: only the template set is looked for.
AvailableSet(s) ==
    SupportsVersion(s.version) =>
      (s.template \in ValidNames => SupportsTemplateSet(s.version, s.template))

\* Identifiers that are invalid have been reported already.
Available(s) ==
    SupportsVersion(s.version) =>
      /\ s.template \in ValidNames => SupportsTemplateSet(s.version, s.template)
      /\ \A i \in DOMAIN s.overlays :
           s.overlays[i] \in ValidNames => SupportsOverlay(s.version, s.overlays[i])

Accepted(s) == SupportsVersion(s.version) /\ ValidProfile(s) /\ Available(s)

-----------------------------------------------------------------------------
\* A layer.

EntriesOf(L) == {p \in Paths : L[p].kind \in Leaves}
LinksOf(L)   == {p \in Paths : L[p].kind = "link"}

\* Following links from link to link leads in a circle.
Circular(links, target) ==
    \E C \in SUBSET links : C # {} /\ \A p \in C : target[p] \in C

\* Mutant: an absolute target is let through.
TargetAnywhere(L, p) ==
    L[p].target \in Paths => L[L[p].target].kind \in Leaves \cup {"dir"}

TargetExists(L, p) ==
    L[p].target \in Paths /\ L[L[p].target].kind \in Leaves \cup {"dir"}

\* Mutant: only the first step of a link is looked at.
FirstStepOnly(L) == \A p \in LinksOf(L) : TargetExists(L, p)

\* validateSymlink for every link of the layer: inside the layer, there, and
\* after a number of links a file or a directory.
ValidLinks(L) ==
    /\ \A p \in LinksOf(L) : TargetExists(L, p)
    /\ ~Circular(LinksOf(L), [p \in LinksOf(L) |-> L[p].target])

\* mergeTemplateTree walks the layer and gives up at a bad link or at an entry
\* that is neither a directory, a file nor a link.
Walks(L) == ValidLinks(L) /\ \A p \in Paths : L[p].kind # "special"

-----------------------------------------------------------------------------
\* The effective tree.  An entry has its kind, its target and the layer whose
\* file it is, by its number.

NoEntry == [kind |-> "none"]
EntrySet ==
    [kind : {"file"}, source : Nat] \cup [kind : {"link"}, target : Paths] \cup {NoEntry}

EntryOf(L, k, p) ==
    IF L[p].kind = "link" THEN [kind |-> "link", target |-> L[p].target]
                          ELSE [kind |-> "file", source |-> k]

\* Mutant: the earlier layer wins.
MergeUnder(R, L, k) ==
    [p \in Paths |-> IF R[p] = NoEntry /\ p \in EntriesOf(L) THEN EntryOf(L, k, p)
                                                           ELSE R[p]]

Merge(R, L, k) ==
    [p \in Paths |-> IF p \in EntriesOf(L) THEN EntryOf(L, k, p) ELSE R[p]]

\* The layers in the order in which resolve merges them.
RootsOf(s) ==
    [k \in 1..(Len(s.overlays) + 1) |->
        IF k = 1 THEN Root(s.version, "sets", s.template)
                 ELSE Root(s.version, "overlays", s.overlays[k - 1])]

LayerNo(k) == library.layer[RootsOf(selection)[k]]

LayerCount == Len(selection.overlays) + 1

NoEntries == [p \in Paths |-> NoEntry]

Phases   == {"validate", "list", "render", "load", "done"}
Outcomes == {"none", "ok", "invalid", "refused", "badLayer", "missing", "badTemplate"}

TypeOK ==
    /\ IsLibrary(library)
    /\ edited \in BOOLEAN
    /\ selection \in Selections
    /\ pc \in Phases
    /\ layers \in Seq(Layers) /\ Len(layers) <= LayerCount
    /\ entries \in [Paths -> EntrySet]
    /\ listed \in [Paths -> EntrySet]
    /\ name \in Paths \cup {Outside}
    /\ pc = "load" => name \in Paths
    /\ files \in [Paths -> EntrySet]
    /\ outcome \in Outcomes

Init ==
    /\ library \in Libraries
    /\ edited = FALSE
    /\ selection \in Selections
    /\ pc = "validate"
    /\ layers = << >>
    /\ entries = NoEntries
    /\ listed = NoEntries
    /\ name = Outside
    /\ files = NoEntries
    /\ outcome = "none"

Return(why) == pc' = "done" /\ outcome' = why

-----------------------------------------------------------------------------
Validate ==
    /\ pc = "validate"
    /\ IF Accepted(selection)
         THEN pc' = "list" /\ UNCHANGED outcome
         ELSE Return("invalid")
    /\ UNCHANGED <<library, edited, selection, resolving, rendering>>

\* resolve, for ManagedTemplateEntries and for Load.
Resolving == pc \in {"list", "load"}

MoreLayers == Len(layers) < LayerCount

\* The guards before a layer is merged.
Refused ==
    \/ layers = << >> /\ ~SupportsTemplateSet(selection.version, selection.template)
    \/ Len(layers) \in DOMAIN selection.overlays
       /\ ~SupportsOverlay(selection.version, selection.overlays[Len(layers)])

Refuse ==
    /\ Resolving
    /\ MoreLayers
    /\ Refused
    /\ Return("refused")
    /\ UNCHANGED <<library, edited, selection, resolving, rendering>>

NextLayer == LayerNo(Len(layers) + 1)

\* mergeTemplateTree of the next layer.
MergeLayer ==
    /\ Resolving
    /\ MoreLayers
    /\ ~Refused
    /\ \/ /\ Walks(NextLayer)
          /\ entries' = Merge(entries, NextLayer, Len(layers) + 1)
          /\ layers' = Append(layers, NextLayer)
          /\ UNCHANGED <<pc, outcome>>
       \/ /\ ~Walks(NextLayer)
          /\ Return("badLayer")
          /\ UNCHANGED resolving
    /\ UNCHANGED <<library, edited, selection, rendering>>

\* ManagedTemplateEntries returns.
List ==
    /\ pc = "list"
    /\ ~MoreLayers
    /\ listed' = entries
    /\ pc' = "render"
    /\ UNCHANGED <<library, edited, selection, resolving, name, files, outcome>>

\* The loop of Render over the list, in any order.
ToRender == {p \in Paths : listed[p] # NoEntry /\ files[p] = NoEntry}

RenderLink ==
    /\ pc = "render"
    /\ \E p \in ToRender :
         /\ listed[p].kind = "link"
         /\ files' = [files EXCEPT ![p] = listed[p]]
    /\ UNCHANGED <<library, edited, selection, pc, resolving, listed, name, outcome>>

CallLoad ==
    /\ pc = "render"
    /\ \E p \in ToRender : listed[p].kind = "file" /\ name' = p
    /\ pc' = "load"
    /\ layers' = << >>
    /\ entries' = NoEntries
    /\ UNCHANGED <<library, edited, selection, listed, files, outcome>>

\* Mutant: a link will do.
IsThere == entries[name] # NoEntry

IsRegular == entries[name].kind = "file"

\* Load has resolved the layers and looks for its file.
Load ==
    /\ pc = "load"
    /\ ~MoreLayers
    /\ IF IsRegular
         THEN /\ files' = [files EXCEPT ![name] = entries[name]]
              /\ pc' = "render"
              /\ UNCHANGED outcome
         ELSE Return("missing") /\ UNCHANGED files
    /\ UNCHANGED <<library, edited, selection, resolving, listed, name>>

\* The file is no template, or it cannot be executed for this tenant.
LoadFails ==
    /\ pc = "load"
    /\ ~MoreLayers
    /\ IsRegular
    /\ Return("badTemplate")
    /\ UNCHANGED <<library, edited, selection, resolving, rendering>>

Rendered ==
    /\ pc = "render"
    /\ ToRender = {}
    /\ Return("ok")
    /\ UNCHANGED <<library, edited, selection, resolving, rendering>>

\* External: the library is edited while generate runs.
Edit ==
    /\ pc \in {"list", "render", "load"}
    /\ ~edited
    /\ \E edit \in Edits : edit[1] = library /\ library' = edit[2]
    /\ edited' = TRUE
    /\ UNCHANGED <<selection, pc, resolving, rendering, outcome>>

Next ==
    \/ Validate
    \/ Refuse \/ MergeLayer
    \/ List \/ RenderLink \/ CallLoad \/ Load \/ LoadFails \/ Rendered
    \/ Edit

Spec == Init /\ [][Next]_vars

-----------------------------------------------------------------------------
\* Properties.

\* The later of two layers wins, whatever kind of entry either of them has at
\* the path, and nothing else changes: an entry of the effective tree is that
\* of the last merged layer that has one, and there is none where no merged
\* layer has one.
Wins(R, ls) ==
    \A p \in Paths :
        \/ /\ R[p] = NoEntry
           /\ \A k \in DOMAIN ls : p \notin EntriesOf(ls[k])
        \/ \E k \in DOMAIN ls :
             /\ p \in EntriesOf(ls[k])
             /\ R[p] = EntryOf(ls[k], k, p)
             /\ \A j \in DOMAIN ls : j > k => p \notin EntriesOf(ls[j])

LastWins == Wins(entries, layers)

\* Unless the library is edited, what validation accepts is not refused as
\* unsupported or unavailable, and what Render lists it also finds: the two ask
\* the library the same questions, and so do the listing and every Load.
AcceptedIsAvailable == ~edited => outcome \notin {"refused", "missing"}

\* When Render succeeds it has rendered what it has listed, each entry as the
\* kind that was listed and each link with the target that was listed, even if
\* the library was edited under it; if not, from the very layer that was listed.
RendersTheList ==
    outcome = "ok" =>
        /\ \A p \in Paths :
             /\ files[p].kind = listed[p].kind
             /\ listed[p].kind = "link" => files[p] = listed[p]
        /\ ~edited => files = listed

\* A link of the effective tree comes from one layer and what it points to may
\* come from another one.  All the same, when no path is an entry and a
\* directory at once and no merged layer has an empty directory, every link
\* points to something that is written, and no links lead in a circle.
Occupied(R) == {p \in Paths : R[p] # NoEntry}
Below(q, p) == Len(q) > Len(p) /\ SubSeq(q, 1, Len(p)) = p
IsDirectory(R, p) == \E q \in Occupied(R) : Below(q, p)

Fits(R)  == \A p \in Occupied(R) : ~IsDirectory(R, p)
Solid(L) == \A p \in Paths : L[p].kind = "dir" => \E q \in EntriesOf(L) : Below(q, p)

Links(R) == {p \in Paths : R[p].kind = "link"}
Whole(R) == \A p \in Links(R) : R[p].target \in Occupied(R) \/ IsDirectory(R, R[p].target)
Acyclic(R) == ~Circular(Links(R), [p \in Links(R) |-> R[p].target])

SolidLayers == \A k \in DOMAIN layers : Solid(layers[k])

LinksLeadSomewhere == SolidLayers /\ Fits(entries) => Whole(entries) /\ Acyclic(entries)
=============================================================================
