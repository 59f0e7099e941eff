----------------------------- MODULE MCTemplates -----------------------------
(***************************************************************************)
(* Every small library for model checking Templates: two names at the top   *)
(* of a layer and one in a directory, and at each of them anything that can *)
(* be there; a template set and two overlays, some of which may be missing. *)
(* Some libraries are edited.                                               *)
(***************************************************************************)
EXTENDS Templates, TLC

A  == <<"a">>
B  == <<"b">>
AB == <<"a", "b">>
ThePaths == {A, B, AB}

Node(kind)   == [kind |-> kind, target |-> Outside]
LinkTo(path) == [kind |-> "link", target |-> path]

Plain == {Node("none"), Node("file")}
Linked == Plain \cup {LinkTo(t) : t \in ThePaths}

\* A directory a, with or without a file or link in it, or something else there.
Layered(S) ==
    {[p \in ThePaths |-> CASE p = A -> x [] p = B -> y [] p = AB -> z] :
        x \in S \cup {Node("dir")}, y \in S, z \in S}

Consistent(S) == {L \in Layered(S) : L[AB].kind # "none" => L[A].kind = "dir"}

\* A layer that cannot be walked for a reason of its own.
Broken == [p \in ThePaths |-> IF p = A THEN Node("special") ELSE Node("none")]
Escaping == [p \in ThePaths |-> IF p = A THEN LinkTo(Outside) ELSE Node("none")]

TheNames    == {"base", "one", "two", "./x"}
TheVersions == {"3.2.10", "9.9"}

\* The layers of S, at most a template set and two overlays.
V == "3.2.10"
Holding(S) == [versions |-> {V}, layer |-> S]

Set(L)       == Root(V, "sets", "base") :> L
OverlayOne(L) == Root(V, "overlays", "one") :> L
OverlayTwo(L) == Root(V, "overlays", "two") :> L

Good     == Consistent(Linked)
Unlinked == Consistent(Plain)
Bad      == {Broken, Escaping}

\* Second overlays: a file where others may have a directory, and one in it.
File(path) == [p \in ThePaths |->
    IF p = path THEN Node("file")
    ELSE IF p = A /\ path = AB THEN Node("dir") ELSE Node("none")]
Pointing == [p \in ThePaths |->
    IF p = A THEN Node("file") ELSE IF p = B THEN LinkTo(A) ELSE Node("none")]

MergedLibraries == {Holding(Set(x) @@ OverlayOne(y) @@ OverlayTwo(z)) :
                        x, y \in Good, z \in {File(A), File(AB), Pointing}}

\* What an administrator may leave in the middle of a generate: an overlay that
\* is gone, is another one with a link for a file, or cannot be walked, and a
\* set that is gone.
Changing == {Holding(Set(x) @@ OverlayOne(y)) : x \in {File(A), File(B)},
                                               y \in {File(B), File(AB), Pointing} \cup Bad}
Halved   == {Holding(Set(x)) : x \in Unlinked \cup Bad}
                \cup {Holding(OverlayOne(y)) : y \in Unlinked}

TheLibraries == MergedLibraries \cup Changing \cup Halved
TheEdits     == Changing \X (Changing \cup Halved)

Select(version, template, overlays) ==
    [version |-> version, template |-> template, overlays |-> overlays]

TheSelections ==
    {Select("3.2.10", "base", overlays) :
        overlays \in {<<>>, <<"one">>, <<"one", "two">>, <<"two", "one">>}}
    \cup {Select("9.9", "base", <<>>), Select("3.2.10", "one", <<>>),
          Select("3.2.10", "./x", <<>>), Select("3.2.10", "base", <<"./x">>),
          Select("3.2.10", "base", <<"base">>)}
=============================================================================
