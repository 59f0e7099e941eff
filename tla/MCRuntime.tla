----------------------------- MODULE MCRuntime -----------------------------
(***************************************************************************)
(* Values for model checking Runtime.  Invocations, directories and network *)
(* names are interchangeable.                                              *)
(***************************************************************************)
EXTENDS Runtime, TLC

\* All invocations in directories of which each has one at a time, or all of
\* them at once in a directory they share.
Apart    == [Procs -> SerialRoots]
Together == [Procs -> Roots \ SerialRoots]
Everywhere == Apart \cup Together

Symmetry ==
    Permutations(Procs) \cup Permutations(SerialRoots)
    \cup Permutations(Roots \ SerialRoots) \cup Permutations(Networks)

\* Kills are explored in directories of which each has one invocation at a time.
\* Where invocations meet in one, a kill is one more way not to go on.
Explored == root \in Together => \A p \in Procs : outcome[p] # "crashed"
=============================================================================
