------------------------------- MODULE Export -------------------------------
(***************************************************************************)
(* `radius-director export assets`: the templates and schemas of a release *)
(* are copied into the administrator's asset library, entry by entry, and  *)
(* never over what is there.  Exports may meet, fail and be killed, and the *)
(* administrator works in the library as well.                             *)
(***************************************************************************)
EXTENDS Naturals, Sequences, SequencesExt

CONSTANTS
    Exports,    \* the invocations
    Bundle,     \* the entries of the release, each directory before its content
    Admin,      \* who writes what no export writes
    Touched     \* the paths the administrator may write to

Entry == [path : Seq(STRING), kind : {"dir", "file", "link"}]

\* templates and schemas are the two trees; nothing is there twice.
ASSUME BundleAssumption ==
    /\ Bundle \in Seq(Entry)
    /\ Len(Bundle) > 0
    /\ \A i \in DOMAIN Bundle :
         LET path == Bundle[i].path IN
         /\ path # << >>
         /\ Len(path) = 1 => Bundle[i].kind = "dir"
         /\ Len(path) > 1 => \E j \in 1..(i - 1) : Bundle[j] = [path |-> Front(path), kind |-> "dir"]
         /\ \A j \in 1..(i - 1) : Bundle[j].path # path
    /\ Admin \notin Exports
    /\ Touched \subseteq {Bundle[i].path : i \in DOMAIN Bundle}

Assets == {Bundle[i].path : i \in DOMAIN Bundle}

Nothing   == [kind |-> "nothing"]
Directory == [kind |-> "dir"]
Item(by, whole) == [kind |-> "item", by |-> by, whole |-> whole]

VARIABLES
    library,    \* library[path]: what is there
    call,       \* the system call an export makes next
    entry,      \* the element of Bundle it is at
    result,     \* how it ends, "none" while it is undecided
    meddled     \* history: the administrator has changed the library

exportvars == <<library, call, entry, result, meddled>>

ExportTypeOK ==
    /\ library \in [Assets -> {Nothing, Directory}
                              \cup [kind : {"item"}, by : Exports \cup {Admin}, whole : BOOLEAN]]
    /\ call \in [Exports -> {"idle", "lstat", "readdir", "copy", "fill", "done"}]
    /\ entry \in [Exports -> DOMAIN Bundle]
    /\ meddled \in BOOLEAN
    /\ result \in [Exports -> {"none", "ok", "notEmpty", "notDirectory", "exists", "failed"}]

ExportInit ==
    /\ library \in {[path \in Assets |-> IF path \in DOMAIN found THEN found[path] ELSE Nothing] :
                    found \in [{path \in Assets : Len(path) = 1} ->
                                 {Nothing, Directory, Item(Admin, TRUE)}]}
    /\ meddled = \E path \in Assets : library[path].kind = "item"
    /\ call = [p \in Exports |-> "idle"]
    /\ entry = [p \in Exports |-> 1]
    /\ result = [p \in Exports |-> "none"]

Target(p) == Bundle[entry[p]].path
IsRoot(path) == Len(path) = 1
Inside(dir) == {path \in Assets : Len(path) = Len(dir) + 1 /\ Front(path) = dir}
Working(p) == call[p] \notin {"idle", "done"}

Call(p, c) == call' = [call EXCEPT ![p] = c] /\ UNCHANGED <<entry, result>>

End(p, why) ==
    /\ call' = [call EXCEPT ![p] = "done"]
    /\ result' = [result EXCEPT ![p] = why]
    /\ UNCHANGED entry

\* Mutant: the export is over when the templates are there.
AdvanceInTree(p) ==
    IF entry[p] = Len(Bundle) \/ IsRoot(Bundle[entry[p] + 1].path)
      THEN End(p, "ok")
      ELSE /\ entry' = [entry EXCEPT ![p] = @ + 1]
           /\ call' = [call EXCEPT ![p] = "copy"]
           /\ UNCHANGED result

Advance(p) ==
    IF entry[p] = Len(Bundle)
      THEN End(p, "ok")
      ELSE /\ entry' = [entry EXCEPT ![p] = @ + 1]
           /\ call' = [call EXCEPT ![p] =
                 IF IsRoot(Bundle[entry[p] + 1].path) THEN "lstat" ELSE "copy"]
           /\ UNCHANGED result

-----------------------------------------------------------------------------
BeginExport(p) ==
    /\ call[p] = "idle"
    /\ Call(p, "lstat")
    /\ UNCHANGED library

\* Is the target absent, or an empty directory?
Lstat(p) ==
    /\ call[p] = "lstat"
    /\ \/ library[Target(p)] = Nothing /\ Call(p, "copy")
       \/ library[Target(p)] = Directory /\ Call(p, "readdir")
       \/ library[Target(p)].kind = "item" /\ End(p, "notDirectory")
    /\ UNCHANGED library

ReadDir(p) ==
    /\ call[p] = "readdir"
    /\ IF \A path \in Inside(Target(p)) : library[path] = Nothing
         THEN Call(p, "copy")
         ELSE End(p, "notEmpty")
    /\ UNCHANGED library

\* Mutant: Mkdir instead of MkdirAll.
MakesNewDir(p) == library[Target(p)] = Nothing

\* MkdirAll is content with a directory that exists...
MakesDir(p) == library[Target(p)] \in {Nothing, Directory}

CopyDir(p) ==
    /\ call[p] = "copy"
    /\ Bundle[entry[p]].kind = "dir"
    /\ IF MakesDir(p)
         THEN /\ library' = [library EXCEPT ![Target(p)] = Directory]
              /\ Advance(p)
         ELSE End(p, "exists") /\ UNCHANGED library

\* Mutant: no O_EXCL.
MayTruncate(p) == library[Target(p)] # Directory

\* ...but O_EXCL and Symlink are not content with anything.
MayCreate(p) == library[Target(p)] = Nothing

CopyFile(p) ==
    /\ call[p] = "copy"
    /\ Bundle[entry[p]].kind = "file"
    /\ IF MayCreate(p)
         THEN library' = [library EXCEPT ![Target(p)] = Item(p, FALSE)] /\ Call(p, "fill")
         ELSE End(p, "exists") /\ UNCHANGED library

\* Nobody sees what is written to a file that was replaced meanwhile.
Fill(p) ==
    /\ call[p] = "fill"
    /\ library' = IF library[Target(p)] = Item(p, FALSE)
                    THEN [library EXCEPT ![Target(p)] = Item(p, TRUE)]
                    ELSE library
    /\ Advance(p)

CopyLink(p) ==
    /\ call[p] = "copy"
    /\ Bundle[entry[p]].kind = "link"
    /\ IF MayCreate(p)
         THEN library' = [library EXCEPT ![Target(p)] = Item(p, TRUE)] /\ Advance(p)
         ELSE End(p, "exists") /\ UNCHANGED library

\* Any call fails for a reason of its own, or the process is killed: a file it
\* was writing stays as it is.
ExportFails(p) ==
    /\ Working(p)
    /\ End(p, "failed")
    /\ UNCHANGED library

-----------------------------------------------------------------------------
\* The administrator writes a file, new or old, or deletes the library when no
\* export is at work, as has to be done before one that failed can be repeated.
Customise(path) ==
    /\ ~IsRoot(path)
    /\ library[path] # Directory
    /\ library[Front(path)] = Directory
    /\ library' = [library EXCEPT ![path] = Item(Admin, TRUE)]
    /\ meddled' = TRUE
    /\ UNCHANGED <<call, entry, result>>

Discard ==
    /\ \A p \in Exports : ~Working(p)
    /\ library' = [path \in Assets |-> Nothing]
    /\ meddled' = TRUE
    /\ UNCHANGED <<call, entry, result>>

Copying(p) ==
    \/ Lstat(p) \/ ReadDir(p)
    \/ CopyDir(p) \/ CopyFile(p) \/ Fill(p) \/ CopyLink(p)

ExportNext ==
    \/ /\ \E p \in Exports : BeginExport(p) \/ Copying(p) \/ ExportFails(p)
       /\ UNCHANGED meddled
    \/ \E path \in Touched : Customise(path)
    \/ Discard

ExportSpec == ExportInit /\ [][ExportNext]_exportvars

-----------------------------------------------------------------------------
\* Properties.

\* A file in the library, the administrator's or an export's, is never
\* overwritten by an export: only the export that has created it fills it.
NeverOverwrites ==
    [][\A path \in Assets :
         library[path].kind = "item" /\ library'[path] # library[path] =>
             \/ library'[path] \in {Nothing, Item(Admin, TRUE)}
             \/ \E p \in Exports : /\ library[path] = Item(p, FALSE)
                                   /\ library'[path] = Item(p, TRUE)]_exportvars

\* An export that reports success has left the whole release behind, never a
\* mixture with what another export has copied, complete or not.
SuccessIsWhole ==
    [][\A p \in Exports :
         result'[p] = "ok" /\ result[p] # "ok" =>
             \A i \in DOMAIN Bundle :
                 library'[Bundle[i].path] \in
                     IF Bundle[i].kind = "dir" THEN {Directory}
                     ELSE {Item(p, TRUE), Item(Admin, TRUE)}]_exportvars

\* Exports that meet in a library nobody else writes to do not all lose.
SomeoneExports ==
    ~meddled /\ (\A p \in Exports : result[p] \notin {"none", "failed"}) =>
        \E p \in Exports : result[p] = "ok"
=============================================================================
