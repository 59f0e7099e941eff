---------------------------- MODULE ExportProofs ----------------------------
(***************************************************************************)
(* Theorems about Export, for any release, any exports and any paths the   *)
(* administrator writes to.                                                *)
(***************************************************************************)
EXTENDS Export, TLAPS

LEMMA TargetIsAsset ==
    ASSUME ExportTypeOK, NEW p \in Exports
    PROVE  Target(p) \in Assets /\ entry[p] \in DOMAIN Bundle
BY DEF ExportTypeOK, Target, Assets

LEMMA BundleLength == Len(Bundle) \in Nat \ {0} /\ DOMAIN Bundle = 1..Len(Bundle)
BY BundleAssumption

LEMMA KindsOfNodes ==
    /\ Nothing.kind = "nothing"
    /\ Directory.kind = "dir"
    /\ \A by, whole : Item(by, whole).kind = "item"
BY DEF Nothing, Directory, Item

\* What ends or goes on does so within the types.
LEMMA CallType ==
    ASSUME ExportTypeOK, NEW p \in Exports,
           NEW c \in {"idle", "lstat", "readdir", "copy", "fill", "done"}, Call(p, c)
    PROVE  /\ call' \in [Exports -> {"idle", "lstat", "readdir", "copy", "fill", "done"}]
           /\ UNCHANGED <<entry, result>>
BY DEF ExportTypeOK, Call

LEMMA EndType ==
    ASSUME ExportTypeOK, NEW p \in Exports,
           NEW why \in {"ok", "notEmpty", "notDirectory", "exists", "failed"}, End(p, why)
    PROVE  /\ call' \in [Exports -> {"idle", "lstat", "readdir", "copy", "fill", "done"}]
           /\ result' \in [Exports -> {"none", "ok", "notEmpty", "notDirectory", "exists", "failed"}]
           /\ UNCHANGED entry
BY DEF ExportTypeOK, End

LEMMA AdvanceType ==
    ASSUME ExportTypeOK, NEW p \in Exports, Advance(p)
    PROVE  /\ call' \in [Exports -> {"idle", "lstat", "readdir", "copy", "fill", "done"}]
           /\ result' \in [Exports -> {"none", "ok", "notEmpty", "notDirectory", "exists", "failed"}]
           /\ entry' \in [Exports -> DOMAIN Bundle]
<1>1. CASE entry[p] = Len(Bundle)
  BY <1>1, EndType DEF Advance, ExportTypeOK
<1>2. CASE entry[p] # Len(Bundle)
  <2>1. entry[p] + 1 \in DOMAIN Bundle
    BY <1>2, TargetIsAsset, BundleLength
  <2> QED
    BY <1>2, <2>1 DEF Advance, ExportTypeOK
<1> QED
  BY <1>1, <1>2

LEMMA LibraryType ==
    ASSUME ExportTypeOK, NEW p \in Exports, NEW whole \in BOOLEAN,
           library' = [library EXCEPT ![Target(p)] = Item(p, whole)]
    PROVE  library' \in [Assets -> {Nothing, Directory}
                              \cup [kind : {"item"}, by : Exports \cup {Admin}, whole : BOOLEAN]]
<1>1. Item(p, whole) \in [kind : {"item"}, by : Exports \cup {Admin}, whole : BOOLEAN]
  BY DEF Item
<1> QED
  BY <1>1, TargetIsAsset DEF ExportTypeOK

LEMMA ExportTypeStep == ExportTypeOK /\ [ExportNext]_exportvars => ExportTypeOK'
<1> SUFFICES ASSUME ExportTypeOK, [ExportNext]_exportvars
             PROVE  ExportTypeOK'
  OBVIOUS
<1> USE DEF ExportTypeOK
<1>1. ASSUME NEW p \in Exports, BeginExport(p), UNCHANGED meddled
      PROVE  ExportTypeOK'
  BY <1>1, CallType DEF BeginExport
<1>2. ASSUME NEW p \in Exports, Lstat(p), UNCHANGED meddled
      PROVE  ExportTypeOK'
  BY <1>2, CallType, EndType DEF Lstat
<1>3. ASSUME NEW p \in Exports, ReadDir(p), UNCHANGED meddled
      PROVE  ExportTypeOK'
  BY <1>3, CallType, EndType DEF ReadDir
<1>4. ASSUME NEW p \in Exports, CopyDir(p), UNCHANGED meddled
      PROVE  ExportTypeOK'
  BY <1>4, AdvanceType, EndType, TargetIsAsset DEF CopyDir
<1>5. ASSUME NEW p \in Exports, CopyFile(p), UNCHANGED meddled
      PROVE  ExportTypeOK'
  <2>1. CASE MayCreate(p)
    <3>1. library' = [library EXCEPT ![Target(p)] = Item(p, FALSE)] /\ Call(p, "fill")
      BY <1>5, <2>1 DEF CopyFile
    <3> QED
      BY <1>5, <3>1, CallType, LibraryType
  <2>2. CASE ~MayCreate(p)
    BY <1>5, <2>2, EndType DEF CopyFile
  <2> QED
    BY <2>1, <2>2
<1>6. ASSUME NEW p \in Exports, Fill(p), UNCHANGED meddled
      PROVE  ExportTypeOK'
  BY <1>6, AdvanceType, LibraryType DEF Fill
<1>7. ASSUME NEW p \in Exports, CopyLink(p), UNCHANGED meddled
      PROVE  ExportTypeOK'
  <2>1. CASE MayCreate(p)
    <3>1. library' = [library EXCEPT ![Target(p)] = Item(p, TRUE)] /\ Advance(p)
      BY <1>7, <2>1 DEF CopyLink
    <3> QED
      BY <1>7, <3>1, AdvanceType, LibraryType
  <2>2. CASE ~MayCreate(p)
    BY <1>7, <2>2, EndType DEF CopyLink
  <2> QED
    BY <2>1, <2>2
<1>8. ASSUME NEW p \in Exports, ExportFails(p), UNCHANGED meddled
      PROVE  ExportTypeOK'
  BY <1>8, EndType DEF ExportFails
<1>9. ASSUME NEW path \in Touched, Customise(path)
      PROVE  ExportTypeOK'
  BY <1>9 DEF Customise, Item
<1>10. CASE Discard
  BY <1>10 DEF Discard
<1>11. CASE UNCHANGED exportvars
  BY <1>11 DEF exportvars
<1> QED
  BY <1>1, <1>2, <1>3, <1>4, <1>5, <1>6, <1>7, <1>8, <1>9, <1>10, <1>11 DEF ExportNext, Copying

LEMMA ExportInitType == ExportInit => ExportTypeOK
<1> SUFFICES ASSUME ExportInit
             PROVE  ExportTypeOK
  OBVIOUS
<1>1. library \in [Assets -> {Nothing, Directory}
                              \cup [kind : {"item"}, by : Exports \cup {Admin}, whole : BOOLEAN]]
  <2> DEFINE Roots == {path \in Assets : Len(path) = 1}
  <2>1. PICK found \in [Roots -> {Nothing, Directory, Item(Admin, TRUE)}] :
          library = [path \in Assets |-> IF path \in DOMAIN found THEN found[path] ELSE Nothing]
    BY DEF ExportInit
  <2>2. Item(Admin, TRUE) \in [kind : {"item"}, by : Exports \cup {Admin}, whole : BOOLEAN]
    BY DEF Item
  <2> QED
    BY <2>1, <2>2
<1>2. 1 \in DOMAIN Bundle
  BY BundleLength
<1>3. meddled \in BOOLEAN
  <2> DEFINE Found == \E path \in Assets : library[path].kind = "item"
  <2>1. Found \in BOOLEAN
    OBVIOUS
  <2>2. meddled = Found
    BY DEF ExportInit
  <2> QED
    BY <2>1, <2>2
<1> QED
  BY <1>1, <1>2, <1>3 DEF ExportInit, ExportTypeOK

\* The types of Export hold in every behaviour.
THEOREM ExportTypeCorrect == ExportSpec => []ExportTypeOK
BY ExportInitType, ExportTypeStep, PTL DEF ExportSpec

-----------------------------------------------------------------------------
\* What a step may do to a path.

LEMMA DistinctNodes ==
    /\ Nothing # Directory
    /\ \A by, whole : Item(by, whole) # Nothing /\ Item(by, whole) # Directory
    /\ \A a, b : Item(a, TRUE) # Item(b, FALSE)
    /\ \A a, b, v, w : Item(a, v) = Item(b, w) => a = b
<1>1. \A a, v : Item(a, v).by = a
  BY DEF Item
<1>2. \A a, b : Item(a, TRUE) # Item(b, FALSE)
  BY DEF Item
<1>3. \A a, v : Item(a, v) # Nothing /\ Item(a, v) # Directory
  BY KindsOfNodes
<1>4. \A a, b, v, w : Item(a, v) = Item(b, w) => a = b
  BY <1>1
<1>5. Nothing # Directory
  BY KindsOfNodes
<1> QED
  BY <1>2, <1>3, <1>4, <1>5

Discarded(path) == Discard /\ library'[path] = Nothing

Customised(path) ==
    library[path] # Directory /\ library'[path] = Item(Admin, TRUE) /\ meddled'

Made(path) ==
    \E p \in Exports : /\ call[p] = "copy" /\ path = Target(p)
                       /\ library[path] = Nothing
                       /\ library'[path] \in {Directory, Item(p, TRUE), Item(p, FALSE)}

Filled(path) ==
    \E p \in Exports : /\ Fill(p) /\ path = Target(p)
                       /\ library[path] = Item(p, FALSE)
                       /\ library'[path] = Item(p, TRUE)

LEMMA Changes ==
    ASSUME ExportTypeOK, [ExportNext]_exportvars, NEW path \in Assets,
           library'[path] # library[path]
    PROVE  Discarded(path) \/ Customised(path) \/ Made(path) \/ Filled(path)
<1>1. ASSUME NEW p \in Exports, CopyDir(p)
      PROVE  Made(path)
  BY <1>1, TargetIsAsset DEF CopyDir, MakesDir, Made, ExportTypeOK
<1>2. ASSUME NEW p \in Exports, CopyFile(p)
      PROVE  Made(path)
  BY <1>2, TargetIsAsset DEF CopyFile, MayCreate, Made, ExportTypeOK
<1>3. ASSUME NEW p \in Exports, CopyLink(p)
      PROVE  Made(path)
  BY <1>3, TargetIsAsset DEF CopyLink, MayCreate, Made, ExportTypeOK
<1>4. ASSUME NEW p \in Exports, Fill(p)
      PROVE  Filled(path)
  BY <1>4, TargetIsAsset DEF Fill, Filled, ExportTypeOK
<1>5. ASSUME NEW q \in Touched, Customise(q)
      PROVE  Customised(path)
  BY <1>5 DEF Customise, Customised, ExportTypeOK
<1>6. CASE Discard
  BY <1>6 DEF Discard, Discarded
<1>7. ASSUME NEW p \in Exports, BeginExport(p) \/ Lstat(p) \/ ReadDir(p) \/ ExportFails(p)
      PROVE  FALSE
  BY <1>7 DEF BeginExport, Lstat, ReadDir, ExportFails
<1>8. CASE UNCHANGED exportvars
  BY <1>8 DEF exportvars
<1> QED
  BY <1>1, <1>2, <1>3, <1>4, <1>5, <1>6, <1>7, <1>8 DEF ExportNext, Copying

\* An export never overwrites a file, whoever has written it: every behaviour of
\* copyEntry with O_EXCL and Symlink.
THEOREM ExportNeverOverwrites == ExportSpec => NeverOverwrites
<1>1. ExportTypeOK /\ [ExportNext]_exportvars =>
        [\A path \in Assets :
           library[path].kind = "item" /\ library'[path] # library[path] =>
             \/ library'[path] \in {Nothing, Item(Admin, TRUE)}
             \/ \E p \in Exports : /\ library[path] = Item(p, FALSE)
                                   /\ library'[path] = Item(p, TRUE)]_exportvars
  <2> SUFFICES ASSUME ExportTypeOK, [ExportNext]_exportvars, NEW path \in Assets,
                      library[path].kind = "item", library'[path] # library[path]
               PROVE  \/ library'[path] \in {Nothing, Item(Admin, TRUE)}
                      \/ \E p \in Exports : /\ library[path] = Item(p, FALSE)
                                            /\ library'[path] = Item(p, TRUE)
    OBVIOUS
  <2>1. ~Made(path)
    BY KindsOfNodes DEF Made
  <2> QED
    BY <2>1, Changes DEF Discarded, Customised, Filled
<1> QED
  BY <1>1, ExportTypeCorrect, PTL DEF ExportSpec, NeverOverwrites

-----------------------------------------------------------------------------
\* An export has left behind what it has been through.

Holds(p, i) ==
    library[Bundle[i].path] \in
        IF Bundle[i].kind = "dir" THEN {Directory} ELSE {Item(p, TRUE), Item(Admin, TRUE)}

WholeInv ==
    \A p \in Exports :
        /\ call[p] = "idle" => entry[p] = 1
        /\ Working(p) => \A i \in 1..(entry[p] - 1) : Holds(p, i)
        /\ call[p] = "fill" => /\ Bundle[entry[p]].kind = "file"
                              /\ library[Target(p)] \in {Item(p, FALSE), Item(Admin, TRUE)}

LEMMA HoldsOn ==
    ASSUME ExportTypeOK, [ExportNext]_exportvars, ~Discard,
           NEW p \in Exports, NEW i \in DOMAIN Bundle, Holds(p, i)
    PROVE  Holds(p, i)'
<1> DEFINE path == Bundle[i].path
<1>1. path \in Assets
  BY DEF Assets
<1>2. CASE library'[path] = library[path]
  BY <1>2 DEF Holds
<1>3. CASE library'[path] # library[path]
  <2>1. library[path] \in {Directory, Item(p, TRUE), Item(Admin, TRUE)}
    BY DEF Holds
  <2>2. ~Discarded(path)
    BY DEF Discarded
  <2>3. ~Made(path)
    BY <2>1, DistinctNodes DEF Made
  <2>4. ~Filled(path)
    BY <2>1, DistinctNodes DEF Filled
  <2>5. Customised(path)
    BY <1>1, <1>3, <2>2, <2>3, <2>4, Changes
  <2> QED
    BY <2>5, DistinctNodes DEF Customised, Holds
<1> QED
  BY <1>2, <1>3

\* The call that makes an entry complete.
LEMMA EntryComplete ==
    ASSUME ExportTypeOK, WholeInv, [ExportNext]_exportvars, ~Discard, NEW p \in Exports,
           (CopyDir(p) /\ MakesDir(p)) \/ Fill(p) \/ (CopyLink(p) /\ MayCreate(p))
    PROVE  \A i \in 1..entry[p] : Holds(p, i)'
<1>1. Working(p) /\ entry[p] \in DOMAIN Bundle /\ Target(p) \in Assets
  BY TargetIsAsset DEF Working, CopyDir, Fill, CopyLink
<1>2. \A i \in 1..(entry[p] - 1) : Holds(p, i)'
  <2> SUFFICES ASSUME NEW i \in 1..(entry[p] - 1)
               PROVE  Holds(p, i)'
    OBVIOUS
  <2>1. i \in DOMAIN Bundle
    BY <1>1, BundleLength
  <2> QED
    BY <1>1, <2>1, HoldsOn DEF WholeInv
<1>3. ASSUME NEW i, i = entry[p]
      PROVE  Holds(p, i)'
  <2> Target(p) = Bundle[i].path
    BY <1>3 DEF Target
  <2>1. CASE CopyDir(p) /\ MakesDir(p)
    BY <1>1, <1>3, <2>1 DEF CopyDir, Holds, ExportTypeOK
  <2>2. CASE Fill(p)
    <3>1. Bundle[entry[p]].kind = "file"
      BY <2>2 DEF Fill, WholeInv
    <3>2. library'[Target(p)] \in {Item(p, TRUE), Item(Admin, TRUE)}
      BY <1>1, <2>2 DEF Fill, WholeInv, ExportTypeOK
    <3> QED
      BY <1>3, <3>1, <3>2 DEF Holds
  <2>3. CASE CopyLink(p) /\ MayCreate(p)
    BY ZenonT(40), <1>1, <1>3, <2>3 DEF CopyLink, Holds, ExportTypeOK
  <2> QED
    BY <2>1, <2>2, <2>3
<1>4. \A i \in 1..entry[p] : i \in 1..(entry[p] - 1) \/ i = entry[p]
  BY <1>1, BundleLength
<1> QED
  BY <1>2, <1>3, <1>4

\* An export that goes on, on its own or not, keeps the invariant.
LEMMA WholeStep == ExportTypeOK /\ WholeInv /\ [ExportNext]_exportvars => WholeInv'
<1> SUFFICES ASSUME ExportTypeOK, WholeInv, [ExportNext]_exportvars, NEW p \in Exports
             PROVE  /\ call'[p] = "idle" => entry'[p] = 1
                    /\ Working(p)' => \A i \in 1..(entry'[p] - 1) : Holds(p, i)'
                    /\ call'[p] = "fill" =>
                         /\ Bundle[entry'[p]].kind = "file"
                         /\ library'[Target(p)'] \in {Item(p, FALSE), Item(Admin, TRUE)}
  BY DEF WholeInv, Target
<1> DEFINE Goal == /\ call'[p] = "idle" => entry'[p] = 1
                   /\ Working(p)' => \A i \in 1..(entry'[p] - 1) : Holds(p, i)'
                   /\ call'[p] = "fill" =>
                        /\ Bundle[entry'[p]].kind = "file"
                        /\ library'[Target(p)'] \in {Item(p, FALSE), Item(Admin, TRUE)}
<1>1. entry[p] \in 1..Len(Bundle)
  BY TargetIsAsset, BundleLength
<1>2. ASSUME ~Discard
      PROVE  \A i \in 1..(entry[p] - 1) : Holds(p, i) => Holds(p, i)'
  <2> SUFFICES ASSUME NEW i \in 1..(entry[p] - 1), Holds(p, i)
               PROVE  Holds(p, i)'
    OBVIOUS
  <2>1. i \in DOMAIN Bundle
    BY <1>1, BundleLength
  <2> QED
    BY <1>2, <2>1, HoldsOn
<1>3. CASE Discard
  BY <1>3 DEF Discard, Working, WholeInv
<1>4. CASE ~Discard /\ call'[p] = call[p] /\ entry'[p] = entry[p]
  <2>1. Target(p)' = Target(p) /\ (Working(p)' <=> Working(p))
    BY <1>4 DEF Target, Working
  <2>2. ASSUME call[p] = "fill"
        PROVE  library'[Target(p)] \in {Item(p, FALSE), Item(Admin, TRUE)}
    <3>1. library[Target(p)] \in {Item(p, FALSE), Item(Admin, TRUE)}
      BY <2>2 DEF WholeInv
    <3>2. CASE library'[Target(p)] = library[Target(p)]
      BY <3>1, <3>2
    <3>3. CASE library'[Target(p)] # library[Target(p)]
      <4>1. ~Discarded(Target(p)) /\ ~Made(Target(p))
        BY <1>4, <3>1, DistinctNodes DEF Discarded, Made
      <4>2. CASE Customised(Target(p))
        BY <4>2 DEF Customised
      <4>3. ~Filled(Target(p))
        <5>1. ~Fill(p)
          BY <1>4, <2>2 DEF Fill, Advance, End, ExportTypeOK
        <5> QED
          BY ZenonT(80), <3>1, <5>1, DistinctNodes DEF Filled
      <4> QED
        BY <3>3, <4>1, <4>2, <4>3, TargetIsAsset, Changes
    <3> QED
      BY <3>2, <3>3
  <2> QED
    BY <1>2, <1>4, <2>1, <2>2 DEF WholeInv
<1>5. CASE BeginExport(p)
  <2>1. call'[p] = "lstat" /\ entry'[p] = 1
    BY <1>5 DEF BeginExport, Call, ExportTypeOK, WholeInv
  <2> QED
    BY <2>1
<1>6. CASE call'[p] = "done"
  BY <1>6 DEF Working
<1>7. CASE Lstat(p) \/ ReadDir(p)
  <2>1. call'[p] # "done" => call'[p] \in {"copy", "readdir"} /\ entry'[p] = entry[p] /\ ~Discard
    BY <1>7 DEF Lstat, ReadDir, Call, End, ExportTypeOK, Discard, Working
  <2>2. Working(p)
    BY <1>7 DEF Lstat, ReadDir, Working
  <2> QED
    BY <1>2, <1>6, <2>1, <2>2 DEF WholeInv
<1>8. CASE CopyFile(p) /\ MayCreate(p)
  <2>1. /\ call'[p] = "fill" /\ entry'[p] = entry[p] /\ ~Discard
        /\ Working(p) /\ Bundle[entry[p]].kind = "file"
    BY <1>8 DEF CopyFile, Call, ExportTypeOK, Discard, Working
  <2>2. Target(p)' = Target(p)
    BY <2>1 DEF Target
  <2>3. library'[Target(p)] = Item(p, FALSE)
    BY <1>8, TargetIsAsset DEF CopyFile, ExportTypeOK
  <2> QED
    BY <1>2, <2>1, <2>2, <2>3 DEF WholeInv
<1>9. CASE (CopyDir(p) /\ MakesDir(p)) \/ Fill(p) \/ (CopyLink(p) /\ MayCreate(p))
  <2>1. Advance(p) /\ ~Discard
    BY <1>9 DEF CopyDir, Fill, CopyLink, Discard, Working
  <2>2. \A i \in 1..entry[p] : Holds(p, i)'
    BY <1>9, <2>1, EntryComplete
  <2>3. CASE entry[p] = Len(Bundle)
    BY <1>6, <2>1, <2>3 DEF Advance, End, ExportTypeOK
  <2>4. CASE entry[p] # Len(Bundle)
    <3>1. entry'[p] = entry[p] + 1 /\ call'[p] \in {"lstat", "copy"}
      BY <2>1, <2>4 DEF Advance, ExportTypeOK
    <3>2. entry'[p] - 1 = entry[p]
      BY <1>1, <3>1
    <3> QED
      BY <2>2, <3>1, <3>2
  <2> QED
    BY <2>3, <2>4
<1>10. CASE \/ ExportFails(p) \/ (CopyDir(p) /\ ~MakesDir(p))
            \/ (CopyFile(p) /\ ~MayCreate(p)) \/ (CopyLink(p) /\ ~MayCreate(p))
  BY <1>6, <1>10 DEF ExportFails, CopyDir, CopyFile, CopyLink, End, ExportTypeOK
<1>11. ASSUME NEW q \in Exports, q # p, BeginExport(q) \/ Copying(q) \/ ExportFails(q)
       PROVE  call'[p] = call[p] /\ entry'[p] = entry[p]
  <2>1. CASE BeginExport(q) \/ Lstat(q) \/ ReadDir(q) \/ ExportFails(q)
    BY <1>11, <2>1 DEF BeginExport, Lstat, ReadDir, ExportFails, Call, End, ExportTypeOK
  <2>2. CASE CopyDir(q) \/ CopyFile(q) \/ Fill(q) \/ CopyLink(q)
    <3>1. (\E c : Call(q, c)) \/ (\E why : End(q, why)) \/ Advance(q)
      BY <2>2 DEF CopyDir, CopyFile, Fill, CopyLink
    <3> QED
      BY <1>11, <3>1 DEF Call, End, Advance, ExportTypeOK
  <2> QED
    BY <1>11, <2>1, <2>2 DEF Copying
<1>12. CASE (\E path \in Touched : Customise(path)) \/ UNCHANGED exportvars
  BY <1>3, <1>4, <1>12 DEF Customise, exportvars
<1>13. ASSUME NEW q \in Exports, BeginExport(q) \/ Copying(q) \/ ExportFails(q)
       PROVE  Goal
  <2>1. CASE q # p
    BY <1>3, <1>4, <1>11, <1>13, <2>1
  <2>2. CASE q = p
    BY <1>5, <1>7, <1>8, <1>9, <1>10, <1>13, <2>2 DEF Copying
  <2> QED
    BY <2>1, <2>2
<1> QED
  BY <1>3, <1>4, <1>12, <1>13 DEF ExportNext

LEMMA WholeInit == ExportInit => WholeInv
BY DEF ExportInit, WholeInv, Working

LEMMA SuccessStep ==
    ASSUME ExportTypeOK, WholeInv, [ExportNext]_exportvars,
           NEW p \in Exports, result'[p] = "ok", result[p] # "ok"
    PROVE  \A i \in DOMAIN Bundle : Holds(p, i)'
<1>1. PICK q \in Exports : BeginExport(q) \/ Copying(q) \/ ExportFails(q)
  BY DEF ExportNext, Customise, Discard, exportvars
<1>2. Advance(q) /\ entry[q] = Len(Bundle) /\ q = p
  BY <1>1 DEF BeginExport, Copying, ExportFails, Lstat, ReadDir, CopyDir, CopyFile, Fill,
              CopyLink, Call, End, Advance, ExportTypeOK
<1>3. (CopyDir(p) /\ MakesDir(p)) \/ Fill(p) \/ (CopyLink(p) /\ MayCreate(p))
  BY <1>1, <1>2 DEF BeginExport, Copying, ExportFails, Lstat, ReadDir, CopyDir, CopyFile,
                    CopyLink, Call, End, ExportTypeOK
<1>4. ~Discard
  BY <1>3 DEF Discard, Working, CopyDir, Fill, CopyLink
<1> QED
  BY <1>2, <1>3, <1>4, EntryComplete, BundleLength

LEMMA WholeInvariant == ExportSpec => []WholeInv
BY WholeInit, WholeStep, ExportTypeCorrect, PTL DEF ExportSpec

\* What export reports as exported is there, whole, whoever else was at work: every
\* entry of the release, a directory where one belongs, and its own file or link or
\* the administrator's.
THEOREM ExportSuccessIsWhole == ExportSpec => SuccessIsWhole
<1>1. ExportTypeOK /\ WholeInv /\ [ExportNext]_exportvars =>
        [\A p \in Exports :
           result'[p] = "ok" /\ result[p] # "ok" =>
             \A i \in DOMAIN Bundle :
                 library'[Bundle[i].path] \in
                     IF Bundle[i].kind = "dir" THEN {Directory}
                     ELSE {Item(p, TRUE), Item(Admin, TRUE)}]_exportvars
  BY SuccessStep DEF Holds
<1> QED
  BY <1>1, WholeInvariant, ExportTypeCorrect, PTL DEF ExportSpec, SuccessIsWhole

-----------------------------------------------------------------------------
\* The library after an export has succeeded, until the administrator changes it.

UntouchedInv == ~meddled => \A path \in Assets : library[path] # Item(Admin, TRUE)

EndInv == \A p \in Exports : call[p] # "done" => result[p] = "none"

IsWhole(p) ==
    \A i \in DOMAIN Bundle :
        library[Bundle[i].path] = IF Bundle[i].kind = "dir" THEN Directory ELSE Item(p, TRUE)

ReleaseInv ==
    /\ UntouchedInv
    /\ EndInv
    /\ \A p \in Exports : result[p] = "ok" /\ ~meddled => IsWhole(p)

LEMMA MeddledStays ==
    ASSUME ExportTypeOK, [ExportNext]_exportvars, meddled
    PROVE  meddled'
BY DEF ExportNext, Customise, Discard, exportvars, ExportTypeOK

LEMMA ResultStays ==
    ASSUME ExportTypeOK, EndInv, [ExportNext]_exportvars, NEW p \in Exports, result[p] = "ok"
    PROVE  result'[p] = "ok"
<1>1. call[p] = "done"
  BY DEF EndInv
<1>2. ASSUME NEW q \in Exports, BeginExport(q) \/ Copying(q) \/ ExportFails(q)
      PROVE  result'[p] = "ok"
  <2>1. q # p
    BY <1>1, <1>2 DEF BeginExport, Copying, ExportFails, Lstat, ReadDir, CopyDir, CopyFile, Fill,
                      CopyLink, Working
  <2>2. (\E c : Call(q, c)) \/ (\E why : End(q, why)) \/ Advance(q)
    BY <1>2 DEF BeginExport, Copying, ExportFails, Lstat, ReadDir, CopyDir, CopyFile, Fill, CopyLink
  <2> QED
    BY <2>1, <2>2 DEF Call, End, Advance, ExportTypeOK
<1> QED
  BY <1>2 DEF ExportNext, Customise, Discard, exportvars

LEMMA EndStep ==
    ASSUME ExportTypeOK, EndInv, [ExportNext]_exportvars
    PROVE  EndInv'
<1>1. ASSUME NEW q \in Exports, BeginExport(q) \/ Copying(q) \/ ExportFails(q)
      PROVE  EndInv'
  <2>1. call[q] # "done"
    BY <1>1 DEF BeginExport, Copying, ExportFails, Lstat, ReadDir, CopyDir, CopyFile, Fill,
                CopyLink, Working
  <2>2. (\E c : Call(q, c)) \/ (\E why : End(q, why)) \/ Advance(q)
    BY <1>1 DEF BeginExport, Copying, ExportFails, Lstat, ReadDir, CopyDir, CopyFile, Fill, CopyLink
  <2>3. CASE \E c : Call(q, c)
    BY <2>1, <2>3 DEF Call, EndInv, ExportTypeOK
  <2>4. CASE \E why : End(q, why)
    BY <2>4 DEF End, EndInv, ExportTypeOK
  <2>5. CASE Advance(q)
    BY <2>1, <2>5 DEF Advance, End, EndInv, ExportTypeOK
  <2> QED
    BY <2>2, <2>3, <2>4, <2>5
<1> QED
  BY <1>1 DEF ExportNext, Customise, Discard, exportvars, EndInv

LEMMA ReleaseStep ==
    ExportTypeOK /\ WholeInv /\ ReleaseInv /\ [ExportNext]_exportvars => ReleaseInv'
<1> SUFFICES ASSUME ExportTypeOK, WholeInv, ReleaseInv, [ExportNext]_exportvars
             PROVE  ReleaseInv'
  OBVIOUS
<1>1. EndInv'
  BY EndStep DEF ReleaseInv
<1>2. ASSUME ~meddled', NEW path \in Assets, library'[path] # library[path]
      PROVE  Made(path) \/ Filled(path)
  BY <1>2, Changes DEF Discarded, Customised, Discard
<1>3. UntouchedInv'
  <2> SUFFICES ASSUME ~meddled', NEW path \in Assets
               PROVE  library'[path] # Item(Admin, TRUE)
    BY DEF UntouchedInv
  <2>1. CASE library'[path] = library[path]
    BY <2>1, MeddledStays DEF ReleaseInv, UntouchedInv
  <2>2. CASE library'[path] # library[path]
    <3>1. PICK p \in Exports : library'[path] \in {Directory, Item(p, TRUE), Item(p, FALSE)}
      BY <1>2, <2>2 DEF Made, Filled
    <3>2. p # Admin
      BY BundleAssumption
    <3> QED
      BY <3>1, <3>2, DistinctNodes
  <2> QED
    BY <2>1, <2>2
<1>4. ASSUME NEW p \in Exports, result'[p] = "ok", ~meddled'
      PROVE  IsWhole(p)'
  <2>1. CASE result[p] # "ok"
    <3>1. \A i \in DOMAIN Bundle : Holds(p, i)'
      BY <1>4, <2>1, SuccessStep
    <3>2. \A i \in DOMAIN Bundle : library'[Bundle[i].path] # Item(Admin, TRUE)
      BY <1>3, <1>4 DEF UntouchedInv, Assets
    <3> QED
      BY <3>1, <3>2 DEF Holds, IsWhole
  <2>2. CASE result[p] = "ok"
    <3> SUFFICES ASSUME NEW i \in DOMAIN Bundle
                 PROVE  library'[Bundle[i].path] = library[Bundle[i].path]
      BY <1>4, <2>2, MeddledStays DEF ReleaseInv, IsWhole
    <3>1. Bundle[i].path \in Assets
      BY DEF Assets
    <3>2. library[Bundle[i].path] \in {Directory, Item(p, TRUE)}
      BY <1>4, <2>2, MeddledStays DEF ReleaseInv, IsWhole
    <3>3. ~Made(Bundle[i].path)
      BY <3>2, DistinctNodes DEF Made
    <3>4. ~Filled(Bundle[i].path)
      BY <3>2, DistinctNodes DEF Filled
    <3> QED
      BY <1>2, <1>4, <3>1, <3>3, <3>4
  <2> QED
    BY <2>1, <2>2
<1> QED
  BY <1>1, <1>3, <1>4 DEF ReleaseInv

LEMMA ReleaseInvariant == ExportSpec => []ReleaseInv
<1>1. ExportInit => ReleaseInv
  <2> SUFFICES ASSUME ExportInit
               PROVE  ReleaseInv
    OBVIOUS
  <2>1. meddled = \E path \in Assets : library[path].kind = "item"
    BY DEF ExportInit
  <2>2. UntouchedInv
    BY <2>1, KindsOfNodes DEF UntouchedInv
  <2>3. \A p \in Exports : result[p] = "none"
    BY DEF ExportInit
  <2> QED
    BY <2>2, <2>3 DEF ReleaseInv, EndInv
<1> QED
  BY <1>1, ReleaseStep, WholeInvariant, ExportTypeCorrect, PTL DEF ExportSpec

-----------------------------------------------------------------------------
\* Who wins.

\* Something is there that only an export can have put there.
Taken(i) == ~IsRoot(Bundle[i].path) /\ library[Bundle[i].path] # Nothing

\* Where a directory belongs is no file.
KindsInv ==
    \A i \in DOMAIN Bundle : Bundle[i].kind = "dir" => library[Bundle[i].path].kind # "item"

\* p has made the entry, or would have.
Past(p, i) ==
    \/ entry[p] > i
    \/ entry[p] = i /\ (call[p] = "fill" \/ result[p] \in {"ok", "failed"})

MadeInv == \A i \in DOMAIN Bundle : Taken(i) => \E p \in Exports : Past(p, i)

Unbeaten == {"none", "ok", "failed"}

\* An export gives way only to what is there, where it is or further on.
LossInv ==
    \A p \in Exports :
        result[p] \notin Unbeaten => \E i \in DOMAIN Bundle : Taken(i) /\ entry[p] <= i

\* Nobody is further on than p has been.
Leader(p) ==
    /\ result[p] \in Unbeaten
    /\ \A i \in DOMAIN Bundle : Taken(i) => i <= entry[p]

RaceInv ==
    ~meddled => KindsInv /\ MadeInv /\ LossInv /\ \E p \in Exports : Leader(p)

Moves(q) == BeginExport(q) \/ Copying(q) \/ ExportFails(q)

LEMMA OnePlace ==
    ASSUME NEW i \in DOMAIN Bundle, NEW j \in DOMAIN Bundle, Bundle[i].path = Bundle[j].path
    PROVE  i = j
<1>1. i \in Nat /\ j \in Nat /\ 1 <= i /\ 1 <= j
  BY BundleLength
<1>2. ~(j \in 1..(i - 1)) /\ ~(i \in 1..(j - 1))
  BY BundleAssumption
<1> QED
  BY <1>1, <1>2

LEMMA RootIsDir ==
    ASSUME NEW i \in DOMAIN Bundle, Bundle[i].kind # "dir"
    PROVE  ~IsRoot(Bundle[i].path)
BY BundleAssumption DEF IsRoot

\* What is inside a directory comes after it.
LEMMA InsideComesLater ==
    ASSUME NEW i \in DOMAIN Bundle, NEW path \in Inside(Bundle[i].path)
    PROVE  \E j \in DOMAIN Bundle : Bundle[j].path = path /\ i < j /\ ~IsRoot(path)
<1>1. PICK j \in DOMAIN Bundle : Bundle[j].path = path
  BY DEF Inside, Assets
<1>2. Len(path) = Len(Bundle[i].path) + 1 /\ Front(path) = Bundle[i].path
  BY DEF Inside
<1>3. Bundle[i].path \in Seq(STRING) /\ Bundle[i].path # << >>
  <2>1. Bundle[i] \in Entry
    BY BundleAssumption
  <2> QED
    BY <2>1, BundleAssumption DEF Entry
<1>4. Len(Bundle[i].path) \in Nat \ {0}
  BY <1>3
<1>5. Len(path) > 1
  BY <1>2, <1>4
<1>6. PICK k \in 1..(j - 1) : Bundle[k] = [path |-> Front(path), kind |-> "dir"]
  BY <1>1, <1>5, BundleAssumption
<1>7. k \in DOMAIN Bundle /\ k < j
  BY <1>1, <1>6, BundleLength
<1>8. Bundle[k].path = Bundle[i].path
  BY <1>2, <1>6
<1>9. k = i
  BY <1>7, <1>8, OnePlace
<1> QED
  BY <1>1, <1>2, <1>4, <1>7, <1>9 DEF IsRoot

\* Exports other than the one that moves stay as they are.
LEMMA OthersStay ==
    ASSUME ExportTypeOK, NEW q \in Exports, Moves(q), NEW p \in Exports, p # q
    PROVE  call'[p] = call[p] /\ entry'[p] = entry[p] /\ result'[p] = result[p]
<1>1. (\E c : Call(q, c)) \/ (\E why : End(q, why)) \/ Advance(q)
  BY DEF Moves, BeginExport, Copying, ExportFails, Lstat, ReadDir, CopyDir, CopyFile, Fill, CopyLink
<1>2. CASE \E c : Call(q, c)
  BY <1>2 DEF Call, ExportTypeOK
<1>3. CASE \E why : End(q, why)
  BY <1>3 DEF End, ExportTypeOK
<1>4. CASE Advance(q)
  BY <1>4 DEF Advance, End, ExportTypeOK
<1> QED
  BY <1>1, <1>2, <1>3, <1>4

\* An export that gives way has found something, where it is or further on.
Beaten(q) ==
    /\ UNCHANGED library
    /\ entry'[q] = entry[q]
    /\ call[q] # "fill"
    /\ \E i \in DOMAIN Bundle : Taken(i) /\ entry[q] <= i

\* Otherwise it gets on.
GetsOn(q) ==
    /\ result'[q] \in Unbeaten
    /\ entry[q] <= entry'[q]
    /\ call[q] = "fill" => \A i \in DOMAIN Bundle : i = entry[q] => Past(q, i)'
    /\ \A i \in DOMAIN Bundle :
         Taken(i)' /\ ~Taken(i) => i = entry[q] /\ Past(q, i)'

LEMMA AdvanceFacts ==
    ASSUME ExportTypeOK, NEW q \in Exports, result[q] = "none", Advance(q)
    PROVE  /\ entry[q] <= entry'[q] /\ result'[q] \in Unbeaten
           /\ \A i \in DOMAIN Bundle : i = entry[q] => Past(q, i)'
<1>1. entry[q] \in Nat /\ entry[q] \in DOMAIN Bundle
  BY TargetIsAsset, BundleLength
<1>2. CASE entry[q] = Len(Bundle)
  <2>1. entry'[q] = entry[q] /\ result'[q] = "ok"
    BY <1>2 DEF Advance, End, ExportTypeOK
  <2> QED
    BY <1>1, <2>1 DEF Past, Unbeaten
<1>3. CASE entry[q] # Len(Bundle)
  <2>1. entry'[q] = entry[q] + 1 /\ result'[q] = "none"
    BY <1>3 DEF Advance, ExportTypeOK
  <2> QED
    BY <1>1, <2>1 DEF Past, Unbeaten
<1> QED
  BY <1>2, <1>3

LEMMA CallFacts ==
    ASSUME ExportTypeOK, NEW q \in Exports, result[q] = "none", NEW c, Call(q, c)
    PROVE  call'[q] = c /\ entry'[q] = entry[q] /\ result'[q] \in Unbeaten
BY DEF Call, Unbeaten, ExportTypeOK

LEMMA EndFacts ==
    ASSUME ExportTypeOK, NEW q \in Exports, NEW why, End(q, why)
    PROVE  call'[q] = "done" /\ entry'[q] = entry[q] /\ result'[q] = why
BY DEF End, ExportTypeOK

LEMMA ThereStays ==
    ASSUME UNCHANGED library, NEW i
    PROVE  Taken(i)' <=> Taken(i)
BY DEF Taken

LEMMA PutThere ==
    ASSUME ExportTypeOK, NEW q \in Exports, NEW node, node # Nothing,
           library' = [library EXCEPT ![Target(q)] = node], NEW i \in DOMAIN Bundle
    PROVE  (Taken(i)' /\ ~Taken(i) => i = entry[q]) /\ (Taken(i) => Taken(i)')
<1>1. Target(q) \in Assets /\ entry[q] \in DOMAIN Bundle /\ Bundle[i].path \in Assets
  BY TargetIsAsset DEF Assets
<1>2. CASE i = entry[q]
  <2>1. library'[Bundle[i].path] = node
    BY <1>1, <1>2 DEF ExportTypeOK, Target
  <2> QED
    BY <1>2, <2>1 DEF Taken
<1>3. CASE i # entry[q]
  <2>1. Bundle[i].path # Target(q)
    BY <1>1, <1>3, OnePlace DEF Target
  <2>2. library'[Bundle[i].path] = library[Bundle[i].path]
    BY <1>1, <2>1 DEF ExportTypeOK
  <2> QED
    BY <2>2 DEF Taken
<1> QED
  BY <1>2, <1>3

\* An export that finds its target taken is beaten by what is there.
LEMMA TakenBeats ==
    ASSUME ExportTypeOK, KindsInv, NEW q \in Exports, call[q] # "fill", UNCHANGED library,
           entry'[q] = entry[q],
           \/ Bundle[entry[q]].kind = "dir" /\ library[Target(q)] \notin {Nothing, Directory}
           \/ Bundle[entry[q]].kind # "dir" /\ library[Target(q)] # Nothing
    PROVE  Beaten(q)
<1>1. entry[q] \in DOMAIN Bundle /\ entry[q] \in Nat /\ Target(q) \in Assets
  BY TargetIsAsset, BundleLength
<1>2. Bundle[entry[q]].kind # "dir"
  <2>1. Bundle[entry[q]].kind = "dir" => library[Target(q)].kind # "item"
    BY <1>1 DEF KindsInv, Target
  <2>2. library[Target(q)].kind # "item" => library[Target(q)] \in {Nothing, Directory}
    BY <1>1 DEF ExportTypeOK
  <2> QED
    BY <2>1, <2>2
<1>3. Taken(entry[q])
  BY <1>1, <1>2, RootIsDir DEF Taken, Target
<1> QED
  BY <1>1, <1>3 DEF Beaten

LEMMA MovesForm ==
    ASSUME ExportTypeOK, WholeInv, EndInv, KindsInv, NEW q \in Exports, Moves(q),
           call[q] = "lstat" \/ call[q] = "readdir" => Bundle[entry[q]].kind = "dir"
    PROVE  /\ result[q] = "none"
           /\ Beaten(q) \/ GetsOn(q)
           /\ \A i \in DOMAIN Bundle : Taken(i) => Taken(i)'
<1>0. result[q] = "none"
  BY DEF EndInv, Moves, BeginExport, Copying, ExportFails, Lstat, ReadDir, CopyDir, CopyFile,
         Fill, CopyLink, Working
<1>1. entry[q] \in DOMAIN Bundle /\ entry[q] \in Nat /\ Target(q) \in Assets
  BY TargetIsAsset, BundleLength
<1>2. ASSUME UNCHANGED library, call[q] # "fill", entry'[q] = entry[q], result'[q] \in Unbeaten
      PROVE  GetsOn(q)
  BY <1>1, <1>2, ThereStays DEF GetsOn
<1>3. CASE BeginExport(q)
  <2>1. Call(q, "lstat") /\ UNCHANGED library /\ call[q] = "idle"
    BY <1>3 DEF BeginExport
  <2> QED
    BY <1>0, <1>2, <2>1, CallFacts, ThereStays
<1>4. CASE Lstat(q)
  <2>1. UNCHANGED library /\ call[q] = "lstat"
    BY <1>4 DEF Lstat
  <2>2. CASE Call(q, "copy") \/ Call(q, "readdir")
    <3>1. entry'[q] = entry[q] /\ result'[q] \in Unbeaten
      BY <1>0, <2>2, CallFacts
    <3> QED
      BY <1>0, <1>2, <2>1, <3>1, ThereStays
  <2>3. CASE library[Target(q)].kind = "item" /\ End(q, "notDirectory")
    <3>1. Beaten(q)
      BY <2>1, <2>3, EndFacts, TakenBeats, KindsOfNodes
    <3> QED
      BY <1>0, <2>1, <3>1, ThereStays
  <2> QED
    BY <1>4, <2>2, <2>3 DEF Lstat
<1>5. CASE ReadDir(q)
  <2>1. UNCHANGED library /\ call[q] = "readdir"
    BY <1>5 DEF ReadDir
  <2>2. CASE Call(q, "copy")
    <3>1. entry'[q] = entry[q] /\ result'[q] \in Unbeaten
      BY <1>0, <2>2, CallFacts
    <3> QED
      BY <1>0, <1>2, <2>1, <3>1, ThereStays
  <2>3. CASE End(q, "notEmpty") /\ \E path \in Inside(Target(q)) : library[path] # Nothing
    <3>1. PICK path \in Inside(Bundle[entry[q]].path) : library[path] # Nothing
      BY <2>3 DEF Target
    <3>2. PICK j \in DOMAIN Bundle : Bundle[j].path = path /\ entry[q] < j /\ ~IsRoot(path)
      BY <1>1, <3>1, InsideComesLater
    <3>3. Taken(j) /\ entry[q] <= j
      BY <1>1, <3>1, <3>2, BundleLength DEF Taken
    <3>4. Beaten(q)
      BY <2>1, <2>3, <3>3, EndFacts DEF Beaten
    <3> QED
      BY <1>0, <2>1, <3>4, ThereStays
  <2> QED
    BY <1>5, <2>2, <2>3 DEF ReadDir
<1>6. CASE ExportFails(q)
  <2>1. UNCHANGED library /\ End(q, "failed")
    BY <1>6 DEF ExportFails
  <2>2. call'[q] = "done" /\ entry'[q] = entry[q] /\ result'[q] = "failed"
    BY <2>1, EndFacts
  <2>3. GetsOn(q)
    BY <1>1, <2>1, <2>2, ThereStays DEF GetsOn, Past, Unbeaten
  <2> QED
    BY <1>0, <2>1, <2>3, ThereStays
<1>7. ASSUME NEW node, node # Nothing, library' = [library EXCEPT ![Target(q)] = node], Advance(q)
      PROVE  GetsOn(q) /\ \A i \in DOMAIN Bundle : Taken(i) => Taken(i)'
  BY <1>0, <1>7, AdvanceFacts, PutThere DEF GetsOn
<1>8. CASE CopyDir(q)
  <2>1. CASE MakesDir(q)
    <3>1. library' = [library EXCEPT ![Target(q)] = Directory] /\ Advance(q)
      BY <1>8, <2>1 DEF CopyDir
    <3> QED
      BY <1>0, <1>7, <3>1, DistinctNodes
  <2>2. CASE ~MakesDir(q)
    <3>1. /\ End(q, "exists") /\ UNCHANGED library /\ call[q] = "copy"
          /\ Bundle[entry[q]].kind = "dir" /\ library[Target(q)] \notin {Nothing, Directory}
      BY <1>8, <2>2 DEF CopyDir, MakesDir
    <3>2. Beaten(q)
      BY <3>1, EndFacts, TakenBeats
    <3> QED
      BY <1>0, <3>1, <3>2, ThereStays
  <2> QED
    BY <2>1, <2>2
<1>9. CASE (CopyFile(q) \/ CopyLink(q)) /\ ~MayCreate(q)
  <2>1. /\ End(q, "exists") /\ UNCHANGED library /\ call[q] = "copy"
        /\ Bundle[entry[q]].kind # "dir" /\ library[Target(q)] # Nothing
    BY <1>9 DEF CopyFile, CopyLink, MayCreate
  <2>2. Beaten(q)
    BY <2>1, EndFacts, TakenBeats
  <2> QED
    BY <1>0, <2>1, <2>2, ThereStays
<1>10. CASE CopyFile(q) /\ MayCreate(q)
  <2>1. /\ library' = [library EXCEPT ![Target(q)] = Item(q, FALSE)]
        /\ Call(q, "fill") /\ call[q] = "copy"
    BY <1>10 DEF CopyFile
  <2>2. call'[q] = "fill" /\ entry'[q] = entry[q] /\ result'[q] \in Unbeaten
    BY <1>0, <2>1, CallFacts
  <2>3. Item(q, FALSE) # Nothing
    BY DistinctNodes
  <2>4. \A i \in DOMAIN Bundle : (Taken(i)' /\ ~Taken(i) => i = entry[q]) /\ (Taken(i) => Taken(i)')
    BY <2>1, <2>3, PutThere
  <2>5. GetsOn(q)
    BY <1>1, <2>1, <2>2, <2>4 DEF GetsOn, Past
  <2> QED
    BY <1>0, <2>4, <2>5
<1>11. CASE CopyLink(q) /\ MayCreate(q)
  <2>1. library' = [library EXCEPT ![Target(q)] = Item(q, TRUE)] /\ Advance(q)
    BY <1>11 DEF CopyLink
  <2>2. Item(q, TRUE) # Nothing
    BY DistinctNodes
  <2> QED
    BY <1>0, <1>7, <2>1, <2>2
<1>12. CASE Fill(q)
  <2>1. Advance(q) /\ call[q] = "fill"
    BY <1>12 DEF Fill
  <2>2. CASE library' = [library EXCEPT ![Target(q)] = Item(q, TRUE)]
    <3>1. Item(q, TRUE) # Nothing
      BY DistinctNodes
    <3> QED
      BY <1>0, <1>7, <2>1, <2>2, <3>1
  <2>3. CASE UNCHANGED library
    <3>1. GetsOn(q)
      BY <1>0, <2>1, <2>3, AdvanceFacts, ThereStays DEF GetsOn
    <3> QED
      BY <1>0, <2>3, <3>1, ThereStays
  <2> QED
    BY <1>12, <2>2, <2>3 DEF Fill
<1> QED
  BY <1>3, <1>4, <1>5, <1>6, <1>8, <1>9, <1>10, <1>11, <1>12 DEF Moves, Copying

\* The target is looked for where the directories of the library belong.
RootInv ==
    \A p \in Exports : call[p] \in {"lstat", "readdir"} => Bundle[entry[p]].kind = "dir"

LEMMA RootsAreDirs ==
    ASSUME NEW i \in DOMAIN Bundle, IsRoot(Bundle[i].path) \/ i = 1
    PROVE  Bundle[i].kind = "dir"
<1>1. Bundle[i].path \in Seq(STRING) /\ Bundle[i].path # << >>
  <2>1. Bundle[i] \in Entry
    BY BundleAssumption
  <2> QED
    BY <2>1, BundleAssumption DEF Entry
<1>2. Len(Bundle[i].path) \in Nat \ {0}
  BY <1>1
<1>3. ASSUME i = 1, Len(Bundle[i].path) > 1 PROVE FALSE
  <2>1. \E j \in 1..(i - 1) : Bundle[j] = [path |-> Front(Bundle[i].path), kind |-> "dir"]
    BY <1>3, BundleAssumption
  <2> QED
    BY <1>3, <2>1
<1> DEFINE n == Len(Bundle[i].path)
<1>4. n = 1
  <2>1. n \in Nat \ {0} /\ (i = 1 => ~(n > 1)) /\ (n = 1 \/ i = 1)
    BY <1>2, <1>3 DEF IsRoot
  <2> HIDE DEF n
  <2> QED
    BY <2>1
<1> QED
  BY <1>4, BundleAssumption

LEMMA RootStep ==
    ASSUME ExportTypeOK, WholeInv, RootInv, [ExportNext]_exportvars
    PROVE  RootInv'
<1>1. ASSUME NEW q \in Exports, Moves(q) PROVE RootInv'
  <2> SUFFICES ASSUME NEW p \in Exports, call'[p] \in {"lstat", "readdir"}
               PROVE  Bundle[entry'[p]].kind = "dir"
    BY DEF RootInv
  <2>1. CASE p # q
    BY <1>1, <2>1, OthersStay DEF RootInv
  <2>2. CASE p = q /\ BeginExport(q)
    <3>1. entry'[q] = 1
      BY <2>2 DEF BeginExport, Call, WholeInv
    <3> QED
      BY <2>2, <3>1, RootsAreDirs, BundleLength
  <2>3. CASE p = q /\ (Lstat(q) \/ ReadDir(q))
    BY <2>3 DEF Lstat, ReadDir, Call, End, RootInv, ExportTypeOK
  <2>4. CASE p = q /\ Advance(q)
    <3>1. entry[q] # Len(Bundle)
      BY <2>4 DEF Advance, End, ExportTypeOK
    <3>2. entry'[q] = entry[q] + 1 /\ IsRoot(Bundle[entry[q] + 1].path)
      BY <2>4, <3>1 DEF Advance, ExportTypeOK
    <3>3. entry'[q] \in DOMAIN Bundle
      BY <3>1, <3>2, TargetIsAsset, BundleLength
    <3> QED
      BY <2>4, <3>2, <3>3, RootsAreDirs
  <2>5. CASE p = q /\ ((\E why : End(q, why)) \/ Call(q, "fill"))
    BY <2>5 DEF End, Call, ExportTypeOK
  <2> QED
    BY <1>1, <2>1, <2>2, <2>3, <2>4, <2>5
       DEF Moves, Copying, ExportFails, CopyDir, CopyFile, Fill, CopyLink
<1>2. CASE UNCHANGED <<call, entry>>
  BY <1>2 DEF RootInv
<1> QED
  BY <1>1, <1>2 DEF ExportNext, Moves, Customise, Discard, exportvars

\* What the exports have made of a library nobody else writes to.
LEMMA RaceMove ==
    ASSUME ExportTypeOK, WholeInv, EndInv, RootInv, KindsInv, MadeInv, LossInv,
           NEW l \in Exports, Leader(l), NEW q \in Exports, Moves(q), [ExportNext]_exportvars
    PROVE  MadeInv' /\ LossInv' /\ \E p \in Exports : Leader(p)'
<1>1. /\ result[q] = "none"
      /\ Beaten(q) \/ GetsOn(q)
      /\ \A i \in DOMAIN Bundle : Taken(i) => Taken(i)'
  BY MovesForm DEF RootInv
<1>2. \A p \in Exports : entry[p] \in Nat /\ entry[p] \in DOMAIN Bundle
  BY TargetIsAsset, BundleLength
<1>3. \A i \in DOMAIN Bundle : i \in Nat
  BY BundleLength
<1>4. ASSUME NEW i \in DOMAIN Bundle, NEW p \in Exports, Past(p, i)
      PROVE  Past(p, i)'
  <2>1. CASE p # q
    BY <1>4, <2>1, OthersStay DEF Past
  <2>2. CASE p = q /\ entry[q] = i
    <3>1. call[q] = "fill"
      BY <1>1, <1>2, <1>3, <1>4, <2>2 DEF Past
    <3>2. GetsOn(q)
      BY <1>1, <3>1 DEF Beaten
    <3> QED
      BY <2>2, <3>1, <3>2 DEF GetsOn
  <2>3. CASE p = q /\ entry[q] # i
    <3>1. entry[q] > i
      BY <1>4, <2>3 DEF Past
    <3>2. entry'[q] >= entry[q] /\ entry'[q] \in Nat
      <4>1. ExportTypeOK'
        BY ExportTypeStep
      <4> QED
        BY <1>1, <1>2, <4>1, BundleLength DEF Beaten, GetsOn, ExportTypeOK
    <3> QED
      BY <1>2, <1>3, <2>3, <3>1, <3>2 DEF Past
  <2> QED
    BY <2>1, <2>2, <2>3
<1>5. MadeInv'
  <2> SUFFICES ASSUME NEW i \in DOMAIN Bundle, Taken(i)'
               PROVE  \E p \in Exports : Past(p, i)'
    BY DEF MadeInv
  <2>1. CASE Taken(i)
    BY <1>4, <2>1 DEF MadeInv
  <2>2. CASE ~Taken(i)
    <3>1. GetsOn(q)
      BY <1>1, <2>2, ThereStays DEF Beaten
    <3> QED
      BY <2>2, <3>1 DEF GetsOn
  <2> QED
    BY <2>1, <2>2
<1>6. LossInv'
  <2> SUFFICES ASSUME NEW p \in Exports, result'[p] \notin Unbeaten
               PROVE  \E i \in DOMAIN Bundle : Taken(i)' /\ entry'[p] <= i
    BY DEF LossInv
  <2>1. CASE p # q
    BY <1>1, <2>1, OthersStay DEF LossInv
  <2>2. CASE p = q
    BY <1>1, <2>2 DEF Beaten, GetsOn
  <2> QED
    BY <2>1, <2>2
<1>7. CASE Beaten(q)
  <2>0. \A i \in DOMAIN Bundle : Taken(i)' <=> Taken(i)
    BY <1>7, ThereStays DEF Beaten
  <2>1. CASE l # q
    <3>1. Leader(l)'
      BY <2>0, <2>1, OthersStay DEF Leader, Unbeaten
    <3> QED
      BY <1>5, <1>6, <3>1
  <2>2. CASE l = q
    <3>1. PICK i \in DOMAIN Bundle : Taken(i) /\ entry[q] <= i
      BY <1>7 DEF Beaten
    <3>2. i = entry[q]
      BY <1>2, <1>3, <2>2, <3>1 DEF Leader
    <3>3. PICK r \in Exports : Past(r, i)
      BY <3>1 DEF MadeInv
    <3>4. r # q
      BY <1>1, <1>2, <1>7, <3>2, <3>3 DEF Past, Beaten
    <3>5. entry[r] >= i
      BY <1>2, <1>3, <3>3 DEF Past
    <3>6. result[r] \in Unbeaten
      <4> SUFFICES ASSUME result[r] \notin Unbeaten PROVE FALSE
        OBVIOUS
      <4>1. PICK j \in DOMAIN Bundle : Taken(j) /\ entry[r] <= j
        BY DEF LossInv
      <4>2. j <= i
        BY <2>2, <3>2, <4>1 DEF Leader
      <4>3. entry[r] = i
        BY <1>2, <1>3, <3>5, <4>1, <4>2
      <4>4. call[r] = "fill" \/ result[r] \in {"ok", "failed"}
        BY <1>2, <1>3, <3>3, <4>3 DEF Past
      <4> QED
        BY <4>4 DEF EndInv, Unbeaten
    <3>7. \A j \in DOMAIN Bundle : Taken(j) => j <= entry[r]
      BY <1>2, <1>3, <2>2, <3>2, <3>5 DEF Leader
    <3>8. Leader(r)'
      BY <2>0, <3>4, <3>6, <3>7, OthersStay DEF Leader, Unbeaten
    <3> QED
      BY <1>5, <1>6, <3>8
  <2> QED
    BY <2>1, <2>2
<1>8. CASE GetsOn(q)
  <2>1. \A p \in Exports : entry[p] <= entry'[p] /\ entry'[p] \in Nat
    <3>1. entry'[q] \in Nat
      <4>1. ExportTypeOK'
        BY ExportTypeStep
      <4> QED
        BY <4>1, BundleLength DEF ExportTypeOK
    <3>2. ASSUME NEW p \in Exports, p # q PROVE entry'[p] = entry[p]
      BY <3>2, OthersStay
    <3> QED
      BY <1>2, <1>8, <3>1, <3>2 DEF GetsOn
  <2>2. result'[l] \in Unbeaten
    BY <1>8, OthersStay DEF GetsOn, Leader
  <2>3. CASE \A i \in DOMAIN Bundle : Taken(i)' => i <= entry'[l]
    <3>1. Leader(l)'
      BY <2>2, <2>3 DEF Leader, Unbeaten
    <3> QED
      BY <1>5, <1>6, <3>1
  <2>4. CASE \E i \in DOMAIN Bundle : Taken(i)' /\ ~(i <= entry'[l])
    <3>1. PICK i \in DOMAIN Bundle : Taken(i)' /\ ~(i <= entry'[l])
      BY <2>4
    <3>2. ~Taken(i)
      BY <1>2, <1>3, <2>1, <3>1 DEF Leader
    <3>3. i = entry[q]
      BY <1>8, <3>1, <3>2 DEF GetsOn
    <3>4. ASSUME NEW j \in DOMAIN Bundle, Taken(j)' PROVE j <= entry'[q]
      <4>1. CASE Taken(j)
        <5>1. j <= entry[l]
          BY <4>1 DEF Leader
        <5> QED
          BY <1>2, <1>3, <2>1, <3>1, <3>3, <5>1
      <4>2. CASE ~Taken(j)
        BY <1>2, <1>8, <2>1, <3>4, <4>2 DEF GetsOn
      <4> QED
        BY <4>1, <4>2
    <3>5. Leader(q)'
      BY <1>8, <3>4 DEF Leader, GetsOn, Unbeaten
    <3> QED
      BY <1>5, <1>6, <3>5
  <2> QED
    BY <2>3, <2>4
<1> QED
  BY <1>1, <1>5, <1>6, <1>7, <1>8

LEMMA KindsStep ==
    ASSUME ExportTypeOK, WholeInv, KindsInv, [ExportNext]_exportvars, ~meddled'
    PROVE  KindsInv'
<1> SUFFICES ASSUME NEW i \in DOMAIN Bundle, Bundle[i].kind = "dir"
             PROVE  library'[Bundle[i].path].kind # "item"
  BY DEF KindsInv
<1> DEFINE path == Bundle[i].path
<1>0. path \in Assets
  BY DEF Assets
<1>1. CASE library'[path] = library[path]
  BY <1>1 DEF KindsInv
<1>2. CASE library'[path] # library[path]
  <2>1. PICK q \in Exports : Moves(q)
    BY <1>0, <1>2 DEF ExportNext, Moves, Customise, Discard, exportvars
  <2>2. path = Target(q) /\ i = entry[q]
    <3>1. path = Target(q)
      BY <1>0, <1>2, <2>1 DEF Moves, Copying, BeginExport, Lstat, ReadDir, CopyDir, CopyFile, Fill,
                              CopyLink, ExportFails, ExportTypeOK
    <3> QED
      BY <3>1, TargetIsAsset, OnePlace DEF Target
  <2>3. CopyDir(q)
    BY <1>2, <2>1, <2>2 DEF Moves, Copying, BeginExport, Lstat, ReadDir, CopyFile, Fill, CopyLink,
                            ExportFails, WholeInv
  <2>4. library'[path] = Directory
    BY <1>0, <1>2, <2>2, <2>3 DEF CopyDir, ExportTypeOK
  <2> QED
    BY <2>4, KindsOfNodes
<1> QED
  BY <1>1, <1>2

LEMMA RaceStep ==
    ExportTypeOK /\ WholeInv /\ EndInv /\ RootInv /\ RaceInv /\ [ExportNext]_exportvars => RaceInv'
<1> SUFFICES ASSUME ExportTypeOK, WholeInv, EndInv, RootInv, RaceInv, [ExportNext]_exportvars,
                    ~meddled'
             PROVE  KindsInv' /\ MadeInv' /\ LossInv' /\ \E p \in Exports : Leader(p)'
  BY DEF RaceInv
<1>1. ~meddled
  BY MeddledStays
<1>2. KindsInv'
  BY <1>1, KindsStep DEF RaceInv
<1>3. PICK l \in Exports : Leader(l)
  BY <1>1 DEF RaceInv
<1>4. ASSUME NEW q \in Exports, Moves(q)
      PROVE  MadeInv' /\ LossInv' /\ \E p \in Exports : Leader(p)'
  <2>1. KindsInv /\ MadeInv /\ LossInv
    BY <1>1 DEF RaceInv
  <2> QED
    BY <1>3, <1>4, <2>1, RaceMove
<1>5. CASE UNCHANGED exportvars
  BY <1>1, <1>2, <1>5 DEF RaceInv, MadeInv, LossInv, Leader, Taken, Past, Unbeaten, exportvars
<1> QED
  BY <1>2, <1>4, <1>5 DEF ExportNext, Moves, Customise, Discard

LEMMA RaceInit ==
    ASSUME Exports # {}, ExportInit
    PROVE  RootInv /\ RaceInv
<1>1. RootInv
  BY DEF ExportInit, RootInv
<1>2. ASSUME ~meddled, NEW i \in DOMAIN Bundle
      PROVE  library[Bundle[i].path].kind # "item" /\ ~Taken(i)
  <2> DEFINE Roots == {path \in Assets : Len(path) = 1}
  <2>1. PICK found \in [Roots -> {Nothing, Directory, Item(Admin, TRUE)}] :
          library = [path \in Assets |-> IF path \in DOMAIN found THEN found[path] ELSE Nothing]
    BY DEF ExportInit
  <2>2. Bundle[i].path \in Assets
    BY DEF Assets
  <2>3. library[Bundle[i].path].kind # "item"
    BY <1>2, <2>2 DEF ExportInit
  <2>4. ~IsRoot(Bundle[i].path) => library[Bundle[i].path] = Nothing
    BY <2>1, <2>2 DEF IsRoot
  <2> QED
    BY <2>3, <2>4 DEF Taken
<1>3. \A p \in Exports : result[p] = "none"
  BY DEF ExportInit
<1> QED
  BY <1>1, <1>2, <1>3 DEF RaceInv, KindsInv, MadeInv, LossInv, Leader, Unbeaten

\* Of exports that meet in a library nobody else writes to, not all give way to
\* one another: while none is killed, one of those furthest on has not lost.
THEOREM SomeExportWins ==
    ASSUME Exports # {}
    PROVE  ExportSpec => []SomeoneExports
<1>1. ExportInit => RootInv /\ RaceInv
  BY RaceInit
<1>2. ExportTypeOK /\ WholeInv /\ RootInv /\ [ExportNext]_exportvars => RootInv'
  BY RootStep
<1>3. ReleaseInv => EndInv
  BY DEF ReleaseInv
<1>4. RaceInv => SomeoneExports
  BY DEF RaceInv, SomeoneExports, Leader, Unbeaten
<1> QED
  BY <1>1, <1>2, <1>3, <1>4, RaceStep, WholeInvariant, ReleaseInvariant, ExportTypeCorrect, PTL
     DEF ExportSpec
=============================================================================
