------------------------- MODULE BundleStoreProofs -------------------------
(***************************************************************************)
(* Proofs about BundleStore, for any archive and wherever the process      *)
(* dies: until two requests overlap, an installed bundle is complete       *)
(* (after that it need not be), and however they overlap, only an archive  *)
(* that extractTar accepts is installed.                                   *)
(***************************************************************************)
EXTENDS BundleStore, TLAPS

\* No other request is in progress.
Alone(p) == \A q \in Procs \ {p} : pc[q] = "idle"

\* At most one request is in progress.
OneBusy == \A p, q \in Procs : (pc[p] # "idle" /\ pc[q] # "idle") => p = q

\* A request works in tmp only: the file it writes is there and is its own, and
\* its RemoveAll never empties dest.
WorksInTmp ==
  \A p \in Procs :
    /\ pc[p] = "copy" => /\ fd[p] = "tmp" /\ idx[p] <= Len(archive)
                         /\ archive[idx[p]].kind = "file"
                         /\ file["tmp"][archive[idx[p]].name] = p
    /\ rm[p].at # "no" => rm[p].at = "tmp" /\ pc[p] \in {"rmtmp", "cleanup"}
    /\ rm[p].at = "no" => rm[p].todo = {}

\* From the miss of Has until the rename there is no bundle.
NoBundleYet ==
  \A p \in Procs :
    pc[p] \in {"fetch", "rmtmp", "mkdir", "extract", "copy", "rmdest", "rename"} => ~ dir["dest"]

\* The entries before idx[p] are accepted and in tmp, but for the file that is
\* being written (again).
Extracted(p) ==
  \A i \in 1..Len(archive) : i < idx[p] =>
    /\ archive[i].kind \notin Refused
    /\ archive[i].kind = "file" =>
         \/ file["tmp"][archive[i].name] = "whole"
         \/ pc[p] = "copy" /\ archive[i].name = archive[idx[p]].name

TmpExtracted ==
  \A p \in Procs :
    /\ pc[p] \in {"extract", "copy", "rmdest", "rename"} => Extracted(p)
    /\ pc[p] \in {"rmdest", "rename"} => idx[p] > Len(archive)

\* The directories hold files of the archive only.
OnlyMembers ==
  \A x \in Places, m \in Members : file[x][m] # "none" => m \in FilesOf(archive)

SoloInv == /\ StateOK /\ OneBusy /\ WorksInTmp /\ NoBundleYet /\ TmpExtracted /\ OnlyMembers
           /\ Complete

\* The entries of an archive have a member name and a kind.
LEMMA ArchiveType ==
  ASSUME StateOK
  PROVE  /\ Len(archive) \in Nat
         /\ \A i \in 1..Len(archive) : archive[i].name \in Members /\ archive[i].kind \in Kinds
<1>1. archive \in Seq(Entries)
  BY BundleAssumption DEF StateOK
<1>2. Len(archive) \in Nat
  BY <1>1
<1>3. \A i \in 1..Len(archive) : archive[i] \in Entries
  BY <1>1
<1> QED
  BY <1>2, <1>3 DEF Entries

\* The invariant holds before the first request.
LEMMA SoloInit == Init => SoloInv
  BY DEF Init, SoloInv, StateOK, OneBusy, WorksInTmp, NoBundleYet, TmpExtracted, OnlyMembers,
         Complete, NoFiles, NotRemoving, Places

\* Steps that leave the directories alone.
LEMMA SoloQuiet ==
  ASSUME SoloInv, NEW p \in Procs,
         \/ Begin(p) /\ Alone(p)
         \/ CheckHas(p) \/ FetchArchive(p) \/ CopyError(p) \/ RefuseEntry(p) \/ ExtractDone(p)
         \/ OpenFile(p)
  PROVE  SoloInv'
<1>1. /\ archive' = archive /\ dir' = dir /\ file' = file /\ idx' = idx /\ rm' = rm
      /\ \A q \in Procs : q # p => pc'[q] = pc[q] /\ fd'[q] = fd[q]
  BY DEF Begin, CheckHas, FetchArchive, CopyError, RefuseEntry, ExtractDone, OpenFile, Goto, GiveUp,
         SoloInv, StateOK
<1>2. StateOK'
  <2> USE DEF SoloInv, StateOK, Goto
  <2>0. CASE Begin(p)
    BY <2>0 DEF Begin, Unpacking
  <2>1. CASE OpenFile(p)
    <3>1. PICK r \in {"404", "whole", "torn"} : reply' = [reply EXCEPT ![p] = r]
      BY <2>1 DEF OpenFile
    <3> QED
      BY <2>1, <3>1 DEF OpenFile, Unpacking
  <2>2. CASE CheckHas(p) \/ FetchArchive(p)
    BY <2>2 DEF CheckHas, FetchArchive, GiveUp, Unpacking
  <2>3. CASE CopyError(p) \/ RefuseEntry(p) \/ ExtractDone(p)
    BY <2>3 DEF CopyError, RefuseEntry, ExtractDone, Unpacking
  <2> QED
    BY <2>0, <2>1, <2>2, <2>3
<1>3. Complete' /\ OnlyMembers'
  BY <1>1 DEF SoloInv, Complete, OnlyMembers
<1>4. OneBusy'
  BY DEF Begin, Alone, CheckHas, FetchArchive, CopyError, RefuseEntry, ExtractDone, OpenFile, Goto,
         GiveUp, SoloInv, StateOK, OneBusy
<1>5. NoBundleYet'
  BY DEF Begin, CheckHas, FetchArchive, CopyError, RefuseEntry, ExtractDone, OpenFile, Goto, GiveUp,
         SoloInv, StateOK, NoBundleYet
<1>6. WorksInTmp'
  <2>1. pc'[p] # "copy" /\ pc[p] \notin {"rmtmp", "cleanup"}
    BY DEF Begin, CheckHas, FetchArchive, CopyError, RefuseEntry, ExtractDone, OpenFile, Goto,
           GiveUp, SoloInv, StateOK
  <2> QED
    BY <1>1, <2>1 DEF SoloInv, WorksInTmp
<1>7. TmpExtracted'
  <2>1. \/ pc'[p] \notin {"extract", "copy", "rmdest", "rename"}
        \/ pc[p] = "extract" /\ pc'[p] = "rmdest" /\ idx[p] > Len(archive)
    BY DEF Begin, CheckHas, FetchArchive, CopyError, RefuseEntry, ExtractDone, OpenFile, Goto,
           GiveUp, SoloInv, StateOK
  <2>2. ASSUME NEW q \in Procs, pc'[q] \in {"extract", "copy", "rmdest", "rename"}
        PROVE  Extracted(q)' /\ (pc'[q] \in {"rmdest", "rename"} => idx'[q] > Len(archive'))
    <3>1. CASE q = p
      BY <1>1, <2>1, <2>2, <3>1 DEF SoloInv, TmpExtracted, Extracted
    <3>2. CASE q # p
      BY <1>1, <2>2, <3>2 DEF SoloInv, TmpExtracted, Extracted
    <3> QED
      BY <3>1, <3>2
  <2> QED
    BY <2>2 DEF TmpExtracted
<1> QED
  BY <1>2, <1>3, <1>4, <1>5, <1>6, <1>7 DEF SoloInv

\* RemoveAll(tmp) at work, at the start of Unpack or deferred to its end, never
\* reaches the bundle.
LEMMA SoloRemovePart ==
  ASSUME SoloInv, NEW p \in Procs, pc[p] \in {"rmtmp", "cleanup"},
         RemoveScan(p, "tmp") \/ RemoveOne(p)
  PROVE  SoloInv'
<1>1. /\ RemoveOne(p) => rm[p].at = "tmp"
      /\ \A q \in Procs : q # p => pc[q] = "idle" /\ rm[q].at = "no"
      /\ archive' = archive /\ dir' = dir /\ pc' = pc /\ idx' = idx /\ won' = won
      /\ want' = want /\ reply' = reply
  <2>1. RemoveOne(p) => rm[p].at = "tmp"
    BY DEF RemoveOne, SoloInv, WorksInTmp
  <2>2. \A q \in Procs : q # p => pc[q] = "idle" /\ rm[q].at = "no"
    BY DEF SoloInv, WorksInTmp, OneBusy
  <2>3. /\ archive' = archive /\ dir' = dir /\ pc' = pc /\ idx' = idx /\ won' = won
        /\ want' = want /\ reply' = reply
    BY DEF RemoveScan, RemoveOne
  <2> QED
    BY <2>1, <2>2, <2>3
<1>2. /\ rm' \in [Procs -> [at : Places \union {"no", "gone"}, todo : SUBSET Members]]
      /\ rm'[p].at = "tmp"
      /\ \A q \in Procs : q # p => rm'[q] = rm[q]
  <2>1. CASE RemoveScan(p, "tmp")
    <3>1. Inside("tmp") \in SUBSET Members
      BY DEF Inside
    <3> QED
      BY <2>1, <3>1 DEF RemoveScan, SoloInv, StateOK, Places
  <2>2. CASE RemoveOne(p)
    <3>1. PICK m \in rm[p].todo : rm' = [rm EXCEPT ![p].todo = @ \ {m}]
      BY <2>2 DEF RemoveOne
    <3> DEFINE R == [at : Places \union {"no", "gone"}, todo : SUBSET Members]
    <3>2. rm \in [Procs -> R]
      BY DEF SoloInv, StateOK
    <3>3. rm[p] \in R
      BY <3>2
    <3>4. [rm[p] EXCEPT !.todo = @ \ {m}] \in R /\ [rm[p] EXCEPT !.todo = @ \ {m}].at = rm[p].at
      BY <3>3
    <3>5. rm' = [rm EXCEPT ![p] = [rm[p] EXCEPT !.todo = @ \ {m}]]
      BY <3>1, <3>2
    <3> HIDE DEF R
    <3>6. rm' \in [Procs -> R] /\ rm'[p].at = rm[p].at /\ \A q \in Procs : q # p => rm'[q] = rm[q]
      BY <3>2, <3>4, <3>5
    <3>7. rm'[p].at = "tmp"
      BY <1>1, <2>2, <3>6
    <3> QED
      BY <3>6, <3>7 DEF R
  <2> QED
    BY <2>1, <2>2
<1>3. /\ file' \in [Places -> [Members -> Procs \union {"none", "whole"}]]
      /\ file'["dest"] = file["dest"]
      /\ \A x \in Places, m \in Members : file'[x][m] # "none" => file[x][m] # "none"
      /\ fd' \in [Procs -> Places \union {"closed", "gone"}]
  <2>1. CASE RemoveScan(p, "tmp")
    BY <2>1 DEF RemoveScan, SoloInv, StateOK
  <2>2. CASE RemoveOne(p)
    <3>0. rm[p].todo \subseteq Members
      BY DEF SoloInv, StateOK
    <3>1. PICK m \in rm[p].todo :
            /\ file' = IF rm[p].at \in Places THEN [file EXCEPT ![rm[p].at][m] = "none"] ELSE file
            /\ fd' = [q \in Procs |->
                        IF fd[q] = rm[p].at /\ pc[q] = "copy" /\ archive[idx[q]].name = m
                        THEN "gone" ELSE fd[q]]
      BY <2>2 DEF RemoveOne
    <3>2. file' = file \/ file' = [file EXCEPT !["tmp"][m] = "none"]
      BY <1>1, <2>2, <3>1 DEF Places
    <3>3. /\ file' \in [Places -> [Members -> Procs \union {"none", "whole"}]]
          /\ file'["dest"] = file["dest"]
          /\ \A x \in Places, n \in Members : file'[x][n] # "none" => file[x][n] # "none"
      BY <3>0, <3>2 DEF SoloInv, StateOK, Places
    <3> QED
      BY <3>1, <3>3 DEF SoloInv, StateOK
  <2> QED
    BY <2>1, <2>2
<1>4. StateOK'
  BY <1>1, <1>2, <1>3 DEF SoloInv, StateOK
<1>5. OneBusy' /\ NoBundleYet'
  BY <1>1 DEF SoloInv, OneBusy, NoBundleYet
<1>6. WorksInTmp' /\ TmpExtracted'
  BY <1>1, <1>2 DEF SoloInv, WorksInTmp, TmpExtracted
<1>7. OnlyMembers' /\ Complete'
  BY <1>1, <1>3 DEF SoloInv, OnlyMembers, Complete
<1> QED
  BY <1>4, <1>5, <1>6, <1>7 DEF SoloInv

\* RemoveAll(tmp) ends, and the request goes on to l with the answer r.
LEMMA SoloRemoveEnd ==
  ASSUME SoloInv, NEW p \in Procs, pc[p] \in {"rmtmp", "cleanup"}, RemoveEnd(p, "tmp"),
         NEW l \in {"mkdir", "open", "idle"}, l = "mkdir" => pc[p] = "rmtmp", Goto(p, l),
         reply' = reply \/ reply' = [reply EXCEPT ![p] = "blossom"]
  PROVE  SoloInv'
<1>1. /\ \A q \in Procs : q # p => pc[q] = "idle" /\ rm[q].at = "no"
      /\ archive' = archive /\ file' = file /\ idx' = idx /\ fd' = fd /\ won' = won
      /\ want' = want
  BY DEF RemoveEnd, SoloInv, WorksInTmp, OneBusy
<1>2. /\ pc' \in [Procs -> {"idle", "has", "fetch", "open"} \union Unpacking]
      /\ pc'[p] = l
      /\ \A q \in Procs : q # p => pc'[q] = "idle"
  BY <1>1 DEF Goto, SoloInv, StateOK, Unpacking
<1>3. /\ reply' \in [Procs -> {"none", "blossom", "404", "whole", "torn"}]
      /\ \A q \in Procs : reply'[q] \in {reply[q], "blossom"}
  BY DEF SoloInv, StateOK
<1>4. dir' \in [Places -> BOOLEAN] /\ dir'["dest"] = dir["dest"]
  BY DEF RemoveEnd, SoloInv, StateOK, Places
<1>5. rm' = [q \in Procs |-> IF q = p THEN NotRemoving ELSE rm[q]]
  BY <1>1 DEF RemoveEnd
<1>6. /\ rm' \in [Procs -> [at : Places \union {"no", "gone"}, todo : SUBSET Members]]
      /\ \A q \in Procs : rm'[q].at = "no" /\ rm'[q].todo = {}
  BY <1>1, <1>5 DEF NotRemoving, SoloInv, StateOK, WorksInTmp
<1>7. StateOK'
  BY <1>1, <1>2, <1>3, <1>4, <1>6 DEF SoloInv, StateOK
<1>8. OneBusy' /\ WorksInTmp' /\ TmpExtracted'
  BY <1>2, <1>6 DEF OneBusy, WorksInTmp, TmpExtracted
<1>9. NoBundleYet'
  BY <1>2, <1>3, <1>4 DEF SoloInv, NoBundleYet
<1>10. OnlyMembers' /\ Complete'
  BY <1>1, <1>4 DEF SoloInv, OnlyMembers, Complete
<1> QED
  BY <1>7, <1>8, <1>9, <1>10 DEF SoloInv

\* Both calls of RemoveAll(tmp) keep the invariant, step by step.
LEMMA SoloRemoveTmp ==
  ASSUME SoloInv, NEW p \in Procs, RemoveTmp(p) \/ Cleanup(p) PROVE SoloInv'
<1>1. CASE RemoveTmp(p)
  <2>1. pc[p] \in {"rmtmp", "cleanup"}
    BY <1>1 DEF RemoveTmp
  <2>2. CASE RemoveScan(p, "tmp") \/ RemoveOne(p)
    BY <2>1, <2>2, SoloRemovePart
  <2>3. CASE /\ RemoveEnd(p, "tmp")
             /\ IF RemoveFails("tmp") THEN GiveUp(p) ELSE Goto(p, "mkdir") /\ UNCHANGED reply
    <3>1. \/ Goto(p, "idle") /\ reply' = [reply EXCEPT ![p] = "blossom"]
          \/ Goto(p, "mkdir") /\ reply' = reply
      BY <2>3 DEF GiveUp
    <3> QED
      BY <1>1, <2>1, <2>3, <3>1, SoloRemoveEnd DEF RemoveTmp
  <2> QED
    BY <1>1, <2>2, <2>3 DEF RemoveTmp
<1>2. CASE Cleanup(p)
  <2>1. pc[p] \in {"rmtmp", "cleanup"}
    BY <1>2 DEF Cleanup
  <2>2. CASE RemoveScan(p, "tmp") \/ RemoveOne(p)
    BY <2>1, <2>2, SoloRemovePart
  <2>3. CASE /\ RemoveEnd(p, "tmp")
             /\ IF won[p] THEN Goto(p, "open") /\ UNCHANGED reply ELSE GiveUp(p)
    <3>1. \/ Goto(p, "idle") /\ reply' = [reply EXCEPT ![p] = "blossom"]
          \/ Goto(p, "open") /\ reply' = reply
      BY <2>3 DEF GiveUp
    <3> QED
      BY <2>1, <2>3, <3>1, SoloRemoveEnd
  <2> QED
    BY <1>2, <2>2, <2>3 DEF Cleanup
<1> QED
  BY <1>1, <1>2

\* A bundle is removed only by a request that finds one installed meanwhile, and
\* alone it finds none.
LEMMA SoloRemoveDest ==
  ASSUME SoloInv, NEW p \in Procs, RemoveDest(p) PROVE SoloInv'
<1>1. /\ pc[p] = "rmdest" /\ ~ dir["dest"] /\ rm[p].at = "no" /\ rm[p].todo = {}
      /\ \A q \in Procs : q # p => pc[q] = "idle" /\ rm[q].at = "no" /\ rm[q].todo = {}
      /\ Extracted(p) /\ idx[p] > Len(archive)
  BY DEF RemoveDest, SoloInv, NoBundleYet, WorksInTmp, OneBusy, TmpExtracted
<1>2. RemoveEnd(p, "dest") /\ Goto(p, "rename") /\ reply' = reply
  BY <1>1 DEF RemoveDest, RemoveScan, RemoveOne, RemoveFails
<1>3. /\ archive' = archive /\ file' = file /\ idx' = idx /\ fd' = fd /\ won' = won
      /\ want' = want
  BY <1>2 DEF RemoveEnd
<1>4. dir' = dir
  BY <1>1, <1>2 DEF RemoveEnd, RemoveFails, SoloInv, StateOK, Places
<1>5. rm' = [q \in Procs |-> IF q = p THEN NotRemoving ELSE rm[q]]
  BY <1>1, <1>2 DEF RemoveEnd
<1>6. /\ rm' \in [Procs -> [at : Places \union {"no", "gone"}, todo : SUBSET Members]]
      /\ \A q \in Procs : rm'[q].at = "no" /\ rm'[q].todo = {}
  BY <1>1, <1>5 DEF NotRemoving, SoloInv, StateOK
<1>7. /\ pc' \in [Procs -> {"idle", "has", "fetch", "open"} \union Unpacking]
      /\ pc'[p] = "rename"
      /\ \A q \in Procs : q # p => pc'[q] = "idle"
  BY <1>1, <1>2 DEF Goto, SoloInv, StateOK, Unpacking
<1>8. StateOK'
  BY <1>2, <1>3, <1>4, <1>6, <1>7 DEF SoloInv, StateOK
<1>9. OneBusy' /\ WorksInTmp' /\ NoBundleYet'
  BY <1>1, <1>2, <1>4, <1>6, <1>7 DEF SoloInv, OneBusy, WorksInTmp, NoBundleYet
<1>10. TmpExtracted'
  <2>1. Extracted(p)'
    BY <1>1, <1>3 DEF Extracted
  <2> QED
    BY <1>1, <1>3, <1>7, <2>1 DEF TmpExtracted
<1>11. OnlyMembers' /\ Complete'
  BY <1>3, <1>4 DEF SoloInv, OnlyMembers, Complete
<1> QED
  BY <1>8, <1>9, <1>10, <1>11 DEF SoloInv

\* What a step of Unpack outside RemoveAll and Rename changes: tmp, p's own
\* registers and where p is.
LEMMA SoloWorkFrame ==
  ASSUME SoloInv, NEW p \in Procs,
         MkdirTmp(p) \/ OpenMember(p) \/ CopyMember(p) \/ SkipEntry(p)
  PROVE  /\ archive' = archive /\ rm' = rm /\ want' = want /\ reply' = reply
         /\ dir' \in [Places -> BOOLEAN] /\ dir'["dest"] = dir["dest"] /\ ~ dir["dest"]
         /\ pc' \in [Procs -> {"idle", "has", "fetch", "open"} \union Unpacking]
         /\ pc[p] \in {"mkdir", "extract", "copy"} /\ pc'[p] \in {"extract", "copy"}
         /\ \A q \in Procs : q # p => pc[q] = "idle" /\ pc'[q] = "idle"
         /\ \A q \in Procs : rm[q].at = "no" /\ rm[q].todo = {}
         /\ idx' \in [Procs -> Nat \ {0}] /\ won' \in [Procs -> BOOLEAN]
         /\ fd' \in [Procs -> Places \union {"closed", "gone"}]
<1> USE DEF SoloInv, StateOK
<1>1. /\ archive' = archive /\ rm' = rm /\ want' = want /\ reply' = reply
      /\ pc[p] \in {"mkdir", "extract", "copy"}
  BY DEF MkdirTmp, OpenMember, CopyMember, SkipEntry
<1>2. dir' \in [Places -> BOOLEAN] /\ dir'["dest"] = dir["dest"]
  <2>1. dir' = dir \/ dir' = [dir EXCEPT !["tmp"] = TRUE]
    BY DEF MkdirTmp, OpenMember, CopyMember, SkipEntry
  <2> QED
    BY <2>1 DEF Places
<1>3. /\ pc' \in [Procs -> {"idle", "has", "fetch", "open"} \union Unpacking]
      /\ pc'[p] \in {"extract", "copy"}
      /\ \A q \in Procs : q # p => pc'[q] = pc[q]
  BY DEF MkdirTmp, OpenMember, CopyMember, SkipEntry, Goto, Unpacking
<1>4. \A q \in Procs : q # p => pc[q] = "idle"
  BY <1>1 DEF OneBusy
<1>5. ~ dir["dest"] /\ \A q \in Procs : rm[q].at = "no" /\ rm[q].todo = {}
  BY <1>1, <1>4 DEF NoBundleYet, WorksInTmp
<1>6. idx' \in [Procs -> Nat \ {0}]
  BY DEF MkdirTmp, OpenMember, CopyMember, SkipEntry
<1>7. won' \in [Procs -> BOOLEAN]
  BY DEF MkdirTmp, OpenMember, CopyMember, SkipEntry
<1>8. fd' \in [Procs -> Places \union {"closed", "gone"}]
  BY DEF MkdirTmp, OpenMember, CopyMember, SkipEntry, Places
<1> QED
  BY <1>1, <1>2, <1>3, <1>4, <1>5, <1>6, <1>7, <1>8

\* The parts of the invariant that follow from the frame, given what the step
\* does to tmp.
LEMMA SoloWork ==
  ASSUME SoloInv, NEW p \in Procs,
         MkdirTmp(p) \/ OpenMember(p) \/ CopyMember(p) \/ SkipEntry(p),
         file' \in [Places -> [Members -> Procs \union {"none", "whole"}]],
         \A x \in Places, m \in Members :
           file'[x][m] # "none" => file[x][m] # "none" \/ m \in FilesOf(archive),
         Extracted(p)',
         pc'[p] = "copy" => /\ fd'[p] = "tmp" /\ idx'[p] <= Len(archive)
                            /\ archive[idx'[p]].kind = "file"
                            /\ file'["tmp"][archive[idx'[p]].name] = p
  PROVE  SoloInv'
<1>1. StateOK'
  BY SoloWorkFrame DEF SoloInv, StateOK
<1>2. OneBusy' /\ NoBundleYet'
  BY SoloWorkFrame DEF SoloInv, OneBusy, NoBundleYet
<1>3. WorksInTmp'
  BY SoloWorkFrame DEF WorksInTmp
<1>4. TmpExtracted'
  BY SoloWorkFrame DEF TmpExtracted
<1>5. OnlyMembers' /\ Complete'
  BY SoloWorkFrame DEF SoloInv, OnlyMembers, Complete
<1> QED
  BY <1>1, <1>2, <1>3, <1>4, <1>5 DEF SoloInv

\* The extraction loop keeps its invariant: what was extracted is in tmp.
LEMMA SoloExtract ==
  ASSUME SoloInv, NEW p \in Procs,
         MkdirTmp(p) \/ OpenMember(p) \/ CopyMember(p) \/ SkipEntry(p)
  PROVE  SoloInv'
<1> DEFINE F == [Places -> [Members -> Procs \union {"none", "whole"}]]
<1>1. /\ Len(archive) \in Nat /\ idx[p] \in Nat /\ idx[p] > 0
      /\ \A i \in 1..Len(archive) : archive[i].name \in Members
      /\ file \in F /\ pc \in [Procs -> {"idle", "has", "fetch", "open"} \union Unpacking]
      /\ idx \in [Procs -> Nat \ {0}] /\ fd \in [Procs -> Places \union {"closed", "gone"}]
      /\ pc[p] \in {"extract", "copy"} => Extracted(p)
      /\ "tmp" \in Places
  BY ArchiveType DEF SoloInv, StateOK, TmpExtracted, Places
<1>2. CASE MkdirTmp(p)
  <2>1. file' = file /\ archive' = archive /\ idx'[p] = 1 /\ pc'[p] = "extract"
    BY <1>1, <1>2 DEF MkdirTmp, Goto
  <2>2. Extracted(p)'
    BY <1>1, <2>1 DEF Extracted
  <2> QED
    BY <1>1, <1>2, <2>1, <2>2, SoloWork
<1>3. CASE OpenMember(p)
  <2> DEFINE n == archive[idx[p]].name
  <2>1. /\ archive' = archive /\ idx' = idx /\ pc[p] = "extract" /\ pc'[p] = "copy" /\ fd'[p] = "tmp"
        /\ idx[p] \in 1..Len(archive) /\ archive[idx[p]].kind = "file"
        /\ file' = [file EXCEPT !["tmp"][n] = p]
    BY <1>1, <1>3 DEF OpenMember, Goto
  <2>2. n \in Members /\ n \in FilesOf(archive)
    BY <1>1, <2>1 DEF FilesOf
  <2>3. /\ file' \in F /\ \A m \in Members : m # n => file'["tmp"][m] = file["tmp"][m]
        /\ \A x \in Places, m \in Members : file'[x][m] # file[x][m] => m = n
        /\ file'["tmp"][n] = p
    BY <1>1, <2>1, <2>2
  <2>4. Extracted(p)'
    BY <1>1, <2>1, <2>3 DEF Extracted
  <2> QED
    BY <1>3, <2>1, <2>2, <2>3, <2>4, SoloWork
<1>4. CASE CopyMember(p)
  <2> DEFINE n == archive[idx[p]].name
  <2>1. /\ pc[p] = "copy" /\ fd[p] = "tmp" /\ idx[p] \in 1..Len(archive)
        /\ archive[idx[p]].kind = "file" /\ file["tmp"][n] = p
    BY <1>1, <1>4 DEF CopyMember, SoloInv, WorksInTmp
  <2>2. n \in Members /\ n \in FilesOf(archive)
    BY <1>1, <2>1 DEF FilesOf
  <2>3. /\ archive' = archive /\ idx'[p] = idx[p] + 1 /\ pc'[p] = "extract"
        /\ file' = [file EXCEPT !["tmp"][n] = "whole"]
    BY <1>1, <1>4, <2>1 DEF CopyMember, Goto
  <2>4. /\ file' \in F /\ \A m \in Members : m # n => file'["tmp"][m] = file["tmp"][m]
        /\ \A x \in Places, m \in Members : file'[x][m] # file[x][m] => m = n
        /\ file'["tmp"][n] = "whole"
    BY <1>1, <2>2, <2>3
  <2>5. Extracted(p)'
    BY <1>1, <2>1, <2>3, <2>4 DEF Extracted, Refused
  <2> QED
    BY <1>4, <2>2, <2>3, <2>4, <2>5, SoloWork
<1>5. CASE SkipEntry(p)
  <2>1. /\ archive' = archive /\ file' = file /\ idx'[p] = idx[p] + 1 /\ pc' = pc /\ pc[p] = "extract"
        /\ idx[p] \in 1..Len(archive) /\ archive[idx[p]].kind \notin Refused \union {"file"}
    BY <1>1, <1>5 DEF SkipEntry
  <2>2. Extracted(p)'
    BY <1>1, <2>1 DEF Extracted
  <2> QED
    BY <1>1, <1>5, <2>1, <2>2, SoloWork
<1> QED
  BY <1>2, <1>3, <1>4, <1>5

\* The rename installs what was extracted, and that is the whole archive.
LEMMA SoloRename ==
  ASSUME SoloInv, NEW p \in Procs, Rename(p) PROVE SoloInv'
<1>1. /\ pc[p] = "rename" /\ ~ dir["dest"] /\ Extracted(p) /\ idx[p] > Len(archive)
      /\ \A q \in Procs : q # p => pc[q] = "idle"
      /\ \A q \in Procs : rm[q].at = "no" /\ rm[q].todo = {}
      /\ archive' = archive /\ idx' = idx /\ want' = want /\ reply' = reply
  BY DEF Rename, SoloInv, NoBundleYet, OneBusy, TmpExtracted, WorksInTmp
<1>2. /\ pc' \in [Procs -> {"idle", "has", "fetch", "open"} \union Unpacking]
      /\ pc'[p] = "cleanup"
      /\ \A q \in Procs : q # p => pc'[q] = "idle"
  BY <1>1 DEF Rename, Goto, SoloInv, StateOK, Unpacking
<1>3. rm' = rm
  BY <1>1 DEF Rename, SoloInv, StateOK
<1>4. fd' \in [Procs -> Places \union {"closed", "gone"}] /\ won' \in [Procs -> BOOLEAN]
  <2>1. CASE dir["tmp"] /\ Inside("dest") = {}
    <3>1. fd' = [q \in Procs |-> IF fd[q] = "tmp" THEN "dest" ELSE fd[q]]
      BY <2>1 DEF Rename
    <3>2. won' = [won EXCEPT ![p] = TRUE]
      BY <2>1 DEF Rename
    <3>3. fd' \in [Procs -> Places \union {"closed", "gone"}]
      BY <3>1 DEF SoloInv, StateOK, Places
    <3> QED
      BY <3>2, <3>3 DEF SoloInv, StateOK
  <2>2. CASE ~ (dir["tmp"] /\ Inside("dest") = {})
    BY <2>2 DEF Rename, SoloInv, StateOK
  <2> QED
    BY <2>1, <2>2
<1>5. \/ dir' = dir /\ file' = file
      \/ /\ dir' = [dir EXCEPT !["tmp"] = FALSE, !["dest"] = TRUE]
         /\ file' = [file EXCEPT !["tmp"] = NoFiles, !["dest"] = file["tmp"]]
  BY DEF Rename
<1>6. /\ dir' \in [Places -> BOOLEAN]
      /\ file' \in [Places -> [Members -> Procs \union {"none", "whole"}]]
      /\ \/ dir' = dir /\ file' = file
         \/ file'["tmp"] = NoFiles /\ file'["dest"] = file["tmp"]
  <2> DEFINE F == [Members -> Procs \union {"none", "whole"}]
  <2>1. NoFiles \in F /\ file \in [Places -> F] /\ file["tmp"] \in F /\ dir \in [Places -> BOOLEAN]
    BY DEF NoFiles, SoloInv, StateOK, Places
  <2> HIDE DEF F
  <2>2. "tmp" \in Places /\ "dest" \in Places
    BY DEF Places
  <2>3. /\ dir' \in [Places -> BOOLEAN] /\ file' \in [Places -> F]
        /\ \/ dir' = dir /\ file' = file
           \/ file'["tmp"] = NoFiles /\ file'["dest"] = file["tmp"]
    BY <1>5, <2>1, <2>2
  <2> QED
    BY <2>3 DEF F
<1>7. StateOK'
  BY <1>1, <1>2, <1>3, <1>4, <1>6 DEF SoloInv, StateOK
<1>8. OneBusy' /\ WorksInTmp' /\ NoBundleYet' /\ TmpExtracted'
  BY <1>1, <1>2, <1>3 DEF SoloInv, OneBusy, WorksInTmp, NoBundleYet, TmpExtracted
<1>9. OnlyMembers'
  BY <1>1, <1>6 DEF SoloInv, OnlyMembers, NoFiles, Places
<1>10. Complete'
  <2>1. Len(archive) \in Nat /\ idx[p] \in Nat
    BY ArchiveType DEF SoloInv, StateOK
  <2>2. \A i \in 1..Len(archive) :
          /\ archive[i].kind \notin Refused
          /\ archive[i].kind = "file" => file["tmp"][archive[i].name] = "whole"
    BY <1>1, <2>1 DEF Extracted
  <2>3. Sound(archive) /\ \A m \in FilesOf(archive) : file["tmp"][m] = "whole"
    BY <2>2 DEF Sound, FilesOf, Refused
  <2> QED
    BY <1>1, <1>6, <2>3 DEF SoloInv, Complete
<1> QED
  BY <1>7, <1>8, <1>9, <1>10 DEF SoloInv

\* A crash leaves the directories as they are.
LEMMA SoloCrash ==
  ASSUME SoloInv, Crash PROVE SoloInv'
<1>1. StateOK'
  BY DEF SoloInv, StateOK, Crash, NotRemoving
<1>2. OneBusy' /\ WorksInTmp' /\ NoBundleYet' /\ TmpExtracted'
  BY DEF Crash, NotRemoving, OneBusy, WorksInTmp, NoBundleYet, TmpExtracted
<1>3. OnlyMembers' /\ Complete'
  BY DEF Crash, SoloInv, OnlyMembers, Complete
<1> QED
  BY <1>1, <1>2, <1>3 DEF SoloInv

\* Every step of one request at a time, and the crash, keep the invariant.
LEMMA SoloStep ==
  ASSUME SoloInv, ~ Overlap', (\E p \in Procs : Begin(p) \/ Step(p)) \/ Crash PROVE SoloInv'
<1>1. CASE Crash
  BY <1>1, SoloCrash
<1>2. ASSUME NEW p \in Procs, Begin(p) PROVE SoloInv'
  <2>1. pc' = [pc EXCEPT ![p] = "has"] /\ DOMAIN pc = Procs
    BY <1>2 DEF Begin, Goto, SoloInv, StateOK
  <2>2. Alone(p)
    BY <2>1 DEF Overlap, Alone
  <2> QED
    BY <1>2, <2>2, SoloQuiet
<1>3. ASSUME NEW p \in Procs, Step(p) PROVE SoloInv'
  <2>1. CASE \/ CheckHas(p) \/ FetchArchive(p) \/ CopyError(p) \/ RefuseEntry(p) \/ ExtractDone(p)
             \/ OpenFile(p)
    BY <2>1, SoloQuiet
  <2>2. CASE RemoveTmp(p) \/ Cleanup(p)
    BY <2>2, SoloRemoveTmp
  <2>3. CASE MkdirTmp(p) \/ OpenMember(p) \/ CopyMember(p) \/ SkipEntry(p)
    BY <2>3, SoloExtract
  <2>4. CASE RemoveDest(p)
    BY <2>4, SoloRemoveDest
  <2>5. CASE Rename(p)
    BY <2>5, SoloRename
  <2> QED
    BY <1>3, <2>1, <2>2, <2>3, <2>4, <2>5 DEF Step
<1> QED
  BY <1>1, <1>2, <1>3

\* The invariant holds until two requests overlap.
UntilOverlap == ~ overlapped => SoloInv

\* Every step keeps it.
LEMMA UntilOverlapStep == UntilOverlap /\ [Next]_vars => UntilOverlap'
<1> SUFFICES ASSUME UntilOverlap, [Next]_vars, ~ overlapped' PROVE SoloInv'
  BY Zenon DEF UntilOverlap
<1>1. CASE UNCHANGED vars
  BY <1>1 DEF vars, UntilOverlap, SoloInv, StateOK, OneBusy, WorksInTmp, NoBundleYet,
              TmpExtracted, Extracted, OnlyMembers, Complete
<1>2. CASE Next
  <2>1. ~ overlapped /\ ~ Overlap'
    BY <1>2, Zenon DEF Next, NoteOverlap
  <2>2. SoloInv
    BY <2>1, Zenon DEF UntilOverlap
  <2> QED
    BY <1>2, <2>1, <2>2, SoloStep, Zenon DEF Next
<1> QED
  BY <1>1, <1>2, Zenon

\* The invariant always holds until two requests overlap.
LEMMA SoloAlways == Spec => []UntilOverlap
<1>1. Init => UntilOverlap
  BY SoloInit, Zenon DEF UntilOverlap
<1> QED
  BY <1>1, UntilOverlapStep, PTL DEF Spec

\* As long as requests come one at a time, an installed bundle has every file of
\* its archive, whole, and its archive has no link, special file or entry that
\* leaves the root, wherever the process died before.
THEOREM BundleIsComplete == Spec => []BundleComplete
<1>1. UntilOverlap => BundleComplete
  BY Zenon DEF UntilOverlap, SoloInv, BundleComplete
<1> QED
  BY SoloAlways, <1>1, PTL

----------------------------------------------------------------------------
\* What holds however requests overlap.  Where a request is in extractTar: the
\* entries before idx[p] are accepted, the one it copies is a file, and it is
\* past the last one when it goes on to install the bundle.
LoopOK(p) ==
  /\ pc[p] \in {"extract", "copy", "rmdest", "rename"} =>
       \A i \in 1..Len(archive) : i < idx[p] => archive[i].kind \notin Refused
  /\ pc[p] = "copy" => idx[p] <= Len(archive) /\ archive[idx[p]].kind = "file"
  /\ pc[p] \in {"rmdest", "rename"} => idx[p] > Len(archive)

SoundInv == StateOK /\ (\A p \in Procs : LoopOK(p)) /\ OnlySoundInstalled

\* It holds before the first request.
LEMMA SoundInit == Init => SoundInv
  BY DEF Init, SoundInv, StateOK, LoopOK, OnlySoundInstalled, NoFiles, NotRemoving, Places

\* The member that a request opens or copies.
LEMMA MemberAtHand ==
  ASSUME SoundInv, NEW p \in Procs, OpenMember(p) \/ CopyMember(p)
  PROVE  archive[idx[p]].name \in Members /\ archive[idx[p]].kind \notin Refused
<1>1. idx[p] \in Nat \ {0} /\ idx[p] <= Len(archive) /\ archive[idx[p]].kind = "file"
  BY DEF SoundInv, StateOK, LoopOK, OpenMember, CopyMember
<1>2. StateOK
  BY DEF SoundInv
<1>3. idx[p] \in 1..Len(archive)
  BY <1>1, <1>2, ArchiveType
<1> QED
  BY <1>1, <1>2, <1>3, ArchiveType DEF Refused

\* The steps of RemoveAll keep the types, whoever else is in the directory.
LEMMA RemoveTypes ==
  ASSUME StateOK, NEW p \in Procs, NEW x \in Places,
         RemoveScan(p, x) \/ RemoveOne(p) \/ RemoveEnd(p, x)
  PROVE  /\ archive' = archive /\ idx' = idx /\ won' = won /\ want' = want
         /\ dir' \in [Places -> BOOLEAN] /\ (dir'["dest"] => dir["dest"])
         /\ file' \in [Places -> [Members -> Procs \union {"none", "whole"}]]
         /\ fd' \in [Procs -> Places \union {"closed", "gone"}]
         /\ rm' \in [Procs -> [at : Places \union {"no", "gone"}, todo : SUBSET Members]]
<1> DEFINE R == [at : Places \union {"no", "gone"}, todo : SUBSET Members]
<1>1. CASE RemoveScan(p, x)
  <2>1. [at |-> x, todo |-> Inside(x)] \in R
    BY DEF Inside
  <2> HIDE DEF R
  <2>2. rm' \in [Procs -> R]
    BY <1>1, <2>1 DEF RemoveScan, StateOK, R
  <2> QED
    BY <1>1, <2>2 DEF RemoveScan, StateOK, R
<1>2. CASE RemoveOne(p)
  <2>1. PICK m \in rm[p].todo :
          /\ rm' = [rm EXCEPT ![p].todo = @ \ {m}]
          /\ file' = IF rm[p].at \in Places THEN [file EXCEPT ![rm[p].at][m] = "none"] ELSE file
          /\ fd' = [q \in Procs |->
                      IF fd[q] = rm[p].at /\ pc[q] = "copy" /\ archive[idx[q]].name = m
                      THEN "gone" ELSE fd[q]]
    BY <1>2 DEF RemoveOne
  <2>2. m \in Members
    BY <2>1 DEF StateOK
  <2>3. rm' \in [Procs -> R]
    BY <2>1, <2>2 DEF StateOK
  <2>4. file' \in [Places -> [Members -> Procs \union {"none", "whole"}]]
    BY <2>1, <2>2 DEF StateOK
  <2>5. fd' \in [Procs -> Places \union {"closed", "gone"}]
    BY <2>1 DEF StateOK
  <2> QED
    BY <1>2, <2>3, <2>4, <2>5 DEF RemoveOne, StateOK
<1>3. CASE RemoveEnd(p, x)
  <2>1. dir' \in [Places -> BOOLEAN] /\ (dir'["dest"] => dir["dest"])
    <3>1. dir' = dir \/ dir' = [dir EXCEPT ![x] = FALSE]
      BY <1>3 DEF RemoveEnd
    <3> QED
      BY <3>1 DEF StateOK, Places
  <2>2. rm' \in [Procs -> R]
    <3>1. NotRemoving \in R /\ \A q \in Procs : rm[q] \in R /\ [rm[q] EXCEPT !.at = "gone"] \in R
      BY DEF NotRemoving, StateOK
    <3> HIDE DEF R
    <3> QED
      BY <1>3, <3>1 DEF RemoveEnd
  <2> QED
    BY <1>3, <2>1, <2>2 DEF RemoveEnd, StateOK
<1> QED
  BY <1>1, <1>2, <1>3

\* A step of p that leaves the others where they are keeps the invariant, given
\* what it does to the types, to p's place in the archive and to dest.
LEMMA SoundFrame ==
  ASSUME SoundInv, NEW p \in Procs, StateOK', archive' = archive, LoopOK(p)',
         \A q \in Procs : q # p => pc'[q] = pc[q] /\ idx'[q] = idx[q],
         dir'["dest"] => dir["dest"] \/ pc[p] = "rename"
  PROVE  SoundInv'
<1>1. ASSUME NEW q \in Procs PROVE LoopOK(q)'
  BY <1>1 DEF SoundInv, LoopOK
<1>2. OnlySoundInstalled'
  <2>1. CASE pc[p] = "rename"
    <3>1. Len(archive) \in Nat /\ idx[p] \in Nat /\ idx[p] > Len(archive)
      BY <2>1, ArchiveType DEF SoundInv, StateOK, LoopOK
    <3>2. Sound(archive)
      BY <2>1, <3>1 DEF SoundInv, LoopOK, Sound, Refused
    <3> QED
      BY <3>2 DEF OnlySoundInstalled
  <2>2. CASE pc[p] # "rename"
    BY <2>2 DEF SoundInv, OnlySoundInstalled
  <2> QED
    BY <2>1, <2>2
<1> QED
  BY <1>1, <1>2 DEF SoundInv

\* A step that only moves p on, or answers its request.
LEMMA SoundMoves ==
  ASSUME SoundInv, NEW p \in Procs,
         \/ Begin(p) \/ CheckHas(p) \/ FetchArchive(p) \/ CopyError(p) \/ RefuseEntry(p)
         \/ ExtractDone(p) \/ OpenFile(p)
  PROVE  SoundInv'
<1>1. /\ archive' = archive /\ dir' = dir /\ file' = file /\ idx' = idx /\ rm' = rm /\ won' = won
      /\ \A q \in Procs : q # p => pc'[q] = pc[q]
  BY DEF Begin, CheckHas, FetchArchive, CopyError, RefuseEntry, ExtractDone, OpenFile, Goto, GiveUp,
         SoundInv, StateOK
<1>2. /\ pc' \in [Procs -> {"idle", "has", "fetch", "open"} \union Unpacking]
      /\ \/ pc'[p] \notin {"extract", "copy", "rmdest", "rename"}
         \/ pc[p] = "extract" /\ pc'[p] = "rmdest" /\ idx[p] > Len(archive)
  BY DEF Begin, CheckHas, FetchArchive, CopyError, RefuseEntry, ExtractDone, OpenFile, Goto, GiveUp,
         SoundInv, StateOK, Unpacking
<1>3. want' \in [Procs -> Members]
  BY DEF Begin, CheckHas, FetchArchive, CopyError, RefuseEntry, ExtractDone, OpenFile,
         SoundInv, StateOK
<1>4. fd' \in [Procs -> Places \union {"closed", "gone"}]
  BY DEF Begin, CheckHas, FetchArchive, CopyError, RefuseEntry, ExtractDone, OpenFile,
         SoundInv, StateOK
<1>5. reply' \in [Procs -> {"none", "blossom", "404", "whole", "torn"}]
  <2>1. CASE OpenFile(p)
    <3>1. PICK r \in {"404", "whole", "torn"} : reply' = [reply EXCEPT ![p] = r]
      BY <2>1 DEF OpenFile
    <3> QED
      BY <3>1 DEF SoundInv, StateOK
  <2>2. CASE \/ Begin(p) \/ CheckHas(p) \/ FetchArchive(p) \/ CopyError(p) \/ RefuseEntry(p)
             \/ ExtractDone(p)
    BY <2>2 DEF Begin, CheckHas, FetchArchive, CopyError, RefuseEntry, ExtractDone, GiveUp,
                SoundInv, StateOK
  <2> QED
    BY <2>1, <2>2
<1>6. StateOK'
  BY <1>1, <1>2, <1>3, <1>4, <1>5 DEF SoundInv, StateOK
<1>7. LoopOK(p)'
  BY <1>1, <1>2 DEF SoundInv, LoopOK
<1> QED
  BY <1>1, <1>6, <1>7, SoundFrame

\* RemoveAll never puts anything into dest.
LEMMA SoundRemove ==
  ASSUME SoundInv, NEW p \in Procs, RemoveTmp(p) \/ RemoveDest(p) \/ Cleanup(p) PROVE SoundInv'
<1>1. PICK x \in Places : RemoveScan(p, x) \/ RemoveOne(p) \/ RemoveEnd(p, x)
  BY DEF RemoveTmp, RemoveDest, Cleanup, Places
<1>2. /\ \/ pc' = pc
         \/ pc' = [pc EXCEPT ![p] = "mkdir"] \/ pc' = [pc EXCEPT ![p] = "idle"]
         \/ pc' = [pc EXCEPT ![p] = "cleanup"] \/ pc' = [pc EXCEPT ![p] = "open"]
         \/ pc[p] = "rmdest" /\ pc' = [pc EXCEPT ![p] = "rename"]
      /\ reply' = reply \/ reply' = [reply EXCEPT ![p] = "blossom"]
  BY DEF RemoveTmp, RemoveDest, Cleanup, RemoveScan, RemoveOne, GiveUp, Goto
<1>3. /\ pc' \in [Procs -> {"idle", "has", "fetch", "open"} \union Unpacking]
      /\ \A q \in Procs : q # p => pc'[q] = pc[q]
      /\ \/ pc'[p] = pc[p] \/ pc'[p] \in {"mkdir", "idle", "cleanup", "open"}
         \/ pc[p] = "rmdest" /\ pc'[p] = "rename"
  BY <1>2 DEF SoundInv, StateOK, Unpacking
<1>4. reply' \in [Procs -> {"none", "blossom", "404", "whole", "torn"}]
  BY <1>2 DEF SoundInv, StateOK
<1>5. StateOK
  BY DEF SoundInv
<1>6. /\ archive' = archive /\ idx' = idx /\ StateOK' /\ (dir'["dest"] => dir["dest"])
  BY <1>1, <1>3, <1>4, <1>5, RemoveTypes DEF StateOK
<1>7. LoopOK(p)'
  BY <1>3, <1>6 DEF SoundInv, LoopOK
<1> QED
  BY <1>3, <1>6, <1>7, SoundFrame

\* The extraction loop goes past an entry only if it is accepted.
LEMMA SoundExtract ==
  ASSUME SoundInv, NEW p \in Procs,
         MkdirTmp(p) \/ OpenMember(p) \/ CopyMember(p) \/ SkipEntry(p)
  PROVE  SoundInv'
<1>1. /\ archive' = archive /\ rm' = rm /\ want' = want /\ reply' = reply
  BY DEF MkdirTmp, OpenMember, CopyMember, SkipEntry
<1>2. dir' \in [Places -> BOOLEAN] /\ dir'["dest"] = dir["dest"]
  <2>1. dir' = dir \/ dir' = [dir EXCEPT !["tmp"] = TRUE]
    BY DEF MkdirTmp, OpenMember, CopyMember, SkipEntry
  <2> QED
    BY <2>1 DEF SoundInv, StateOK, Places
<1>3. /\ pc' \in [Procs -> {"idle", "has", "fetch", "open"} \union Unpacking]
      /\ \A q \in Procs : q # p => pc'[q] = pc[q]
  BY DEF MkdirTmp, OpenMember, CopyMember, SkipEntry, Goto, Unpacking, SoundInv, StateOK
<1>4. /\ idx' \in [Procs -> Nat \ {0}]
      /\ \A q \in Procs : q # p => idx'[q] = idx[q]
  <2>1. \/ idx' = idx \/ idx' = [idx EXCEPT ![p] = 1] \/ idx' = [idx EXCEPT ![p] = idx[p] + 1]
    BY DEF MkdirTmp, OpenMember, CopyMember, SkipEntry
  <2>2. idx \in [Procs -> Nat \ {0}] /\ idx[p] + 1 \in Nat \ {0}
    BY DEF SoundInv, StateOK
  <2> QED
    BY <2>1, <2>2
<1>5. won' \in [Procs -> BOOLEAN] /\ fd' \in [Procs -> Places \union {"closed", "gone"}]
  BY DEF MkdirTmp, OpenMember, CopyMember, SkipEntry, SoundInv, StateOK, Places
<1>6. file' \in [Places -> [Members -> Procs \union {"none", "whole"}]]
  <2>1. CASE OpenMember(p)
    BY <2>1, MemberAtHand DEF OpenMember, SoundInv, StateOK, Places
  <2>2. CASE CopyMember(p)
    <3>1. file' = file \/ \E x \in Places : file' = [file EXCEPT ![x][archive[idx[p]].name] = "whole"]
      BY <2>2 DEF CopyMember
    <3>2. archive[idx[p]].name \in Members
      BY <2>2, MemberAtHand
    <3>3. file \in [Places -> [Members -> Procs \union {"none", "whole"}]]
      BY DEF SoundInv, StateOK
    <3> QED
      BY <3>1, <3>2, <3>3
  <2>3. CASE MkdirTmp(p) \/ SkipEntry(p)
    BY <2>3 DEF MkdirTmp, SkipEntry, SoundInv, StateOK
  <2> QED
    BY <2>1, <2>2, <2>3
<1>7. StateOK'
  BY <1>1, <1>2, <1>3, <1>4, <1>5, <1>6 DEF SoundInv, StateOK
<1>8. LoopOK(p)'
  <2>1. /\ Len(archive) \in Nat /\ idx[p] \in Nat /\ LoopOK(p)
        /\ pc \in [Procs -> {"idle", "has", "fetch", "open"} \union Unpacking]
        /\ idx \in [Procs -> Nat \ {0}]
    BY ArchiveType DEF SoundInv, StateOK
  <2>2. CASE MkdirTmp(p)
    <3>1. pc'[p] = "extract" /\ idx'[p] = 1
      BY <2>1, <2>2 DEF MkdirTmp, Goto
    <3> QED
      BY <1>1, <2>1, <3>1 DEF LoopOK
  <2>3. CASE OpenMember(p)
    <3>1. /\ pc'[p] = "copy" /\ idx'[p] = idx[p] /\ pc[p] = "extract"
          /\ idx[p] <= Len(archive) /\ archive[idx[p]].kind = "file"
      BY <2>1, <2>3 DEF OpenMember, Goto
    <3> QED
      BY <1>1, <2>1, <3>1 DEF LoopOK
  <2>4. CASE CopyMember(p) \/ SkipEntry(p)
    <3>1. /\ pc'[p] = "extract" /\ idx'[p] = idx[p] + 1 /\ pc[p] \in {"extract", "copy"}
          /\ archive[idx[p]].kind \notin Refused
      BY <2>1, <2>4, MemberAtHand DEF CopyMember, SkipEntry, Goto
    <3> QED
      BY <1>1, <2>1, <3>1 DEF LoopOK
  <2> QED
    BY <2>2, <2>3, <2>4
<1> QED
  BY <1>1, <1>2, <1>3, <1>4, <1>7, <1>8, SoundFrame

\* A request renames tmp, whoever filled it, only after it has itself seen every
\* entry of the archive.
LEMMA SoundRename ==
  ASSUME SoundInv, NEW p \in Procs, Rename(p) PROVE SoundInv'
<1>1. /\ pc[p] = "rename" /\ archive' = archive /\ idx' = idx /\ want' = want /\ reply' = reply
  BY DEF Rename
<1>2. /\ pc' \in [Procs -> {"idle", "has", "fetch", "open"} \union Unpacking]
      /\ pc'[p] = "cleanup"
      /\ \A q \in Procs : q # p => pc'[q] = pc[q]
  BY <1>1 DEF Rename, Goto, SoundInv, StateOK, Unpacking
<1>3. /\ dir' \in [Places -> BOOLEAN]
      /\ file' \in [Places -> [Members -> Procs \union {"none", "whole"}]]
  <2> DEFINE F == [Members -> Procs \union {"none", "whole"}]
  <2>1. /\ \/ dir' = dir
           \/ dir' = [dir EXCEPT !["tmp"] = FALSE, !["dest"] = TRUE]
        /\ \/ file' = file
           \/ file' = [file EXCEPT !["tmp"] = NoFiles, !["dest"] = file["tmp"]]
    BY DEF Rename
  <2>2. NoFiles \in F /\ file \in [Places -> F] /\ file["tmp"] \in F /\ dir \in [Places -> BOOLEAN]
    BY DEF NoFiles, SoundInv, StateOK, Places
  <2> HIDE DEF F
  <2>3. dir' \in [Places -> BOOLEAN] /\ file' \in [Places -> F]
    BY <2>1, <2>2 DEF Places
  <2> QED
    BY <2>3 DEF F
<1>4. won' \in [Procs -> BOOLEAN]
  BY DEF Rename, SoundInv, StateOK
<1>5. fd' \in [Procs -> Places \union {"closed", "gone"}]
  <2>1. fd' = fd \/ fd' = [q \in Procs |-> IF fd[q] = "tmp" THEN "dest" ELSE fd[q]]
    BY DEF Rename
  <2> QED
    BY <2>1 DEF SoundInv, StateOK, Places
<1>6. rm' \in [Procs -> [at : Places \union {"no", "gone"}, todo : SUBSET Members]]
  <2> DEFINE R == [at : Places \union {"no", "gone"}, todo : SUBSET Members]
  <2>1. \A q \in Procs : /\ rm[q] \in R /\ [rm[q] EXCEPT !.at = "gone"] \in R
                         /\ [rm[q] EXCEPT !.at = "dest"] \in R
    BY DEF SoundInv, StateOK, Places
  <2>2. rm \in [Procs -> R]
    BY DEF SoundInv, StateOK
  <2> HIDE DEF R
  <2>3. rm' \in [Procs -> R]
    BY <2>1, <2>2 DEF Rename
  <2> QED
    BY <2>3 DEF R
<1>7. StateOK'
  BY <1>1, <1>2, <1>3, <1>4, <1>5, <1>6 DEF SoundInv, StateOK
<1>8. LoopOK(p)'
  BY <1>2 DEF LoopOK
<1> QED
  BY <1>1, <1>2, <1>7, <1>8, SoundFrame

\* Every step keeps the invariant, overlapping or not.
LEMMA SoundStep == SoundInv /\ [Next]_vars => SoundInv'
<1> SUFFICES ASSUME SoundInv, [Next]_vars PROVE SoundInv'
  OBVIOUS
<1>1. CASE UNCHANGED vars
  BY <1>1 DEF vars, SoundInv, StateOK, LoopOK, OnlySoundInstalled
<1>2. CASE Crash
  <2>1. StateOK'
    BY <1>2 DEF SoundInv, StateOK, Crash, NotRemoving
  <2> QED
    BY <1>2, <2>1 DEF SoundInv, Crash, LoopOK, OnlySoundInstalled
<1>3. ASSUME NEW p \in Procs, Begin(p) \/ Step(p) PROVE SoundInv'
  BY <1>3, SoundMoves, SoundRemove, SoundExtract, SoundRename DEF Step
<1> QED
  BY <1>1, <1>2, <1>3 DEF Next

\* The invariant always holds.
LEMMA SoundAlways == Spec => []SoundInv
  BY SoundInit, SoundStep, PTL DEF Spec

\* However requests overlap in <sha>.unpacking and wherever the process dies, the
\* store installs no archive with a link, a special file or an entry that leaves
\* the root: what Rename moves may be another request's work, but every request
\* unpacks the same archive, and refuses it as a whole.
THEOREM InstalledIsSound == Spec => []OnlySoundInstalled
<1>1. SoundInv => OnlySoundInstalled
  BY DEF SoundInv
<1> QED
  BY SoundAlways, <1>1, PTL

\* The variables keep their types however requests overlap; a request copies the
\* member of an entry that exists.
THEOREM BundleTypeCorrect == Spec => []TypeOK
<1> DEFINE Flag == overlapped \in BOOLEAN
<1>1. Init => Flag
  BY DEF Init
<1>2. Flag /\ [Next]_vars => Flag'
  <2> SUFFICES ASSUME Flag, [Next]_vars PROVE Flag'
    OBVIOUS
  <2>1. overlapped' = overlapped \/ overlapped' = (overlapped \/ Overlap')
    BY Zenon DEF Next, NoteOverlap, vars
  <2>2. (overlapped \/ Overlap') \in BOOLEAN
    BY Zenon
  <2> QED
    BY <2>1, <2>2, Zenon
<1>3. SoundInv /\ Flag => TypeOK
  BY Zenon DEF SoundInv, TypeOK
<1> QED
  BY SoundAlways, <1>1, <1>2, <1>3, PTL DEF Spec
=============================================================================
