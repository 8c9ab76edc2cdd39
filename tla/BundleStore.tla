---------------------------- MODULE BundleStore ----------------------------
(***************************************************************************)
(* The npk bundle store (BundleStore of internal/npk/npk.go) and the       *)
(* requests that fill and read it (serveFromNpk of server.go), for one     *)
(* release.  Unpack works in the directory <sha>.unpacking ("tmp" here),   *)
(* whose name all requests share, and renames it to <sha> ("dest").        *)
(*                                                                         *)
(* Unpack has no lock, so its file operations are separate steps.  A file  *)
(* is "whole" when it holds all bytes of its member; while p writes it, it *)
(* holds p: p was the last to truncate it, and only p's copy will fill it. *)
(***************************************************************************)
EXTENDS Naturals, Sequences

CONSTANTS Procs,     \* goroutines serving requests for the site
          Members,   \* the files archives may contain
          Archives   \* the archives the release may name: sequences of entries

Kinds == {"file", "dir", "other", "link", "escape", "corrupt"}
Entries == [name : Members, kind : Kinds]
Places == {"tmp", "dest"}

ASSUME BundleAssumption ==
  /\ Archives \subseteq Seq(Entries)
  /\ Procs \intersect {"none", "whole"} = {}

VARIABLES archive,  \* the archive whose sha256 the release names
          dir,      \* dir[x]: directory x exists
          file,     \* file[x][m]: member m in directory x: "none", "whole" or a writer
          pc,       \* where a request is
          idx,      \* idx[p]: the next entry p extracts
          fd,       \* fd[p]: where the file p has open is now
          rm,       \* rm[p]: the directory p's RemoveAll is emptying and the names left
          won,      \* won[p]: p's Unpack succeeded
          want,     \* want[p]: the member p serves
          reply,    \* reply[p]: p's answer
          overlapped  \* two requests were in progress at once (for the properties)

vars == <<archive, dir, file, pc, idx, fd, rm, won, want, reply, overlapped>>

NotRemoving == [at |-> "no", todo |-> {}]
NoFiles == [m \in Members |-> "none"]
Inside(x) == {m \in Members : file[x][m] # "none"}

\* The states in which a request is inside Unpack.
Unpacking == {"rmtmp", "mkdir", "extract", "copy", "rmdest", "rename", "cleanup"}

Init == /\ archive \in Archives
        /\ dir = [x \in Places |-> FALSE]
        /\ file = [x \in Places |-> NoFiles]
        /\ pc = [p \in Procs |-> "idle"]
        /\ idx = [p \in Procs |-> 1]
        /\ fd = [p \in Procs |-> "closed"]
        /\ rm = [p \in Procs |-> NotRemoving]
        /\ won = [p \in Procs |-> FALSE]
        /\ want \in [Procs -> Members]
        /\ reply = [p \in Procs |-> "none"]
        /\ overlapped = FALSE

Goto(p, l) == pc' = [pc EXCEPT ![p] = l]

\* serveFromNpk with a release: the request needs one member of the bundle.
Begin(p) == /\ pc[p] = "idle"
            /\ Goto(p, "has")
            /\ \E m \in Members : want' = [want EXCEPT ![p] = m]
            /\ reply' = [reply EXCEPT ![p] = "none"]
            /\ UNCHANGED <<archive, dir, file, idx, fd, rm, won>>

\* BundleStore.Has: the directory exists.
CheckHas(p) == /\ pc[p] = "has"
               /\ Goto(p, IF dir["dest"] THEN "open" ELSE "fetch")
               /\ UNCHANGED <<archive, dir, file, idx, fd, rm, won, want, reply>>

\* The request is answered per path from Blossom instead (serveFromNpk returns
\* false), with "blossom" as its answer here.
GiveUp(p) == /\ Goto(p, "idle")
             /\ reply' = [reply EXCEPT ![p] = "blossom"]

\* The archive is fetched and its digest checked, by Fetch and again by Unpack,
\* or it is not to be had.
FetchArchive(p) == /\ pc[p] = "fetch"
                   /\ \/ Goto(p, "rmtmp") /\ UNCHANGED reply
                      \/ GiveUp(p)
                   /\ UNCHANGED <<archive, dir, file, idx, fd, rm, won, want>>

\* os.RemoveAll(x) opens the directory and reads its names ...
RemoveScan(p, x) ==
  /\ dir[x] /\ rm[p].at = "no"
  /\ rm' = [rm EXCEPT ![p] = [at |-> x, todo |-> Inside(x)]]
  /\ UNCHANGED <<archive, dir, file, pc, idx, fd, won, want, reply>>

\* ... unlinks each of them in the directory it opened, wherever that is now
\* (who has the file open keeps it) ...
RemoveOne(p) ==
  LET x == rm[p].at
  IN \E m \in rm[p].todo :
       /\ rm' = [rm EXCEPT ![p].todo = @ \ {m}]
       /\ file' = IF x \in Places THEN [file EXCEPT ![x][m] = "none"] ELSE file
       /\ fd' = [q \in Procs |->
                   IF fd[q] = x /\ pc[q] = "copy" /\ archive[idx[q]].name = m
                   THEN "gone" ELSE fd[q]]
       /\ UNCHANGED <<archive, dir, pc, idx, won, want, reply>>

\* ... and removes the directory by its name, which fails if there are files in
\* it again.
RemoveReady(p, x) == IF rm[p].at = "no" THEN ~ dir[x] ELSE rm[p].todo = {}
RemoveFails(x) == dir[x] /\ Inside(x) # {}
RemoveEnd(p, x) ==
  /\ RemoveReady(p, x)
  /\ dir' = IF RemoveFails(x) THEN dir ELSE [dir EXCEPT ![x] = FALSE]
  /\ rm' = [q \in Procs |-> IF q = p THEN NotRemoving
                            ELSE IF rm[q].at = x /\ ~ RemoveFails(x)
                            THEN [rm[q] EXCEPT !.at = "gone"] ELSE rm[q]]
  /\ UNCHANGED <<archive, file, idx, fd, won, want>>

RemoveTmp(p) ==
  /\ pc[p] = "rmtmp"
  /\ \/ RemoveScan(p, "tmp")
     \/ RemoveOne(p)
     \/ /\ RemoveEnd(p, "tmp")
        /\ IF RemoveFails("tmp") THEN GiveUp(p) ELSE Goto(p, "mkdir") /\ UNCHANGED reply

\* os.MkdirAll(tmp); from here on RemoveAll(tmp) is deferred.
MkdirTmp(p) == /\ pc[p] = "mkdir"
               /\ dir' = [dir EXCEPT !["tmp"] = TRUE]
               /\ idx' = [idx EXCEPT ![p] = 1]
               /\ won' = [won EXCEPT ![p] = FALSE]
               /\ Goto(p, "extract")
               /\ UNCHANGED <<archive, file, fd, rm, want, reply>>

\* A mutant of Refused: links and special files are skipped.
RefusedButLinks == {"escape", "corrupt"}

\* The entries that make extractTar fail: links and special files, names that
\* leave the root, and a stream that does not decode.
Refused == {"link", "escape", "corrupt"}

\* extractTar reaches a regular file: its directories are made (tmp too, if it
\* has gone), and it is created, or truncated if it is there.
OpenMember(p) ==
  /\ pc[p] = "extract" /\ idx[p] <= Len(archive)
  /\ archive[idx[p]].kind = "file"
  /\ dir' = [dir EXCEPT !["tmp"] = TRUE]
  /\ file' = [file EXCEPT !["tmp"][archive[idx[p]].name] = p]
  /\ fd' = [fd EXCEPT ![p] = "tmp"]
  /\ Goto(p, "copy")
  /\ UNCHANGED <<archive, idx, rm, won, want, reply>>

\* A mutant of CopyMember: the loop stays at the entry.
CopyMemberAgain(p) ==
  /\ pc[p] = "copy"
  /\ fd' = [fd EXCEPT ![p] = "closed"]
  /\ Goto(p, "extract")
  /\ UNCHANGED <<archive, dir, file, idx, rm, won, want, reply>>

\* A mutant of CopyMember: the loop goes on before the file is written.
CopyMemberLate(p) ==
  /\ pc[p] = "copy"
  /\ fd' = [fd EXCEPT ![p] = "closed"]
  /\ idx' = [idx EXCEPT ![p] = @ + 1]
  /\ Goto(p, "extract")
  /\ UNCHANGED <<archive, dir, file, rm, won, want, reply>>

\* io.Copy and Close.  The bytes go to the file p opened, wherever it is now;
\* they make it whole unless somebody truncated it since.
CopyMember(p) ==
  LET x == fd[p]
      m == archive[idx[p]].name
  IN /\ pc[p] = "copy"
     /\ file' = IF x \in Places /\ file[x][m] = p
                THEN [file EXCEPT ![x][m] = "whole"] ELSE file
     /\ fd' = [fd EXCEPT ![p] = "closed"]
     /\ idx' = [idx EXCEPT ![p] = @ + 1]
     /\ Goto(p, "extract")
     /\ UNCHANGED <<archive, dir, rm, won, want, reply>>

\* The copy fails (disk full, I/O error): the half-written file stays in tmp.
CopyError(p) ==
  /\ pc[p] = "copy"
  /\ fd' = [fd EXCEPT ![p] = "closed"]
  /\ Goto(p, "cleanup")
  /\ UNCHANGED <<archive, dir, file, idx, rm, won, want, reply>>

\* A directory entry makes tmp if it has gone; other entries are skipped.
SkipEntry(p) ==
  /\ pc[p] = "extract" /\ idx[p] <= Len(archive)
  /\ archive[idx[p]].kind \notin Refused \union {"file"}
  /\ dir' = IF archive[idx[p]].kind = "dir" THEN [dir EXCEPT !["tmp"] = TRUE] ELSE dir
  /\ idx' = [idx EXCEPT ![p] = @ + 1]
  /\ UNCHANGED <<archive, file, pc, fd, rm, won, want, reply>>

RefuseEntry(p) ==
  /\ pc[p] = "extract" /\ idx[p] <= Len(archive)
  /\ archive[idx[p]].kind \in Refused
  /\ Goto(p, "cleanup")
  /\ UNCHANGED <<archive, dir, file, idx, fd, rm, won, want, reply>>

ExtractDone(p) ==
  /\ pc[p] = "extract" /\ idx[p] > Len(archive)
  /\ Goto(p, "rmdest")
  /\ UNCHANGED <<archive, dir, file, idx, fd, rm, won, want, reply>>

\* os.RemoveAll(dest): a bundle another request installed meanwhile goes.
RemoveDest(p) ==
  /\ pc[p] = "rmdest"
  /\ \/ RemoveScan(p, "dest")
     \/ RemoveOne(p)
     \/ /\ RemoveEnd(p, "dest")
        /\ Goto(p, IF RemoveFails("dest") THEN "cleanup" ELSE "rename")
        /\ UNCHANGED reply

\* os.Rename(tmp, dest): fails if tmp has gone or dest has files again.  What
\* others have open in tmp is now in dest.
Rename(p) ==
  /\ pc[p] = "rename"
  /\ IF dir["tmp"] /\ Inside("dest") = {}
     THEN /\ dir' = [dir EXCEPT !["tmp"] = FALSE, !["dest"] = TRUE]
          /\ file' = [file EXCEPT !["tmp"] = NoFiles, !["dest"] = file["tmp"]]
          /\ fd' = [q \in Procs |-> IF fd[q] = "tmp" THEN "dest" ELSE fd[q]]
          /\ rm' = [q \in Procs |->
                      IF rm[q].at = "tmp" THEN [rm[q] EXCEPT !.at = "dest"]
                      ELSE IF rm[q].at = "dest" THEN [rm[q] EXCEPT !.at = "gone"]
                      ELSE rm[q]]
          /\ won' = [won EXCEPT ![p] = TRUE]
     ELSE UNCHANGED <<dir, file, fd, rm, won>>
  /\ Goto(p, "cleanup")
  /\ UNCHANGED <<archive, idx, want, reply>>

\* The deferred os.RemoveAll(tmp), whoever made what is in it; its error is
\* ignored.  Then the member is opened, or the request goes to Blossom.
Cleanup(p) ==
  /\ pc[p] = "cleanup"
  /\ \/ RemoveScan(p, "tmp")
     \/ RemoveOne(p)
     \/ /\ RemoveEnd(p, "tmp")
        /\ IF won[p] THEN Goto(p, "open") /\ UNCHANGED reply ELSE GiveUp(p)

\* BundleStore.Open and the answer: what the file holds, or a 404.
OpenFile(p) ==
  LET f == file["dest"][want[p]]
  IN /\ pc[p] = "open"
     /\ Goto(p, "idle")
     /\ reply' = [reply EXCEPT ![p] =
                    IF ~ dir["dest"] \/ f = "none" THEN "404"
                    ELSE IF f = "whole" THEN "whole" ELSE "torn"]
     /\ UNCHANGED <<archive, dir, file, idx, fd, rm, won, want>>

\* The process dies and is started again; the directories stay as they are.
Crash == /\ pc' = [p \in Procs |-> "idle"]
         /\ idx' = [p \in Procs |-> 1]
         /\ fd' = [p \in Procs |-> "closed"]
         /\ rm' = [p \in Procs |-> NotRemoving]
         /\ won' = [p \in Procs |-> FALSE]
         /\ reply' = [p \in Procs |-> "none"]
         /\ UNCHANGED <<archive, dir, file, want>>

Step(p) == \/ CheckHas(p) \/ FetchArchive(p) \/ RemoveTmp(p) \/ MkdirTmp(p)
           \/ OpenMember(p) \/ CopyMember(p) \/ CopyError(p) \/ SkipEntry(p)
           \/ RefuseEntry(p) \/ ExtractDone(p) \/ RemoveDest(p) \/ Rename(p)
           \/ Cleanup(p) \/ OpenFile(p)

Overlap == \E p, q \in Procs : p # q /\ pc[p] # "idle" /\ pc[q] # "idle"
NoteOverlap == overlapped' = (overlapped \/ Overlap')

Next == /\ (\E p \in Procs : Begin(p) \/ Step(p)) \/ Crash
        /\ NoteOverlap
Spec == Init /\ [][Next]_vars

\* Every request that can take a step takes it.
FairSpec == Spec /\ \A p \in Procs : WF_vars(Step(p) /\ NoteOverlap)

----------------------------------------------------------------------------
StateOK ==
  /\ archive \in Archives
  /\ dir \in [Places -> BOOLEAN]
  /\ file \in [Places -> [Members -> Procs \union {"none", "whole"}]]
  /\ pc \in [Procs -> {"idle", "has", "fetch", "open"} \union Unpacking]
  /\ idx \in [Procs -> Nat \ {0}]
  /\ fd \in [Procs -> Places \union {"closed", "gone"}]
  /\ rm \in [Procs -> [at : Places \union {"no", "gone"}, todo : SUBSET Members]]
  /\ won \in [Procs -> BOOLEAN]
  /\ want \in [Procs -> Members]
  /\ reply \in [Procs -> {"none", "blossom", "404", "whole", "torn"}]

TypeOK == StateOK /\ overlapped \in BOOLEAN

\* The files of the archive, and whether extractTar accepts it.
FilesOf(a) == {a[i].name : i \in {j \in 1..Len(a) : a[j].kind = "file"}}
Sound(a) == \A i \in 1..Len(a) : a[i].kind \notin {"link", "escape", "corrupt"}

\* As long as requests come one at a time, an installed bundle is complete and
\* comes from an archive without forbidden entries, wherever the process died
\* before (npk.go:175-177).
Complete == dir["dest"] => /\ Sound(archive)
                           /\ \A m \in FilesOf(archive) : file["dest"][m] = "whole"
BundleComplete == ~ overlapped => Complete

\* No overlap of requests and no crash installs an archive that has a link, a
\* special file or an entry that leaves the root.
OnlySoundInstalled == dir["dest"] => Sound(archive)

\* Overlapping requests that remove each other's directories all come to an end.
EveryRequestEnds == \A p \in Procs : pc[p] = "has" ~> pc[p] = "idle"
=============================================================================
