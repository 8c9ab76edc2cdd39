--------------------------- MODULE BlossomServer ---------------------------
(***************************************************************************)
(* The local Blossom server (internal/blossomsrv/server.go): authorised    *)
(* uploads into a content-addressed directory with a byte quota, unlocked  *)
(* downloads, a retention sweep when the process starts (startBlossom of   *)
(* main.go), crashes and restarts, and writes that fail half way.          *)
(*                                                                         *)
(* A file is known by its name and by how many of the blob's bytes it      *)
(* holds: WriteFile writes the blob from its first byte to its last, so    *)
(* file b is whole when len[b] = Size[b].  The clock is kept as the set of *)
(* files older than the retention window.                                  *)
(***************************************************************************)
EXTENDS Naturals, FiniteSets

CONSTANTS Blobs,     \* the blobs clients upload, named by their sha256
          Procs,     \* HTTP handlers
          Size,      \* Size[b]: bytes of blob b
          MaxBytes,  \* the largest blob a client has
          Quota,     \* quota_bytes; 0 disables the check
          MaxBlob,   \* max_blob_bytes; 0 means no cap
          Retains,   \* retention_days > 0
          Keys,      \* signing keys
          Allow,     \* allow_pubkeys; {} admits every key
          NoProc     \* the mutex is free

ASSUME BlossomAssumption ==
  /\ IsFiniteSet(Blobs)
  /\ MaxBytes \in Nat
  /\ Size \in [Blobs -> 1..MaxBytes]
  /\ Quota \in Nat
  /\ MaxBlob \in Nat
  /\ Retains \in BOOLEAN
  /\ Allow \subseteq Keys
  /\ NoProc \notin Procs

VARIABLES present,  \* the files in the directory
          len,      \* len[b]: bytes in file b, 0 when there is none
          old,      \* files whose modification time is before the cutoff
          used,     \* Server.used
          lock,     \* the holder of Server.mu, or NoProc
          pc,       \* where a handler is
          req,      \* req[p]: the sha256 that p's request names
          reply,    \* reply[p]: the outcome of p's last request
          failed,   \* a write has failed (for the properties)
          cut,      \* blobs whose last write failed or died (for the properties)
          kept      \* blobs some client may rely on (for the properties)

history == <<failed, cut, kept>>
vars == <<present, len, old, used, lock, pc, req, reply, history>>

\* The bytes of all files, as the set of their <<file, byte>> pairs.
ByteSet(f) == {x \in Blobs \X (1..MaxBytes) : x[2] <= f[x[1]]}
Stored(f) == Cardinality(ByteSet(f))

\* The lengths of the files in S alone.
Only(f, S) == [b \in Blobs |-> IF b \in S THEN f[b] ELSE 0]

----------------------------------------------------------------------------
\* A mutant of Swept: the cutoff is not compared.
SweptAll(files, expired) == IF Retains THEN files ELSE {}

\* The files that Sweep removes.
Swept(files, expired) == IF Retains THEN files \intersect expired ELSE {}

\* A mutant of StartUsed: the sweep gives its bytes back twice.
StartUsedTwice(f, S) == Stored(f) - 2 * Stored(Only(f, S))

\* Server.used after scan charged every file and Sweep discharged those it
\* removed, each with the length the directory showed.
StartUsed(f, S) == Stored(f) - Stored(Only(f, S))

Init == /\ present = {}
        /\ len = [b \in Blobs |-> 0]
        /\ old = {}
        /\ used = 0
        /\ lock = NoProc
        /\ pc = [p \in Procs |-> "idle"]
        /\ req \in [Procs -> Blobs]
        /\ reply = [p \in Procs |-> "none"]
        /\ failed = FALSE /\ cut = {} /\ kept = {}

\* An upload's auth event: its signer, whether kind, id and signature hold, and
\* whether an x tag names the blob; signer = NoProc stands for no event at all.
Auths == [signer : Keys \union {NoProc}, genuine : BOOLEAN, covers : BOOLEAN]

\* authorize: a genuine event, by an admitted key, that covers the digest.
authorize(a) ==
  /\ a.signer # NoProc
  /\ a.genuine
  /\ Allow # {} => a.signer \in Allow
  /\ a.covers

\* The body fits max_blob_bytes.
WithinCap(b) == MaxBlob = 0 \/ Size[b] <= MaxBlob

Reply(p, kind) == /\ pc' = [pc EXCEPT ![p] = "idle"]
                  /\ reply' = [reply EXCEPT ![p] = kind]

\* handleUpload and Put up to the lock: a client sends body under the name sha.
\* Anything wrong is refused; else the handler goes for the lock.
Upload(p) ==
  /\ pc[p] = "idle"
  /\ \E sha \in Blobs, body \in Blobs, a \in Auths :
       /\ req' = [req EXCEPT ![p] = sha]
       /\ IF authorize(a) /\ WithinCap(body) /\ body = sha
          THEN /\ pc' = [pc EXCEPT ![p] = "lock"]
               /\ reply' = [reply EXCEPT ![p] = "none"]
          ELSE Reply(p, "refused")
  /\ UNCHANGED <<present, len, old, used, lock, history>>

\* Put under the lock, the blob is there: nothing is written or charged.  The
\* client may rely on the answer unless the file is what a failed write left.
PutExists(p) ==
  /\ pc[p] = "lock" /\ lock = NoProc
  /\ req[p] \in present
  /\ Reply(p, "stored")
  /\ kept' = kept \union ({req[p]} \ cut)
  /\ UNCHANGED <<present, len, old, used, lock, req, failed, cut>>

\* A mutant of Exceeds: a blob that does not fit by one byte is let in.
ExceedsByMore(b) == Quota > 0 /\ used + Size[b] > Quota + 1

\* The quota check of Put.
Exceeds(b) == Quota > 0 /\ used + Size[b] > Quota

PutRefused(p) ==
  /\ pc[p] = "lock" /\ lock = NoProc
  /\ req[p] \notin present
  /\ Exceeds(req[p])
  /\ Reply(p, "refused")
  /\ UNCHANGED <<present, len, old, used, lock, req, history>>

\* WriteFile creates the file under its final name and has written k bytes.
PutCreate(p) ==
  /\ pc[p] = "lock" /\ lock = NoProc
  /\ req[p] \notin present
  /\ ~ Exceeds(req[p])
  /\ \E k \in 0..(Size[req[p]] - 1) : len' = [len EXCEPT ![req[p]] = k]
  /\ present' = present \union {req[p]}
  /\ lock' = p
  /\ pc' = [pc EXCEPT ![p] = "write"]
  /\ UNCHANGED <<old, used, req, reply, history>>

\* A mutant of PutFinish: the blob is not charged.
PutFinishUncharged(p) ==
  /\ pc[p] = "write"
  /\ len' = [len EXCEPT ![req[p]] = Size[req[p]]]
  /\ lock' = NoProc
  /\ Reply(p, "stored")
  /\ kept' = kept \union {req[p]} /\ cut' = cut \ {req[p]}
  /\ UNCHANGED <<present, old, used, req, failed>>

\* WriteFile returns; the blob is charged and the lock released.
PutFinish(p) ==
  /\ pc[p] = "write"
  /\ len' = [len EXCEPT ![req[p]] = Size[req[p]]]
  /\ used' = used + Size[req[p]]
  /\ lock' = NoProc
  /\ Reply(p, "stored")
  /\ kept' = kept \union {req[p]} /\ cut' = cut \ {req[p]}
  /\ UNCHANGED <<present, old, req, failed>>

\* A mutant of PutWriteError: the blob is charged before it is written.
PutWriteErrorCharged(p) ==
  /\ pc[p] = "write"
  /\ used' = used + Size[req[p]]
  /\ lock' = NoProc
  /\ Reply(p, "refused")
  /\ failed' = TRUE /\ cut' = cut \union {req[p]}
  /\ UNCHANGED <<present, len, old, req, kept>>

\* WriteFile fails half way (disk full, I/O error): Put returns the error and
\* leaves the file as it is.
PutWriteError(p) ==
  /\ pc[p] = "write"
  /\ lock' = NoProc
  /\ Reply(p, "refused")
  /\ failed' = TRUE /\ cut' = cut \union {req[p]}
  /\ UNCHANGED <<present, len, old, used, req, kept>>

\* handleBlob and Get take no lock: a download reads what the file holds now.
Download(p) ==
  /\ pc[p] = "idle"
  /\ \E b \in Blobs :
       /\ req' = [req EXCEPT ![p] = b]
       /\ reply' = [reply EXCEPT ![p] =
                      IF b \notin present THEN "missing"
                      ELSE IF len[b] = Size[b] THEN "whole" ELSE "part"]
       /\ kept' = IF len[b] = Size[b] THEN kept \union {b} ELSE kept
  /\ UNCHANGED <<present, len, old, used, lock, pc, failed, cut>>

\* Time passes: a file becomes older than the retention window.
Age(b) == /\ b \in present \ old
          /\ ~ \E p \in Procs : pc[p] = "write" /\ req[p] = b
          /\ old' = old \union {b}
          /\ UNCHANGED <<present, len, used, lock, pc, req, reply, history>>

\* The process dies at any point; startBlossom then scans the directory into
\* used and sweeps it once.  No client relies on a blob that has outlived the
\* retention window.
Restart ==
  LET S == Swept(present, old)
  IN /\ present' = present \ S
     /\ len' = Only(len, present \ S)
     /\ old' = old \ S
     /\ used' = StartUsed(len, S)
     /\ lock' = NoProc
     /\ pc' = [p \in Procs |-> "idle"]
     /\ reply' = [p \in Procs |-> "none"]
     /\ cut' = IF lock = NoProc THEN cut ELSE cut \union {req[lock]}
     /\ kept' = IF Retains THEN kept \ old ELSE kept
     /\ UNCHANGED <<req, failed>>

Handle(p) == \/ Upload(p) \/ Download(p)
             \/ PutExists(p) \/ PutRefused(p) \/ PutCreate(p) \/ PutFinish(p)
             \/ PutWriteError(p)

Next == \/ \E p \in Procs : Handle(p)
        \/ \E b \in Blobs : Age(b)
        \/ Restart
Spec == Init /\ [][Next]_vars

----------------------------------------------------------------------------
Replies == {"none", "stored", "refused", "whole", "part", "missing"}

TypeOK == /\ present \subseteq Blobs
          /\ len \in [Blobs -> 0..MaxBytes]
          /\ old \subseteq present
          /\ used \in Nat
          /\ lock \in Procs \union {NoProc}
          /\ pc \in [Procs -> {"idle", "lock", "write"}]
          /\ req \in [Procs -> Blobs]
          /\ reply \in [Procs -> Replies]
          /\ failed \in BOOLEAN /\ cut \subseteq Blobs /\ kept \subseteq Blobs

\* Server.mu is held across the write of a file: a handler is writing exactly
\* when it holds the lock, so no two writes overlap.
LockHeldByWriter == \A p \in Procs : pc[p] = "write" <=> lock = p

\* Through crashes and restarts in the middle of a write and sweeps, Used is
\* what the directory holds, but for the file being written (server.go:128), as
\* long as no write has failed.
Accounted == used + (IF lock = NoProc THEN 0 ELSE len[req[lock]]) = Stored(len)
UsedIsStored == ~ failed => Accounted

\* Through crashes and restarts the files never take more than the quota
\* (server.go:62), the one being written included, as long as no write has failed.
WithinQuota == (~ failed /\ Quota > 0) => Stored(len) <= Quota

\* A blob that a client was told is stored, or was sent all of, is there in full
\* from then on: through crashes in the middle of other writes, failing writes,
\* restarts and their sweeps, until the file outlives the retention window.  (The
\* one answer that is not relied on is PutExists' for a file that a failed write
\* left: ExistingIsWhole.)
AcceptedIsWhole == \A b \in kept : len[b] = Size[b]

\* Even when writes fail half way, Used never exceeds what the directory holds,
\* so an upload is never refused for bytes that are not there.
NeverOvercharged == used <= Stored(len)

\* Put's comment: the blob already present has "bytes identical by construction".
ExistingIsWhole ==
  \A p \in Procs : pc[p] = "lock" /\ lock = NoProc /\ req[p] \in present
                      => len[req[p]] = Size[req[p]]
=============================================================================
