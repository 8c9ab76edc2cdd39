----------------------------- MODULE BlobStore -----------------------------
(***************************************************************************)
(* The content-addressed blob cache (internal/cache/cache.go) with the     *)
(* requests that use it (serveBlob and serveCached of server.go) and the   *)
(* process events that create it: start, crash and restart, and the SIGHUP *)
(* reload that opens a SECOND store over the same directory while requests *)
(* in flight keep the first (applyBackends of main.go).                    *)
(*                                                                         *)
(* A blob is named by its sha256, so the bytes a file or a response holds  *)
(* are identified by the blob they hash to.  Time is kept only as an order *)
(* of last uses.  A file keeps no bytes but its identity; its length is    *)
(* Size[b].                                                                *)
(***************************************************************************)
EXTENDS Naturals, FiniteSets

CONSTANTS Blobs,           \* the blobs sites refer to
          Procs,           \* goroutines serving requests
          Size,            \* Size[b]: bytes of blob b
          MaxBytes,        \* the largest blob
          Quotas,          \* values of limits.cache_quota_bytes
          MaxGen,          \* bound: stores opened by one process (1 + reloads)
          MaxOrphanBytes,  \* bound: bytes of temporary files left by crashes
          MaxUsed,         \* bound: bytes a store has charged
          Stubborn,        \* blobs whose file the system may refuse to remove
          NoFile,          \* no such file; as a response, 404
          Torn             \* bytes that hash to no blob: a partly written file

ASSUME BlobStoreAssumption ==
  /\ IsFiniteSet(Blobs)
  /\ IsFiniteSet(Procs)
  /\ MaxBytes \in Nat
  /\ Size \in [Blobs -> 1..MaxBytes]
  /\ Quotas \subseteq Nat
  /\ MaxGen \in Nat \ {0}
  /\ MaxOrphanBytes \in Nat
  /\ MaxUsed \in Nat
  /\ Stubborn \subseteq Blobs
  /\ NoFile \notin Blobs
  /\ Torn \notin Blobs
  /\ NoFile # Torn

VARIABLES disk,         \* disk[b]: what the file named b holds, or NoFile
          orphanBytes,  \* bytes in .tmp-* files that no process will remove
          stores,       \* stores[g]: the in-memory state of the g-th BlobStore
          gen,          \* the store new requests are given (s.be.Blobs)
          pc,           \* where a request is
          req,          \* req[p]: the sha256 that p serves
          be,           \* be[p]: the store p took when it began
          body,         \* body[p]: the bytes p holds; at idle, the bytes it served
          broken        \* history: requests whose read of a cached file failed

vars == <<disk, orphanBytes, stores, gen, pc, req, be, body, broken>>

Gens == 1..MaxGen

Files(d) == {b \in Blobs : d[b] # NoFile}

\* The bytes of a set of blobs, as the set of its <<blob, byte>> pairs.
ByteSet(S) == {x \in Blobs \X (1..MaxBytes) : x[1] \in S /\ x[2] <= Size[x[1]]}

\* The sum of the sizes of the blobs in S.
Bytes(S) == Cardinality(ByteSet(S))

----------------------------------------------------------------------------
(* The store's state: sizes and lastUse by their key sets, the order of    *)
(* lastUse as a relation (<<x, y>>: x was used before y), used and quota,   *)
(* and, while Put makes room, the blobs it could not remove.               *)

\* NewBlobStore and scan: index every blob file.  Its last use is the file's
\* modification time, which orders the blobs in a way the model leaves open.
\* Temporary files are skipped (their names are not 64 characters long), and
\* nothing is evicted even if the quota has shrunk.
NewStore(files, q) ==
  [sizes |-> files, uses |-> files, older |-> {}, used |-> Bytes(files), quota |-> q,
   vain |-> {}]

\* A store that was never opened.
NoStore == [sizes |-> {}, uses |-> {}, older |-> {}, used |-> 0, quota |-> 0, vain |-> {}]

\* lastUse[b] = time.Now().
Touch(st, b) ==
  [st EXCEPT !.uses = @ \union {b},
             !.older = {r \in @ : r[1] # b} \union ((st.uses \ {b}) \X {b})]

\* BlobStore.Has, under the lock.
Has(st, b) == b \in st.sizes

\* The index update of Put: the size is recorded and charged, whether or not
\* the blob was already charged.
Charge(st, b) ==
  [Touch(st, b) EXCEPT !.sizes = @ \union {b}, !.used = @ + Size[b]]

\* A mutant of Oldest: the eviction order is reversed.
OldestIsNewest(st) ==
  {b \in st.uses \ st.vain : \A y \in st.uses \ st.vain : <<b, y>> \notin st.older}

\* The blob that comes next in evictLocked's sort by lastUse (one of several, if
\* the model leaves their order open).
Oldest(st) ==
  {b \in st.uses \ st.vain : \A y \in st.uses \ st.vain : <<y, b>> \notin st.older}

\* A mutant of Evicted: a removed blob is discharged twice.
EvictedTwice(st, b) ==
  [st EXCEPT !.sizes = @ \ {b},
             !.uses = @ \ {b},
             !.older = {r \in @ : r[1] # b /\ r[2] # b},
             !.used = @ - 2 * Bytes({b} \intersect st.sizes)]

\* The index after the file of b was removed: b is discharged if it was charged.
Evicted(st, b) ==
  [st EXCEPT !.sizes = @ \ {b},
             !.uses = @ \ {b},
             !.older = {r \in @ : r[1] # b /\ r[2] # b},
             !.used = @ - Bytes({b} \intersect st.sizes)]

----------------------------------------------------------------------------
(* Requests.                                                               *)

Init == /\ disk = [b \in Blobs |-> NoFile]
        /\ orphanBytes = 0
        /\ \E q \in Quotas :
             stores = [g \in Gens |-> IF g = 1 THEN NewStore({}, q) ELSE NoStore]
        /\ gen = 1
        /\ pc = [p \in Procs |-> "idle"]
        /\ req \in [Procs -> Blobs]
        /\ be = [p \in Procs |-> 1]
        /\ body = [p \in Procs |-> NoFile]
        /\ broken = {}

\* Put holds the lock of its store from the rename until it has made room.
Locked(g) == \E p \in Procs : pc[p] = "evict" /\ be[p] = g

\* serveSite takes the backends of the moment; the manifest names a blob.
Begin(p) == /\ pc[p] = "idle"
            /\ pc' = [pc EXCEPT ![p] = "has"]
            /\ \E b \in Blobs : req' = [req EXCEPT ![p] = b]
            /\ be' = [be EXCEPT ![p] = gen]
            /\ body' = [body EXCEPT ![p] = NoFile]
            /\ broken' = broken \ {p}
            /\ UNCHANGED <<disk, orphanBytes, stores, gen>>

\* serveBytes (or http.NotFound): the response is b and the request is over.
Reply(p, b) == /\ pc' = [pc EXCEPT ![p] = "idle"]
               /\ body' = [body EXCEPT ![p] = b]

\* serveBlob asks Has; the lock is released before serveCached takes it again.
CheckHas(p) ==
  /\ pc[p] = "has"
  /\ ~ Locked(be[p])
  /\ pc' = [pc EXCEPT ![p] = IF Has(stores[be[p]], req[p]) THEN "open" ELSE "fetch"]
  /\ UNCHANGED <<disk, orphanBytes, stores, gen, req, be, body, broken>>

\* serveCached: Open fails when the file has gone, and the answer is a 404.  The
\* open file keeps its bytes whatever happens to its name, but the read may fail
\* in the middle: its error is ignored and what was read goes out as the blob.
OpenCached(p) ==
  /\ pc[p] = "open"
  /\ ~ Locked(be[p])
  /\ \/ /\ disk[req[p]] = NoFile
        /\ Reply(p, NoFile)
        /\ UNCHANGED <<stores, broken>>
     \/ /\ disk[req[p]] # NoFile
        /\ stores' = [stores EXCEPT ![be[p]] = Touch(@, req[p])]
        /\ \/ Reply(p, disk[req[p]]) /\ UNCHANGED broken
           \/ Reply(p, Torn) /\ broken' = broken \union {p}
  /\ UNCHANGED <<disk, orphanBytes, gen, req, be>>

\* A mutant of Verified: the digest is not compared.
VerifiedNot(sha, b) == b # NoFile

\* Fetch compares the sha256 of the received bytes with the one asked for.
Verified(sha, b) == b = sha

\* fetchFirst: some server answers with the bytes of a blob, right or wrong, or
\* none answers (also when no server is known).  Failure is a 404.
FetchBody(p) ==
  /\ pc[p] = "fetch"
  /\ \E b \in Blobs \union {NoFile} :
       IF Verified(req[p], b)
       THEN /\ pc' = [pc EXCEPT ![p] = "put"]
            /\ body' = [body EXCEPT ![p] = b]
       ELSE Reply(p, NoFile)
  /\ UNCHANGED <<disk, orphanBytes, stores, gen, req, be, broken>>

\* A mutant of PutTemp: the bytes go straight to the blob's own name.
PutTempInPlace(p) ==
  /\ pc[p] = "put"
  /\ body[p] = req[p]
  /\ pc' = [pc EXCEPT ![p] = "commit"]
  /\ disk' = [disk EXCEPT ![req[p]] = Torn]
  /\ UNCHANGED <<orphanBytes, stores, gen, req, be, body, broken>>

\* Put up to the lock: the bytes are copied to a temporary file, their digest
\* is compared with the name, the file is synced and closed.
PutTemp(p) ==
  /\ pc[p] = "put"
  /\ body[p] = req[p]
  /\ pc' = [pc EXCEPT ![p] = "commit"]
  /\ UNCHANGED <<disk, orphanBytes, stores, gen, req, be, body, broken>>

\* Put fails (temporary file, copy, sync, close, rename): its deferred Remove
\* deletes the temporary file, serveBlob ignores the error and serves the bytes.
PutError(p) ==
  /\ pc[p] \in {"put", "commit"}
  /\ Reply(p, body[p])
  /\ UNCHANGED <<disk, orphanBytes, stores, gen, req, be, broken>>

\* A mutant of PutRename: the rename is followed by no index update.
PutRenameUncharged(p) ==
  /\ pc[p] = "commit"
  /\ ~ Locked(be[p])
  /\ stores[be[p]].used + Size[req[p]] <= MaxUsed
  /\ disk' = [disk EXCEPT ![req[p]] = body[p]]
  /\ pc' = [pc EXCEPT ![p] = "evict"]
  /\ UNCHANGED <<orphanBytes, stores, gen, req, be, body, broken>>

\* Put takes the lock, renames the temporary file and indexes the blob.
PutRename(p) ==
  /\ pc[p] = "commit"
  /\ ~ Locked(be[p])
  /\ stores[be[p]].used + Size[req[p]] <= MaxUsed
  /\ disk' = [disk EXCEPT ![req[p]] = body[p]]
  /\ stores' = [stores EXCEPT ![be[p]] = Charge(@, req[p])]
  /\ pc' = [pc EXCEPT ![p] = "evict"]
  /\ UNCHANGED <<orphanBytes, gen, req, be, body, broken>>

\* evictLocked removes the file that comes next and takes it off the index.
EvictOne(p) ==
  LET st == stores[be[p]]
  IN /\ pc[p] = "evict"
     /\ st.used > st.quota
     /\ \E b \in Oldest(st) :
          /\ disk[b] # NoFile
          /\ disk' = [disk EXCEPT ![b] = NoFile]
          /\ stores' = [stores EXCEPT ![be[p]] = Evicted(st, b)]
     /\ UNCHANGED <<orphanBytes, gen, pc, req, be, body, broken>>

\* Its Remove fails (another store has removed the file, or an I/O error): the
\* blob stays indexed and charged, and the loop goes on.
EvictFails(p) ==
  LET st == stores[be[p]]
  IN /\ pc[p] = "evict"
     /\ st.used > st.quota
     /\ \E b \in Oldest(st) :
          /\ disk[b] = NoFile \/ b \in Stubborn
          /\ stores' = [stores EXCEPT ![be[p]] = [st EXCEPT !.vain = @ \union {b}]]
     /\ UNCHANGED <<disk, orphanBytes, gen, pc, req, be, body, broken>>

\* A mutant of EvictDone: the loop ends before there is room.
EvictDoneEarly(p) ==
  /\ pc[p] = "evict"
  /\ Reply(p, body[p])
  /\ stores' = [stores EXCEPT ![be[p]].vain = {}]
  /\ UNCHANGED <<disk, orphanBytes, gen, req, be, broken>>

\* The loop ends once the charge fits the quota or every blob was tried; Put
\* unlocks and returns, and serveBlob serves the bytes.
EvictDone(p) ==
  LET st == stores[be[p]]
  IN /\ pc[p] = "evict"
     /\ st.used <= st.quota \/ st.uses \subseteq st.vain
     /\ Reply(p, body[p])
     /\ stores' = [stores EXCEPT ![be[p]].vain = {}]
     /\ UNCHANGED <<disk, orphanBytes, gen, req, be, broken>>

----------------------------------------------------------------------------
(* The process.                                                            *)

\* The bytes in temporary files that a crash would leave behind.
TempBytes ==
  Cardinality({x \in Procs \X (1..MaxBytes) :
                 pc[x[1]] = "commit" /\ x[2] <= Size[req[x[1]]]})

\* The process dies at any point and is started again, perhaps with another
\* quota.  Requests are gone; the files stay, temporary ones included, and so do
\* the files that an eviction had still to remove.
Crash ==
  /\ orphanBytes + TempBytes <= MaxOrphanBytes
  /\ orphanBytes' = orphanBytes + TempBytes
  /\ \E q \in Quotas :
       stores' = [g \in Gens |-> IF g = 1 THEN NewStore(Files(disk), q) ELSE NoStore]
  /\ gen' = 1
  /\ pc' = [p \in Procs |-> "idle"]
  /\ be' = [p \in Procs |-> 1]
  /\ body' = [p \in Procs |-> NoFile]
  /\ broken' = {}
  /\ UNCHANGED <<disk, req>>

\* SIGHUP: applyBackends opens a new store over the same directory and gives it
\* to new requests.  Requests in flight keep the store they began with.
Reload ==
  /\ gen < MaxGen
  /\ gen' = gen + 1
  /\ \E q \in Quotas : stores' = [stores EXCEPT ![gen + 1] = NewStore(Files(disk), q)]
  /\ UNCHANGED <<disk, orphanBytes, pc, req, be, body, broken>>

Serve(p) == \/ Begin(p)
            \/ CheckHas(p)
            \/ OpenCached(p)
            \/ FetchBody(p)
            \/ PutTemp(p)
            \/ PutError(p)
            \/ PutRename(p)
            \/ EvictOne(p)
            \/ EvictFails(p)
            \/ EvictDone(p)

\* A process that is never sent SIGHUP: it serves, dies and is restarted.
SteadyNext == (\E p \in Procs : Serve(p)) \/ Crash

\* The same with reloads.
Next == SteadyNext \/ Reload
Spec == Init /\ [][Next]_vars

----------------------------------------------------------------------------
(* Properties.                                                             *)

Store == [sizes : SUBSET Blobs, uses : SUBSET Blobs, older : SUBSET (Blobs \X Blobs),
          used : Nat, quota : Nat, vain : SUBSET Blobs]

TypeOK ==
  /\ disk \in [Blobs -> Blobs \union {NoFile, Torn}]
  /\ orphanBytes \in Nat
  /\ stores \in [Gens -> Store]
  /\ gen \in Gens
  /\ pc \in [Procs -> {"idle", "has", "open", "fetch", "put", "commit", "evict"}]
  /\ req \in [Procs -> Blobs]
  /\ be \in [Procs -> Gens]
  /\ body \in [Procs -> Blobs \union {NoFile, Torn}]
  /\ broken \subseteq Procs

\* No crash, eviction, reload or overlap of two Puts ever leaves under a
\* blob's name a file whose bytes hash to something else (cache.go:18-21).
DiskVerified == \A b \in Blobs : disk[b] \in {NoFile, b}

\* A request is answered with the bytes its manifest names or with a 404, whatever
\* the servers send and whoever else writes or evicts (server.go:332), with one
\* exception that the code has: serveCached ignores the error of its read
\* (server.go:473), and a request whose read failed is sent a part of the blob.
ServedVerified ==
  \A p \in Procs : pc[p] = "idle" =>
     \/ body[p] \in {NoFile, req[p]}
     \/ p \in broken /\ body[p] = Torn

\* Until a process is sent SIGHUP, its index and the directory agree between any
\* two steps, so Has never promises a blob that Open cannot find for good.
IndexIsDisk == gen = 1 => stores[gen].sizes = Files(disk) /\ stores[gen].uses = Files(disk)

\* p's eviction removes the file of b.
Evicts(p, b) == /\ pc[p] = "evict" /\ stores'[be[p]] # stores[be[p]]
                /\ disk[b] # NoFile /\ disk'[b] = NoFile

\* Eviction takes the least recently used blobs of the store, one at a time: when
\* a file goes, no blob of the index that was used before it has a file left,
\* except one that this Put failed to remove; and the blob that the Put has just
\* stored goes after all others.
EvictsLeastRecent ==
  [][\A p \in Procs, b \in Blobs : Evicts(p, b) =>
       LET st   == stores[be[p]]
           left == {y \in st.uses \ st.vain : y # b /\ disk[y] # NoFile}
       IN /\ \A y \in left : <<y, b>> \notin st.older
          /\ b = req[p] => left = {}]_vars

\* What the store promises, with the files on disk as the held blobs.
Promise == INSTANCE VerifiedCache WITH
             Nothing <- NoFile,
             Cut     <- Torn,
             held    <- Files(disk),
             limit   <- stores[gen].quota,
             stuck   <- stores[gen].vain,
             shared  <- gen > 1,
             busy    <- {p \in Procs : pc[p] # "idle"},
             storing <- {p \in Procs : pc[p] = "evict"},
             want    <- req,
             got     <- [p \in Procs |-> IF pc[p] = "idle" THEN body[p] ELSE NoFile]

\* The blob cache implements VerifiedCache, reloads and restarts included.
ImplementsVerifiedCache == Promise!CacheSpec
=============================================================================
