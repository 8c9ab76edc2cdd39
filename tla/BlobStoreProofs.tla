-------------------------- MODULE BlobStoreProofs --------------------------
(***************************************************************************)
(* Proofs about BlobStore, for any blobs, requests, quotas and number of   *)
(* reloads.  First the arithmetic of Bytes, then what holds with reloads   *)
(* (verified bytes only, the order of eviction), then what holds until a   *)
(* process is reloaded (the index and its charge), then the promise of     *)
(* VerifiedCache.                                                          *)
(***************************************************************************)
EXTENDS BlobStore, FiniteSetTheorems, TLAPS

\* The byte sets are finite, so Bytes is a number.
LEMMA BytesNat == \A S : IsFiniteSet(ByteSet(S)) /\ Bytes(S) \in Nat
<1> TAKE S
<1>1. IsFiniteSet(Blobs) /\ IsFiniteSet(1..MaxBytes)
  BY FS_Interval, BlobStoreAssumption
<1>2. IsFiniteSet(Blobs \X (1..MaxBytes))
  BY <1>1, FS_Product
<1>3. ByteSet(S) \subseteq Blobs \X (1..MaxBytes)
  BY DEF ByteSet
<1> QED
  BY <1>2, <1>3, FS_Subset, FS_CardinalityType DEF Bytes

\* More blobs take at least as many bytes.
LEMMA BytesMonotone == ASSUME NEW S, NEW T, S \subseteq T
                       PROVE  Bytes(S) <= Bytes(T)
<1>1. ByteSet(S) \subseteq ByteSet(T)
  BY DEF ByteSet
<1> QED
  BY <1>1, BytesNat, FS_Subset DEF Bytes

\* Bytes adds up over disjoint sets of blobs.
LEMMA BytesDisjoint == ASSUME NEW S, NEW T, S \intersect T = {}
                       PROVE  Bytes(S \union T) = Bytes(S) + Bytes(T)
<1>1. ByteSet(S \union T) = ByteSet(S) \union ByteSet(T)
  BY DEF ByteSet
<1>2. ByteSet(S) \intersect ByteSet(T) = {}
  BY DEF ByteSet
<1>3. Cardinality(ByteSet(S) \union ByteSet(T))
        = Cardinality(ByteSet(S)) + Cardinality(ByteSet(T))
               - Cardinality(ByteSet(S) \intersect ByteSet(T))
  BY BytesNat, FS_Union
<1>4. Cardinality(ByteSet(S) \intersect ByteSet(T)) = 0
  BY <1>2, FS_EmptySet
<1>5. /\ Bytes(S \union T) = Cardinality(ByteSet(S) \union ByteSet(T))
      /\ Bytes(S) = Cardinality(ByteSet(S))
      /\ Bytes(T) = Cardinality(ByteSet(T))
  BY <1>1, Zenon DEF Bytes
<1>6. Bytes(S) \in Nat /\ Bytes(T) \in Nat
  BY BytesNat
<1> QED
  BY <1>3, <1>4, <1>5, <1>6

\* One blob takes its own size.
LEMMA BytesSingle == ASSUME NEW b \in Blobs PROVE Bytes({b}) = Size[b]
<1>1. Size[b] \in 1..MaxBytes /\ MaxBytes \in Nat
  BY BlobStoreAssumption
<1>2. ByteSet({b}) = {b} \X (1..Size[b])
  BY <1>1 DEF ByteSet
<1>3. IsFiniteSet({b}) /\ Cardinality({b}) = 1
  BY FS_Singleton
<1>4. IsFiniteSet(1..Size[b]) /\ Cardinality(1..Size[b]) = Size[b]
  BY <1>1, FS_Interval
<1>5. Cardinality({b} \X (1..Size[b])) = Cardinality({b}) * Cardinality(1..Size[b])
  BY <1>3, <1>4, FS_Product
<1>6. Bytes({b}) = Cardinality({b} \X (1..Size[b]))
  BY <1>2, Zenon DEF Bytes
<1> QED
  BY <1>1, <1>3, <1>4, <1>5, <1>6

\* Taking away a part takes away its bytes.
LEMMA BytesMinus == ASSUME NEW S, NEW E, E \subseteq S
                    PROVE  Bytes(S \ E) = Bytes(S) - Bytes(E)
<1>1. Bytes((S \ E) \union E) = Bytes(S \ E) + Bytes(E)
  BY BytesDisjoint
<1>2. (S \ E) \union E = S
  OBVIOUS
<1>3. Bytes(S) = Bytes(S \ E) + Bytes(E)
  BY <1>1, <1>2, Zenon
<1>4. Bytes(S \ E) \in Nat /\ Bytes(E) \in Nat
  BY BytesNat, Zenon
<1> QED
  BY <1>3, <1>4

\* Adding a blob adds at most its size.
LEMMA BytesAdd == ASSUME NEW S, NEW b \in Blobs
                  PROVE  /\ Bytes(S \union {b}) <= Bytes(S) + Size[b]
                         /\ Size[b] <= Bytes(S \union {b})
<1>1. Bytes(S \union {b}) = Bytes(S \ {b}) + Bytes({b})
  <2>1. (S \ {b}) \union {b} = S \union {b}
    OBVIOUS
  <2> QED
    BY <2>1, BytesDisjoint
<1>2. Bytes(S \ {b}) <= Bytes(S)
  BY BytesMonotone
<1>3. Size[b] \in Nat
  BY BlobStoreAssumption
<1> QED
  BY <1>1, <1>2, <1>3, BytesSingle, BytesNat

\* No blobs take no bytes.
LEMMA BytesEmpty == Bytes({}) = 0
<1>1. ByteSet({}) = {}
  BY DEF ByteSet
<1> QED
  BY <1>1, FS_EmptySet DEF Bytes

----------------------------------------------------------------------------
(* The operations on a store.                                              *)

\* Open and Put move a blob to the end of the order of last uses.
LEMMA TouchStore ==
  ASSUME NEW st \in Store, NEW b \in Blobs
  PROVE  /\ Touch(st, b) \in Store
         /\ Touch(st, b).sizes = st.sizes
         /\ Touch(st, b).uses = st.uses \union {b}
         /\ Touch(st, b).used = st.used
         /\ Touch(st, b).quota = st.quota
         /\ Touch(st, b).vain = st.vain
  BY DEF Touch, Store

\* Put indexes a blob and charges its size.
LEMMA ChargeStore ==
  ASSUME NEW st \in Store, NEW b \in Blobs
  PROVE  /\ Charge(st, b) \in Store
         /\ Charge(st, b).sizes = st.sizes \union {b}
         /\ Charge(st, b).uses = st.uses \union {b}
         /\ Charge(st, b).used = st.used + Size[b]
         /\ Charge(st, b).quota = st.quota
         /\ Charge(st, b).vain = st.vain
<1>1. Size[b] \in Nat
  BY BlobStoreAssumption
<1>2. PICK t \in Store : /\ t = Touch(st, b)
                         /\ t.sizes = st.sizes
                         /\ t.uses = st.uses \union {b}
                         /\ t.used = st.used
                         /\ t.quota = st.quota
                         /\ t.vain = st.vain
  BY TouchStore
<1>3. Charge(st, b) = [t EXCEPT !.sizes = @ \union {b}, !.used = @ + Size[b]]
  BY <1>2, Zenon DEF Charge
<1>4. Charge(st, b) = [sizes |-> t.sizes \union {b}, uses |-> t.uses, older |-> t.older,
                       used |-> t.used + Size[b], quota |-> t.quota, vain |-> t.vain]
  BY <1>3 DEF Store
<1> QED
  BY <1>1, <1>2, <1>4 DEF Store

\* Eviction takes a file out of the index and its size off the charge; the
\* charge stays a number because it covers the indexed blobs.
LEMMA EvictedStore ==
  ASSUME NEW st \in Store, NEW b, Bytes(st.sizes) <= st.used
  PROVE  /\ Evicted(st, b) \in Store
         /\ Evicted(st, b).sizes = st.sizes \ {b}
         /\ Evicted(st, b).uses = st.uses \ {b}
         /\ Evicted(st, b).used = st.used - Bytes({b} \intersect st.sizes)
         /\ Evicted(st, b).quota = st.quota
         /\ Evicted(st, b).vain = st.vain
         /\ Bytes(Evicted(st, b).sizes) <= Evicted(st, b).used
<1> DEFINE E == {b}
<1>1. Bytes(st.sizes \ (E \intersect st.sizes)) = Bytes(st.sizes) - Bytes(E \intersect st.sizes)
  BY BytesMinus
<1>2. st.sizes \ (E \intersect st.sizes) = st.sizes \ E
  OBVIOUS
<1>3. Bytes(st.sizes \ E) = Bytes(st.sizes) - Bytes(E \intersect st.sizes)
  BY <1>1, <1>2, Zenon
<1>4. /\ Bytes(st.sizes) \in Nat
      /\ Bytes(E \intersect st.sizes) \in Nat
      /\ Bytes(st.sizes \ E) \in Nat
  BY BytesNat
<1>5. st.used - Bytes(E \intersect st.sizes) \in Nat
  BY <1>3, <1>4 DEF Store
<1>6. /\ Evicted(st, b) \in Store
      /\ Evicted(st, b).sizes = st.sizes \ E
      /\ Evicted(st, b).uses = st.uses \ E
      /\ Evicted(st, b).used = st.used - Bytes(E \intersect st.sizes)
      /\ Evicted(st, b).quota = st.quota
      /\ Evicted(st, b).vain = st.vain
  BY <1>5 DEF Evicted, Store
<1> QED
  BY <1>3, <1>4, <1>6 DEF Store

\* What could not be removed changes nothing else of the store.
LEMMA VainStore ==
  ASSUME NEW st \in Store, NEW V \in SUBSET Blobs
  PROVE  /\ [st EXCEPT !.vain = V] \in Store
         /\ [st EXCEPT !.vain = V].sizes = st.sizes
         /\ [st EXCEPT !.vain = V].uses = st.uses
         /\ [st EXCEPT !.vain = V].older = st.older
         /\ [st EXCEPT !.vain = V].used = st.used
         /\ [st EXCEPT !.vain = V].quota = st.quota
         /\ [st EXCEPT !.vain = V].vain = V
  BY DEF Store

\* A scan charges what it indexes.
LEMMA NewStoreStore ==
  ASSUME NEW files \in SUBSET Blobs, NEW q \in Quotas
  PROVE  /\ NewStore(files, q) \in Store
         /\ NewStore(files, q).sizes = files
         /\ NewStore(files, q).uses = files
         /\ NewStore(files, q).used = Bytes(files)
         /\ NewStore(files, q).quota = q
         /\ NewStore(files, q).vain = {}
  BY BytesNat, BlobStoreAssumption DEF NewStore, Store

\* A store that was never opened charges nothing for nothing.
LEMMA NoStoreStore == NoStore \in Store /\ Bytes(NoStore.sizes) <= NoStore.used
  BY BytesEmpty DEF NoStore, Store

----------------------------------------------------------------------------
(* With reloads.                                                           *)

\* The bytes a request is about to store are those of its blob.
Holding == \A p \in Procs : pc[p] \in {"put", "commit", "evict"} => body[p] = req[p]

\* Every store has charged at least what it has indexed.
Charged == \A g \in Gens : Bytes(stores[g].sizes) <= stores[g].used

SafeInv == TypeOK /\ DiskVerified /\ ServedVerified /\ Holding /\ Charged

\* The safety invariant holds when the process starts for the first time.
LEMMA SafeInit == Init => SafeInv
<1> SUFFICES ASSUME Init PROVE SafeInv
  OBVIOUS
<1>1. PICK q \in Quotas :
        stores = [g \in Gens |-> IF g = 1 THEN NewStore({}, q) ELSE NoStore]
  BY DEF Init
<1>2. /\ NewStore({}, q) \in Store
      /\ Bytes(NewStore({}, q).sizes) <= NewStore({}, q).used
  <2>1. NewStore({}, q).sizes = {} /\ NewStore({}, q).used = Bytes({})
    BY NewStoreStore
  <2>2. Bytes({}) <= Bytes({})
    BY BytesNat
  <2> QED
    BY <2>1, <2>2, NewStoreStore
<1>3. TypeOK
  BY <1>1, <1>2, NoStoreStore, BlobStoreAssumption DEF Init, TypeOK, Gens
<1>4. Charged
  BY <1>1, <1>2, NoStoreStore DEF Charged
<1>5. DiskVerified /\ ServedVerified /\ Holding
  BY DEF Init, DiskVerified, ServedVerified, Holding
<1> QED
  BY <1>3, <1>4, <1>5 DEF SafeInv

\* A request's own steps up to the commit touch no store's charge.
LEMMA SafeServe ==
  ASSUME SafeInv, NEW p \in Procs,
         Begin(p) \/ CheckHas(p) \/ FetchBody(p) \/ PutTemp(p) \/ PutError(p)
  PROVE  SafeInv'
<1> USE DEF SafeInv
<1>1. CASE Begin(p)
  BY <1>1 DEF Begin, TypeOK, DiskVerified, ServedVerified, Holding, Charged
<1>2. CASE CheckHas(p)
  BY <1>2 DEF CheckHas, TypeOK, DiskVerified, ServedVerified, Holding, Charged
<1>3. CASE FetchBody(p)
  BY <1>3 DEF FetchBody, Verified, Reply, TypeOK, DiskVerified, ServedVerified, Holding, Charged
<1>4. CASE PutTemp(p)
  BY <1>4 DEF PutTemp, TypeOK, DiskVerified, ServedVerified, Holding, Charged
<1>5. CASE PutError(p)
  BY <1>5 DEF PutError, Reply, TypeOK, DiskVerified, ServedVerified, Holding, Charged
<1> QED
  BY <1>1, <1>2, <1>3, <1>4, <1>5

\* Open returns what the disk holds, which is verified, unless the read fails.
LEMMA SafeOpen == ASSUME SafeInv, NEW p \in Procs, OpenCached(p) PROVE SafeInv'
<1>1. be[p] \in Gens /\ stores[be[p]] \in Store /\ req[p] \in Blobs
  BY DEF SafeInv, TypeOK
<1>2. PICK t \in Store : /\ t = Touch(stores[be[p]], req[p])
                         /\ t.sizes = stores[be[p]].sizes
                         /\ t.used = stores[be[p]].used
  BY <1>1, TouchStore
<1>3. stores' = stores \/ stores' = [stores EXCEPT ![be[p]] = t]
  BY <1>2 DEF OpenCached
<1>4. /\ stores' \in [Gens -> Store]
      /\ \A g \in Gens : stores'[g].sizes = stores[g].sizes /\ stores'[g].used = stores[g].used
  BY <1>1, <1>2, <1>3 DEF SafeInv, TypeOK
<1>5. Charged'
  BY <1>4 DEF Charged, SafeInv
<1>6. TypeOK'
  BY <1>1, <1>4 DEF SafeInv, TypeOK, OpenCached, Reply
<1>7. DiskVerified' /\ ServedVerified' /\ Holding'
  BY <1>1 DEF SafeInv, TypeOK, OpenCached, Reply, DiskVerified, ServedVerified, Holding
<1> QED
  BY <1>5, <1>6, <1>7 DEF SafeInv

\* Put renames verified bytes into place and charges them.
LEMMA SafeRename == ASSUME SafeInv, NEW p \in Procs, PutRename(p) PROVE SafeInv'
<1>1. /\ be[p] \in Gens /\ stores[be[p]] \in Store /\ req[p] \in Blobs
      /\ body[p] = req[p]
      /\ Bytes(stores[be[p]].sizes) <= stores[be[p]].used
  BY DEF SafeInv, TypeOK, PutRename, Holding, Charged
<1>2. PICK st \in Store : /\ st = Charge(stores[be[p]], req[p])
                          /\ st.sizes = stores[be[p]].sizes \union {req[p]}
                          /\ st.used = stores[be[p]].used + Size[req[p]]
  BY <1>1, ChargeStore
<1>3. Bytes(st.sizes) <= st.used
  <2>1. Bytes(st.sizes) <= Bytes(stores[be[p]].sizes) + Size[req[p]]
    BY <1>1, <1>2, BytesAdd
  <2>2. /\ Bytes(st.sizes) \in Nat /\ Bytes(stores[be[p]].sizes) \in Nat
        /\ Size[req[p]] \in Nat /\ stores[be[p]].used \in Nat
    BY <1>1, BytesNat, BlobStoreAssumption DEF Store
  <2> QED
    BY <1>1, <1>2, <2>1, <2>2
<1>4. /\ disk' = [disk EXCEPT ![req[p]] = body[p]]
      /\ stores' = [stores EXCEPT ![be[p]] = st]
  BY <1>2 DEF PutRename
<1>5. TypeOK'
  BY <1>1, <1>4 DEF SafeInv, TypeOK, PutRename
<1>6. Charged'
  BY <1>1, <1>3, <1>4 DEF SafeInv, TypeOK, Charged
<1>7. DiskVerified' /\ ServedVerified' /\ Holding'
  BY <1>1, <1>4 DEF SafeInv, TypeOK, PutRename, DiskVerified, ServedVerified, Holding
<1> QED
  BY <1>5, <1>6, <1>7 DEF SafeInv

\* evictLocked removes files, or fails to; a store's charge stays above its index.
LEMMA SafeEvict ==
  ASSUME SafeInv, NEW p \in Procs, EvictOne(p) \/ EvictFails(p) \/ EvictDone(p)
  PROVE  SafeInv'
<1>1. /\ be[p] \in Gens /\ stores[be[p]] \in Store /\ stores \in [Gens -> Store]
      /\ req[p] \in Blobs /\ body[p] = req[p]
      /\ Bytes(stores[be[p]].sizes) <= stores[be[p]].used
  BY DEF SafeInv, TypeOK, EvictOne, EvictFails, EvictDone, Holding, Charged
<1>2. PICK st \in Store : st = stores[be[p]]
  BY <1>1
<1>3. PICK t \in Store : /\ stores' = [stores EXCEPT ![be[p]] = t]
                         /\ Bytes(t.sizes) <= t.used
  <2>1. CASE EvictOne(p)
    <3>1. PICK b \in Blobs : stores' = [stores EXCEPT ![be[p]] = Evicted(st, b)]
      BY <1>2, <2>1 DEF EvictOne, Oldest, Store
    <3>2. Evicted(st, b) \in Store /\ Bytes(Evicted(st, b).sizes) <= Evicted(st, b).used
      BY <1>1, <1>2, EvictedStore
    <3> QED
      BY <3>1, <3>2
  <2>2. CASE EvictFails(p) \/ EvictDone(p)
    <3>1. PICK V \in SUBSET Blobs : stores' = [stores EXCEPT ![be[p]] = [st EXCEPT !.vain = V]]
      <4>1. CASE EvictFails(p)
        <5>1. PICK b \in Blobs : stores' = [stores EXCEPT ![be[p]] = [st EXCEPT !.vain = @ \union {b}]]
          BY <1>2, <4>1 DEF EvictFails, Oldest, Store
        <5>2. st.vain \union {b} \in SUBSET Blobs
          BY DEF Store
        <5> QED
          BY <5>1, <5>2
      <4>2. CASE EvictDone(p)
        BY <1>1, <1>2, <4>2 DEF EvictDone
      <4> QED
        BY <2>2, <4>1, <4>2
    <3>2. PICK t \in Store : /\ t = [st EXCEPT !.vain = V]
                             /\ t.sizes = st.sizes /\ t.used = st.used
      BY VainStore
    <3> QED
      BY <1>1, <1>2, <3>1, <3>2
  <2> QED
    BY <2>1, <2>2
<1>4. /\ disk' \in [Blobs -> Blobs \union {NoFile, Torn}]
      /\ \A b \in Blobs : disk'[b] \in {NoFile, disk[b]}
  BY DEF SafeInv, TypeOK, EvictOne, EvictFails, EvictDone
<1>5. /\ (pc' = pc /\ body' = body) \/ Reply(p, body[p])
      /\ UNCHANGED <<orphanBytes, gen, req, be, broken>>
  BY DEF EvictOne, EvictFails, EvictDone
<1>6. TypeOK'
  BY <1>1, <1>3, <1>4, <1>5 DEF SafeInv, TypeOK, Reply
<1>7. Charged'
  BY <1>1, <1>3 DEF SafeInv, Charged
<1>8. DiskVerified'
  BY <1>4 DEF SafeInv, DiskVerified
<1>9. ServedVerified' /\ Holding'
  BY <1>1, <1>5 DEF SafeInv, TypeOK, Reply, ServedVerified, Holding
<1> QED
  BY <1>6, <1>7, <1>8, <1>9 DEF SafeInv

\* A restart and a reload open a store that charges exactly what it finds.
LEMMA SafeProcess == ASSUME SafeInv, Crash \/ Reload PROVE SafeInv'
<1>1. Files(disk) \in SUBSET Blobs
  BY DEF Files
<1>2. \A q \in Quotas : /\ NewStore(Files(disk), q) \in Store
                        /\ Bytes(NewStore(Files(disk), q).sizes) <= NewStore(Files(disk), q).used
  <2>1. Bytes(Files(disk)) <= Bytes(Files(disk))
    BY BytesNat
  <2> QED
    BY <1>1, <2>1, NewStoreStore
<1>3. CASE Crash
  <2>1. PICK q \in Quotas :
          stores' = [g \in Gens |-> IF g = 1 THEN NewStore(Files(disk), q) ELSE NoStore]
    BY <1>3 DEF Crash
  <2>2. TempBytes \in Nat
    <3>0. IsFiniteSet(Procs) /\ IsFiniteSet(1..MaxBytes)
      BY FS_Interval, BlobStoreAssumption
    <3>1. IsFiniteSet(Procs \X (1..MaxBytes))
      BY <3>0, FS_Product
    <3> DEFINE T == {x \in Procs \X (1..MaxBytes) :
                       pc[x[1]] = "commit" /\ x[2] <= Size[req[x[1]]]}
    <3>2. T \in SUBSET (Procs \X (1..MaxBytes))
      OBVIOUS
    <3> HIDE DEF T
    <3>3. Cardinality(T) \in Nat
      BY <3>1, <3>2, FS_Subset, FS_CardinalityType
    <3> QED
      BY <3>3 DEF TempBytes, T
  <2>3. TypeOK' /\ Charged'
    BY <1>2, <1>3, <2>1, <2>2, NoStoreStore, BlobStoreAssumption
       DEF SafeInv, TypeOK, Crash, Gens, Charged
  <2> QED
    BY <1>3, <2>3 DEF SafeInv, TypeOK, Crash, DiskVerified, ServedVerified, Holding
<1>4. CASE Reload
  <2>1. PICK q \in Quotas : stores' = [stores EXCEPT ![gen + 1] = NewStore(Files(disk), q)]
    BY <1>4 DEF Reload
  <2>2. gen + 1 \in Gens
    BY <1>4, BlobStoreAssumption DEF SafeInv, TypeOK, Reload, Gens
  <2>3. TypeOK' /\ Charged'
    BY <1>2, <1>4, <2>1, <2>2 DEF SafeInv, TypeOK, Reload, Charged
  <2> QED
    BY <1>4, <2>3 DEF SafeInv, Reload, DiskVerified, ServedVerified, Holding
<1> QED
  BY <1>3, <1>4

\* Every step of requests, crash and reload keeps the safety invariant.
LEMMA SafeStep == SafeInv /\ [Next]_vars => SafeInv'
<1> SUFFICES ASSUME SafeInv, [Next]_vars PROVE SafeInv'
  OBVIOUS
<1>1. CASE Next
  BY <1>1, SafeServe, SafeOpen, SafeRename, SafeEvict, SafeProcess DEF Next, SteadyNext, Serve
<1>2. CASE UNCHANGED vars
  BY <1>2 DEF vars, SafeInv, TypeOK, DiskVerified, ServedVerified, Holding, Charged
<1> QED
  BY <1>1, <1>2

\* The safety invariant always holds.
LEMMA SafeAlways == Spec => []SafeInv
  BY SafeInit, SafeStep, PTL DEF Spec

\* The state has its type; above all, used never goes below zero, whatever two
\* stores over one directory evict from each other.
THEOREM TypeCorrect == Spec => []TypeOK
<1>1. SafeInv => TypeOK
  BY DEF SafeInv
<1> QED
  BY <1>1, SafeAlways, PTL

\* Reloads, crashes, evictions and overlapping requests included, a file under
\* a blob's name holds that blob.
THEOREM OnlyVerifiedStored == Spec => []DiskVerified
<1>1. SafeInv => DiskVerified
  BY DEF SafeInv
<1> QED
  BY <1>1, SafeAlways, PTL

\* Likewise, a request is served the blob it asked for, or a 404, or, if its read of
\* the cached file failed, a part of the blob.
THEOREM OnlyVerifiedServed == Spec => []ServedVerified
<1>1. SafeInv => ServedVerified
  BY DEF SafeInv
<1> QED
  BY <1>1, SafeAlways, PTL

\* The order of last uses after Put's index update: the new blob is the last of all.
LEMMA ChargeOrder ==
  ASSUME NEW st \in Store, NEW b \in Blobs
  PROVE  \A x \in st.uses : x # b => <<x, b>> \in Charge(st, b).older
<1>1. Touch(st, b).older = {r \in st.older : r[1] # b} \union ((st.uses \ {b}) \X {b})
  BY DEF Touch, Store
<1>2. PICK t \in Store : t = Touch(st, b)
  BY TouchStore
<1>3. Charge(st, b) = [t EXCEPT !.sizes = @ \union {b}, !.used = @ + Size[b]]
  BY <1>2 DEF Charge
<1>4. Charge(st, b).older = t.older
  BY <1>3 DEF Store
<1> QED
  BY <1>1, <1>2, <1>4

\* Requests have stores that were opened, and one of them at a time holds the lock
\* of a store.
Exclusive ==
  /\ \A p \in Procs : be[p] <= gen
  /\ \A p, q \in Procs : (pc[p] = "evict" /\ pc[q] = "evict" /\ be[p] = be[q]) => p = q

\* b is the most recently used blob of st, or not in its index.
Newest(st, b) == b \in st.uses => \A y \in st.uses : y # b => <<y, b>> \in st.older

\* While a Put makes room, nobody uses its store: the blob it stored stays the most
\* recently used one.
StoredIsNewest == \A p \in Procs : pc[p] = "evict" => Newest(stores[be[p]], req[p])

OrderInv == SafeInv /\ Exclusive /\ StoredIsNewest

\* One request at a time makes room in a store, and nothing reassigns its store.
LEMMA ExclusiveStep == ASSUME SafeInv, Exclusive, Next PROVE Exclusive'
<1>1. /\ pc \in [Procs -> {"idle", "has", "open", "fetch", "put", "commit", "evict"}]
      /\ be \in [Procs -> Gens] /\ gen \in Nat /\ Gens \subseteq Nat
  BY BlobStoreAssumption DEF SafeInv, TypeOK, Gens
<1>2. ASSUME NEW p \in Procs, Begin(p) PROVE Exclusive'
  BY <1>1, <1>2 DEF Begin, Exclusive
<1>3. ASSUME NEW p \in Procs, PutRename(p) PROVE Exclusive'
  BY <1>1, <1>3 DEF PutRename, Locked, Exclusive
<1>4. ASSUME NEW p \in Procs,
             \/ CheckHas(p) \/ OpenCached(p) \/ FetchBody(p) \/ PutTemp(p) \/ PutError(p)
             \/ EvictOne(p) \/ EvictFails(p) \/ EvictDone(p)
      PROVE  Exclusive'
  <2>1. be' = be /\ gen' = gen
    BY <1>4 DEF CheckHas, OpenCached, FetchBody, PutTemp, PutError, EvictOne, EvictFails, EvictDone
  <2>2. \A q \in Procs : pc'[q] = "evict" => pc[q] = "evict"
    BY <1>1, <1>4 DEF CheckHas, OpenCached, FetchBody, PutTemp, PutError, EvictOne, EvictFails,
                      EvictDone, Reply
  <2> QED
    BY <2>1, <2>2 DEF Exclusive
<1>5. CASE Crash
  <2>1. \A p \in Procs : be'[p] = 1 /\ gen' = 1 /\ pc'[p] = "idle"
    BY <1>5 DEF Crash
  <2> QED
    BY <2>1 DEF Exclusive
<1>6. CASE Reload
  <2>1. be' = be /\ pc' = pc /\ gen' = gen + 1
    BY <1>6 DEF Reload
  <2>2. ASSUME NEW p \in Procs PROVE be[p] <= gen + 1
    <3>1. be[p] \in Nat /\ gen \in Nat
      BY <1>1
    <3>2. be[p] <= gen
      BY DEF Exclusive
    <3> QED
      BY <3>1, <3>2
  <2> QED
    BY <2>1, <2>2 DEF Exclusive
<1> QED
  BY <1>2, <1>3, <1>4, <1>5, <1>6 DEF Next, SteadyNext, Serve

\* An eviction leaves the order of the other blobs alone.
LEMMA EvictedNewest ==
  ASSUME NEW st \in Store, NEW b, NEW c, Newest(st, c) PROVE Newest(Evicted(st, b), c)
<1>1. /\ Evicted(st, b).uses = st.uses \ {b}
      /\ Evicted(st, b).older = {r \in st.older : r[1] # b /\ r[2] # b}
  BY DEF Evicted, Store
<1> QED
  BY <1>1 DEF Newest

\* The blob a Put has stored stays the newest of its store until the Put returns.
LEMMA NewestStep == ASSUME OrderInv, Next PROVE StoredIsNewest'
<1>1. /\ pc \in [Procs -> {"idle", "has", "open", "fetch", "put", "commit", "evict"}]
      /\ be \in [Procs -> Gens] /\ gen \in Nat /\ Gens \subseteq Nat
      /\ stores \in [Gens -> Store] /\ req \in [Procs -> Blobs]
  BY BlobStoreAssumption DEF OrderInv, SafeInv, TypeOK, Gens
<1>2. ASSUME NEW q \in Procs,
             Begin(q) \/ CheckHas(q) \/ FetchBody(q) \/ PutTemp(q) \/ PutError(q)
      PROVE  StoredIsNewest'
  <2>1. stores' = stores
    BY <1>2 DEF Begin, CheckHas, FetchBody, PutTemp, PutError
  <2>2. \A p \in Procs : pc'[p] = "evict" => pc[p] = "evict" /\ be'[p] = be[p] /\ req'[p] = req[p]
    BY <1>1, <1>2 DEF Begin, CheckHas, FetchBody, PutTemp, PutError, Reply
  <2> QED
    BY <2>1, <2>2 DEF OrderInv, StoredIsNewest
<1>3. ASSUME NEW q \in Procs, OpenCached(q) PROVE StoredIsNewest'
  <2>1. be' = be /\ req' = req /\ \A p \in Procs : pc'[p] = "evict" => pc[p] = "evict"
    BY <1>1, <1>3 DEF OpenCached, Reply
  <2>2. \A p \in Procs : pc[p] = "evict" => stores'[be[p]] = stores[be[p]]
    BY <1>1, <1>3 DEF OpenCached, Locked
  <2> QED
    BY <2>1, <2>2 DEF OrderInv, StoredIsNewest
<1>4. ASSUME NEW q \in Procs, PutRename(q) PROVE StoredIsNewest'
  <2>1. be' = be /\ req' = req /\ \A p \in Procs : (pc'[p] = "evict" /\ p # q) => pc[p] = "evict"
    BY <1>1, <1>4 DEF PutRename
  <2>2. \A p \in Procs : pc[p] = "evict" => stores'[be[p]] = stores[be[p]]
    BY <1>1, <1>4 DEF PutRename, Locked
  <2>3. PICK st \in Store, b \in Blobs : st = stores[be[q]] /\ b = req[q]
    BY <1>1
  <2>4. stores'[be[q]] = Charge(st, b)
    BY <1>1, <1>4, <2>3 DEF PutRename
  <2>5. Newest(Charge(st, b), b)
    BY ChargeOrder, ChargeStore DEF Newest
  <2>6. Newest(stores'[be[q]], req[q])
    BY <2>3, <2>4, <2>5
  <2> QED
    BY <2>1, <2>2, <2>6 DEF OrderInv, StoredIsNewest
<1>5. ASSUME NEW q \in Procs, EvictOne(q) \/ EvictFails(q) \/ EvictDone(q)
      PROVE  StoredIsNewest'
  <2>1. be' = be /\ req' = req /\ \A p \in Procs : pc'[p] = "evict" => pc[p] = "evict"
    BY <1>1, <1>5 DEF EvictOne, EvictFails, EvictDone, Reply
  <2>2. PICK st \in Store, c \in Blobs : st = stores[be[q]] /\ c = req[q] /\ Newest(st, c)
    BY <1>1, <1>5 DEF OrderInv, StoredIsNewest, EvictOne, EvictFails, EvictDone
  <2>3. Newest(stores'[be[q]], c)
    <3>1. CASE EvictOne(q)
      <4>1. PICK b : stores' = [stores EXCEPT ![be[q]] = Evicted(st, b)]
        BY <2>2, <3>1 DEF EvictOne
      <4> QED
        BY <1>1, <2>2, <4>1, EvictedNewest
    <3>2. CASE EvictFails(q) \/ EvictDone(q)
      <4>1. PICK V : stores'[be[q]] = [st EXCEPT !.vain = V]
        BY <1>1, <2>2, <3>2 DEF EvictFails, EvictDone, Store
      <4>2. stores'[be[q]].uses = st.uses /\ stores'[be[q]].older = st.older
        BY <4>1 DEF Store
      <4> QED
        BY <2>2, <4>2 DEF Newest
    <3> QED
      BY <1>5, <3>1, <3>2
  <2>4. ASSUME NEW p \in Procs, pc[p] = "evict", p # q PROVE stores'[be[p]] = stores[be[p]]
    <3>1. be[p] # be[q]
      BY <1>5, <2>4 DEF OrderInv, Exclusive, EvictOne, EvictFails, EvictDone
    <3> QED
      BY <1>1, <1>5, <3>1 DEF EvictOne, EvictFails, EvictDone
  <2> QED
    BY <2>1, <2>2, <2>3, <2>4 DEF OrderInv, StoredIsNewest
<1>6. CASE Crash
  BY <1>6 DEF Crash, StoredIsNewest
<1>7. CASE Reload
  <2>1. \A p \in Procs : stores'[be[p]] = stores[be[p]]
    BY <1>1, <1>7 DEF Reload, OrderInv, Exclusive
  <2> QED
    BY <1>7, <2>1 DEF Reload, OrderInv, StoredIsNewest
<1> QED
  BY <1>2, <1>3, <1>4, <1>5, <1>6, <1>7 DEF Next, SteadyNext, Serve

\* The lock and the order of last uses, always.
LEMMA OrderAlways == Spec => []OrderInv
<1>1. Init => OrderInv
  BY SafeInit DEF Init, OrderInv, Exclusive, StoredIsNewest
<1>2. OrderInv /\ [Next]_vars => OrderInv'
  <2>1. OrderInv /\ Next => OrderInv'
    BY SafeStep, ExclusiveStep, NewestStep DEF OrderInv
  <2>2. OrderInv /\ UNCHANGED vars => OrderInv'
    <3> SUFFICES ASSUME OrderInv, UNCHANGED vars PROVE OrderInv'
      OBVIOUS
    <3>1. SafeInv'
      BY SafeStep DEF OrderInv
    <3> QED
      BY <3>1 DEF vars, OrderInv, Exclusive, StoredIsNewest
  <2> QED
    BY <2>1, <2>2
<1> QED
  BY <1>1, <1>2, PTL DEF Spec

\* What EvictsLeastRecent says of the removal of b by p.
LeastRecentGoes(p, b) ==
  LET st   == stores[be[p]]
      left == {y \in st.uses \ st.vain : y # b /\ disk[y] # NoFile}
  IN /\ \A y \in left : <<y, b>> \notin st.older
     /\ b = req[p] => left = {}

\* Through reloads and with several stores over one directory, a Put evicts the
\* blobs of its own store that were used least recently, and the blob it has just
\* stored only after all others.
THEOREM LeastRecentEvicted == Spec => EvictsLeastRecent
<1>1. OrderInv /\ [Next]_vars
        => [\A p \in Procs, b \in Blobs : Evicts(p, b) => LeastRecentGoes(p, b)]_vars
  <2> SUFFICES ASSUME OrderInv, Next, NEW p \in Procs, NEW b \in Blobs, Evicts(p, b)
               PROVE  LeastRecentGoes(p, b)
    OBVIOUS
  <2>1. /\ pc[p] = "evict" /\ stores'[be[p]] # stores[be[p]]
        /\ disk[b] # NoFile /\ disk'[b] = NoFile
    BY DEF Evicts
  <2>2. /\ disk \in [Blobs -> Blobs \union {NoFile, Torn}] /\ stores \in [Gens -> Store]
        /\ be \in [Procs -> Gens]
    BY DEF OrderInv, SafeInv, TypeOK
  <2>3. PICK q \in Procs : EvictOne(q)
    <3>1. \A q \in Procs : ~ PutRename(q)
      BY <2>1, <2>2, BlobStoreAssumption DEF PutRename, OrderInv, SafeInv, Holding, TypeOK
    <3> QED
      BY <2>1, <3>1 DEF Next, SteadyNext, Serve, Begin, CheckHas, OpenCached, FetchBody, PutTemp,
                        PutError, EvictFails, EvictDone, Crash, Reload
  <2>4. PICK c \in Oldest(stores[be[q]]) :
          /\ disk' = [disk EXCEPT ![c] = NoFile]
          /\ stores' = [stores EXCEPT ![be[q]] = Evicted(stores[be[q]], c)]
          /\ pc[q] = "evict"
    BY <2>3 DEF EvictOne
  <2>5. c = b
    BY <2>1, <2>2, <2>4
  <2>6. q = p
    BY <2>1, <2>2, <2>4 DEF OrderInv, Exclusive
  <2>7. PICK st \in Store : st = stores[be[p]] /\ Newest(st, req[p])
    BY <2>1, <2>2 DEF OrderInv, StoredIsNewest
  <2>8. b \in st.uses \ st.vain /\ \A y \in st.uses \ st.vain : <<y, b>> \notin st.older
    BY <2>4, <2>5, <2>6, <2>7 DEF Oldest
  <2> QED
    BY <2>7, <2>8 DEF LeastRecentGoes, Newest
<1> QED
  BY <1>1, OrderAlways, PTL DEF Spec, EvictsLeastRecent, LeastRecentGoes

----------------------------------------------------------------------------
(* Until the process is reloaded.                                          *)

\* There is one store, and every request has it.
OneStore == gen = 1 /\ be = [p \in Procs |-> 1] /\ stores[1].quota \in Quotas

\* The charge covers the disk, though it may count a blob twice.
ChargeCovers == Bytes(Files(disk)) <= stores[1].used

SteadyInv == SafeInv /\ OneStore /\ IndexIsDisk /\ ChargeCovers

\* A process that was reloaded is only known to be safe.
AloneInv == SafeInv /\ (gen = 1 => SteadyInv)

\* A rename leaves the charge above the disk: it charges the whole size of a blob
\* that adds at most that much.
LEMMA SteadyRename == ASSUME SteadyInv, NEW p \in Procs, PutRename(p) PROVE SteadyInv'
<1> DEFINE F == Files(disk) \union {req[p]}
<1>1. /\ be[p] = 1 /\ 1 \in Gens /\ stores \in [Gens -> Store] /\ stores[1] \in Store
      /\ req[p] \in Blobs /\ body[p] = req[p] /\ disk \in [Blobs -> Blobs \union {NoFile, Torn}]
      /\ stores[1].sizes = Files(disk) /\ stores[1].uses = Files(disk)
      /\ Bytes(Files(disk)) <= stores[1].used
  BY BlobStoreAssumption
     DEF SteadyInv, SafeInv, TypeOK, OneStore, IndexIsDisk, ChargeCovers, PutRename, Holding, Gens
<1>2. PICK st \in Store : /\ st = Charge(stores[1], req[p])
                          /\ st.sizes = F /\ st.uses = F
                          /\ st.used = stores[1].used + Size[req[p]]
                          /\ st.quota = stores[1].quota
  BY <1>1, ChargeStore
<1>3. Bytes(F) <= st.used
  <2>1. Bytes(F) <= Bytes(Files(disk)) + Size[req[p]]
    BY <1>1, BytesAdd
  <2>2. /\ Bytes(F) \in Nat /\ Bytes(Files(disk)) \in Nat
        /\ Size[req[p]] \in Nat /\ stores[1].used \in Nat
    BY <1>1, BytesNat, BlobStoreAssumption DEF Store
  <2> QED
    BY <1>1, <1>2, <2>1, <2>2
<1>4. Files(disk') = F
  BY <1>1, BlobStoreAssumption DEF PutRename, Files
<1>5. stores'[1] = st
  BY <1>1, <1>2 DEF PutRename
<1>6. SafeInv'
  BY SafeRename DEF SteadyInv
<1>7. Bytes(Files(disk')) <= stores'[1].used
  BY <1>3, <1>4, <1>5, Zenon
<1> QED
  BY <1>2, <1>4, <1>5, <1>6, <1>7 DEF SteadyInv, OneStore, IndexIsDisk, ChargeCovers, PutRename

\* The eviction takes off the charge what it takes off the disk.
LEMMA SteadyEvict ==
  ASSUME SteadyInv, NEW p \in Procs, EvictOne(p) \/ EvictFails(p) \/ EvictDone(p)
  PROVE  SteadyInv'
<1>1. /\ be[p] = 1 /\ 1 \in Gens /\ stores \in [Gens -> Store]
      /\ disk \in [Blobs -> Blobs \union {NoFile, Torn}]
      /\ stores[1].sizes = Files(disk) /\ stores[1].uses = Files(disk)
      /\ Bytes(Files(disk)) <= stores[1].used
  BY BlobStoreAssumption
     DEF SteadyInv, SafeInv, TypeOK, OneStore, IndexIsDisk, ChargeCovers, Gens
<1>2. SafeInv'
  BY SafeEvict DEF SteadyInv
<1>3. PICK st \in Store : st = stores[1]
  BY <1>1
<1>4. gen' = gen /\ be' = be
  BY DEF EvictOne, EvictFails, EvictDone
<1>5. CASE EvictOne(p)
  <2>1. PICK b \in st.uses : /\ disk' = [disk EXCEPT ![b] = NoFile]
                             /\ stores' = [stores EXCEPT ![1] = Evicted(st, b)]
    BY <1>1, <1>3, <1>5 DEF EvictOne, Oldest
  <2>2. Files(disk') = Files(disk) \ {b}
    BY <1>1, <1>3, <2>1 DEF Files
  <2>3. PICK t \in Store : /\ t = Evicted(st, b)
                           /\ t.sizes = st.sizes \ {b}
                           /\ t.uses = st.uses \ {b}
                           /\ t.quota = st.quota
                           /\ Bytes(t.sizes) <= t.used
    BY <1>1, <1>3, EvictedStore
  <2>4. stores'[1] = t
    BY <1>1, <2>1, <2>3
  <2>5. Files(disk') = t.sizes /\ t.uses = t.sizes
    BY <1>1, <1>3, <2>2, <2>3
  <2>6. Bytes(Files(disk')) <= stores'[1].used
    BY <2>3, <2>4, <2>5, Zenon
  <2> QED
    BY <1>2, <1>3, <1>4, <2>3, <2>4, <2>5, <2>6 DEF SteadyInv, OneStore, IndexIsDisk, ChargeCovers
<1>6. CASE EvictFails(p) \/ EvictDone(p)
  <2>1. disk' = disk
    BY <1>6 DEF EvictFails, EvictDone
  <2>2. PICK V \in SUBSET Blobs : stores'[1] = [st EXCEPT !.vain = V]
    <3>1. CASE EvictFails(p)
      <4>1. PICK b \in Blobs : stores' = [stores EXCEPT ![1] = [st EXCEPT !.vain = @ \union {b}]]
        BY <1>1, <1>3, <3>1 DEF EvictFails, Oldest, Store
      <4>2. st.vain \union {b} \in SUBSET Blobs
        BY DEF Store
      <4> QED
        BY <1>1, <4>1, <4>2
    <3>2. CASE EvictDone(p)
      BY <1>1, <1>3, <3>2 DEF EvictDone
    <3> QED
      BY <1>6, <3>1, <3>2
  <2>3. /\ stores'[1].sizes = st.sizes /\ stores'[1].uses = st.uses
        /\ stores'[1].used = st.used /\ stores'[1].quota = st.quota
    BY <2>2, VainStore
  <2> QED
    BY <1>2, <1>3, <1>4, <2>1, <2>3 DEF SteadyInv, OneStore, IndexIsDisk, ChargeCovers
<1> QED
  BY <1>5, <1>6

\* The other steps of a request change neither the disk nor any charge; Open
\* changes the order of last uses only.
LEMMA SteadyServe ==
  ASSUME SteadyInv, NEW p \in Procs,
         \/ Begin(p) \/ CheckHas(p) \/ FetchBody(p) \/ PutTemp(p) \/ PutError(p)
         \/ OpenCached(p)
  PROVE  SteadyInv'
<1>1. SafeInv'
  BY SafeServe, SafeOpen DEF SteadyInv
<1>2. CASE \/ Begin(p) \/ CheckHas(p) \/ FetchBody(p) \/ PutTemp(p) \/ PutError(p)
  <2>1. disk' = disk /\ stores' = stores /\ gen' = gen
    BY <1>2 DEF Begin, CheckHas, FetchBody, PutTemp, PutError
  <2>2. be' = [q \in Procs |-> 1]
    BY <1>2 DEF Begin, CheckHas, FetchBody, PutTemp, PutError, SteadyInv, OneStore
  <2> QED
    BY <1>1, <2>1, <2>2 DEF SteadyInv, OneStore, IndexIsDisk, ChargeCovers
<1>3. CASE OpenCached(p)
  <2>1. /\ be[p] = 1 /\ 1 \in Gens /\ stores \in [Gens -> Store] /\ req[p] \in Blobs
        /\ stores[1].uses = Files(disk)
    BY BlobStoreAssumption DEF SteadyInv, SafeInv, TypeOK, OneStore, IndexIsDisk, Gens
  <2>2. /\ disk' = disk /\ gen' = gen /\ be' = be
        /\ \/ stores' = stores
           \/ /\ req[p] \in Files(disk)
              /\ stores' = [stores EXCEPT ![1] = Touch(stores[1], req[p])]
    BY <1>3, <2>1 DEF OpenCached, Files
  <2>3. PICK t \in Store : /\ t = Touch(stores[1], req[p])
                           /\ t.sizes = stores[1].sizes
                           /\ t.uses = stores[1].uses \union {req[p]}
                           /\ t.used = stores[1].used
                           /\ t.quota = stores[1].quota
    BY <2>1, TouchStore
  <2>4. /\ stores'[1].sizes = stores[1].sizes /\ stores'[1].uses = stores[1].uses
        /\ stores'[1].used = stores[1].used /\ stores'[1].quota = stores[1].quota
    BY <2>1, <2>2, <2>3
  <2> QED
    BY <1>1, <2>2, <2>4 DEF SteadyInv, OneStore, IndexIsDisk, ChargeCovers
<1> QED
  BY <1>2, <1>3

\* A restart charges what it finds on the disk, whatever happened before.
LEMMA SteadyCrash == ASSUME SafeInv, Crash PROVE SteadyInv'
<1>1. SafeInv'
  BY SafeProcess
<1>2. PICK q \in Quotas :
        stores' = [g \in Gens |-> IF g = 1 THEN NewStore(Files(disk), q) ELSE NoStore]
  BY DEF Crash
<1>3. 1 \in Gens /\ Files(disk) \in SUBSET Blobs
  BY BlobStoreAssumption DEF Gens, Files
<1>4. /\ stores'[1].sizes = Files(disk) /\ stores'[1].uses = Files(disk)
      /\ stores'[1].used = Bytes(Files(disk)) /\ stores'[1].quota = q
  BY <1>2, <1>3, NewStoreStore
<1>5. disk' = disk /\ gen' = 1 /\ be' = [p \in Procs |-> 1]
  BY DEF Crash
<1>6. Bytes(Files(disk)) <= Bytes(Files(disk))
  BY BytesNat
<1> QED
  BY <1>1, <1>4, <1>5, <1>6, Zenon DEF SteadyInv, OneStore, IndexIsDisk, ChargeCovers

\* The invariant of a process without reloads holds at the start.
LEMMA SteadyInit == Init => SteadyInv
<1> SUFFICES ASSUME Init PROVE SteadyInv
  OBVIOUS
<1>1. SafeInv
  BY SafeInit
<1>2. PICK q \in Quotas :
        stores = [g \in Gens |-> IF g = 1 THEN NewStore({}, q) ELSE NoStore]
  BY DEF Init
<1>3. 1 \in Gens
  BY BlobStoreAssumption DEF Gens
<1>4. /\ stores[1].sizes = {} /\ stores[1].uses = {}
      /\ stores[1].used = 0 /\ stores[1].quota = q
  BY <1>2, <1>3, NewStoreStore, BytesEmpty
<1>5. Files(disk) = {}
  BY DEF Init, Files
<1>6. q \in Nat
  BY BlobStoreAssumption
<1>7. ChargeCovers
  BY <1>4, <1>5, <1>6, BytesEmpty DEF ChargeCovers
<1> QED
  BY <1>1, <1>4, <1>5, <1>7 DEF Init, SteadyInv, OneStore, IndexIsDisk

\* Every step of a process without reloads keeps its invariant.
LEMMA SteadyStep == SteadyInv /\ [SteadyNext]_vars => SteadyInv'
<1> SUFFICES ASSUME SteadyInv, [SteadyNext]_vars PROVE SteadyInv'
  OBVIOUS
<1>1. CASE SteadyNext
  <2>1. SafeInv
    BY DEF SteadyInv
  <2> QED
    BY <1>1, <2>1, SteadyServe, SteadyRename, SteadyEvict, SteadyCrash DEF SteadyNext, Serve
<1>2. CASE UNCHANGED vars
  <2>1. SafeInv'
    BY <1>2, SafeStep DEF SteadyInv
  <2> QED
    BY <1>2, <2>1 DEF vars, SteadyInv, OneStore, IndexIsDisk, ChargeCovers
<1> QED
  BY <1>1, <1>2

\* A reload ends what is known of the process; a crash restores it.
LEMMA AloneStep == AloneInv /\ [Next]_vars => AloneInv'
<1> SUFFICES ASSUME AloneInv, [Next]_vars PROVE AloneInv'
  OBVIOUS
<1>1. SafeInv /\ SafeInv' /\ gen \in 1..MaxGen /\ MaxGen \in Nat
  BY SafeStep, BlobStoreAssumption DEF AloneInv, SafeInv, TypeOK, Gens
<1>2. CASE gen = 1 /\ [SteadyNext]_vars
  BY <1>1, <1>2, SteadyStep DEF AloneInv
<1>3. CASE Crash
  BY <1>1, <1>3, SteadyCrash DEF AloneInv
<1>4. CASE Reload
  BY <1>1, <1>4 DEF AloneInv, Reload
<1>5. CASE gen # 1 /\ ((\E p \in Procs : Serve(p)) \/ UNCHANGED vars)
  <2>1. gen' = gen
    BY <1>5 DEF Serve, Begin, CheckHas, OpenCached, FetchBody, PutTemp, PutError, PutRename,
                EvictOne, EvictFails, EvictDone, vars
  <2> QED
    BY <1>1, <1>5, <2>1 DEF AloneInv
<1> QED
  BY <1>2, <1>3, <1>4, <1>5 DEF Next, SteadyNext

\* What is known of a process until it is reloaded, of every process in turn.
LEMMA AloneAlways == Spec => []AloneInv
<1>1. Init => AloneInv
  BY SteadyInit, SafeInit DEF AloneInv
<1> QED
  BY <1>1, AloneStep, PTL DEF Spec

\* Until a process is reloaded, its index and the directory agree.
THEOREM IndexMatchesDisk == Spec => []IndexIsDisk
<1>1. AloneInv => IndexIsDisk
  BY DEF AloneInv, SteadyInv, IndexIsDisk
<1> QED
  BY <1>1, AloneAlways, PTL

----------------------------------------------------------------------------
(* The refinement of VerifiedCache.                                        *)

\* The initial states of the store are initial states of the promise.
LEMMA PromiseInit == Init => Promise!CacheInit
<1> SUFFICES ASSUME Init PROVE Promise!CacheInit
  OBVIOUS
<1>2. stores[gen].quota \in Quotas /\ stores[gen].vain = {}
  <2>1. PICK q \in Quotas :
          stores = [g \in Gens |-> IF g = 1 THEN NewStore({}, q) ELSE NoStore]
    BY DEF Init
  <2>2. 1 \in Gens /\ gen = 1
    BY BlobStoreAssumption DEF Gens, Init
  <2> QED
    BY <2>1, <2>2, NewStoreStore
<1>3. Files(disk) = {}
  BY DEF Init, Files
<1> QED
  BY <1>2, <1>3 DEF Init, Promise!CacheInit

\* The steps of a request that leave its store's quota and failed removals alone.
LEMMA PromiseLimit ==
  ASSUME SafeInv, NEW p \in Procs,
         \/ Begin(p) \/ CheckHas(p) \/ FetchBody(p) \/ PutTemp(p) \/ PutError(p)
         \/ OpenCached(p) \/ PutRename(p)
  PROVE  gen' = gen /\ stores'[gen'].quota = stores[gen].quota /\ stores'[gen'].vain = stores[gen].vain
<1>1. /\ be[p] \in Gens /\ gen \in Gens /\ stores \in [Gens -> Store] /\ req[p] \in Blobs
      /\ stores[be[p]] \in Store
  BY DEF SafeInv, TypeOK
<1>2. gen' = gen
  BY DEF Begin, CheckHas, FetchBody, PutTemp, PutError, OpenCached, PutRename
<1>3. PICK t \in Store, c \in Store :
        /\ t = Touch(stores[be[p]], req[p]) /\ c = Charge(stores[be[p]], req[p])
        /\ t.quota = stores[be[p]].quota /\ t.vain = stores[be[p]].vain
        /\ c.quota = stores[be[p]].quota /\ c.vain = stores[be[p]].vain
  BY <1>1, TouchStore, ChargeStore
<1>4. \/ stores' = stores
      \/ stores' = [stores EXCEPT ![be[p]] = t]
      \/ stores' = [stores EXCEPT ![be[p]] = c]
  BY <1>3 DEF Begin, CheckHas, FetchBody, PutTemp, PutError, OpenCached, PutRename
<1> QED
  BY <1>1, <1>2, <1>3, <1>4

\* The first steps of a request are invisible, or ask for a blob.
LEMMA PromiseServe ==
  ASSUME SafeInv, NEW p \in Procs,
         Begin(p) \/ CheckHas(p) \/ PutTemp(p) \/ (FetchBody(p) /\ pc'[p] # "idle")
  PROVE  [Promise!CacheNext]_(Promise!cacheVars)
<1>1. /\ pc \in [Procs -> {"idle", "has", "open", "fetch", "put", "commit", "evict"}]
      /\ req \in [Procs -> Blobs]
      /\ body \in [Procs -> Blobs \union {NoFile, Torn}]
  BY DEF SafeInv, TypeOK
<1>2. /\ Files(disk') = Files(disk) /\ gen' = gen
      /\ stores'[gen'].quota = stores[gen].quota /\ stores'[gen'].vain = stores[gen].vain
  BY DEF Begin, CheckHas, FetchBody, PutTemp
<1>3. CASE Begin(p)
  <2>1. Promise!Ask(p)
    BY <1>1, <1>2, <1>3 DEF Begin, Promise!Ask
  <2> QED
    BY <2>1 DEF Promise!CacheNext
<1>4. CASE CheckHas(p) \/ PutTemp(p)
  BY <1>1, <1>2, <1>4 DEF CheckHas, PutTemp, Promise!cacheVars
<1>5. CASE FetchBody(p) /\ pc'[p] # "idle"
  BY <1>1, <1>2, <1>5 DEF FetchBody, Reply, Promise!cacheVars
<1> QED
  BY <1>3, <1>4, <1>5

\* A request that stores nothing is answered with its blob, nothing, or a part of a
\* file that is there.
LEMMA PromiseAnswer ==
  ASSUME SafeInv, NEW p \in Procs,
         (FetchBody(p) /\ pc'[p] = "idle") \/ PutError(p) \/ OpenCached(p)
  PROVE  Promise!Answer(p)
<1>1. /\ pc \in [Procs -> {"idle", "has", "open", "fetch", "put", "commit", "evict"}]
      /\ req \in [Procs -> Blobs]
      /\ body \in [Procs -> Blobs \union {NoFile, Torn}]
      /\ disk[req[p]] \in {NoFile, req[p]}
      /\ Holding
  BY DEF SafeInv, TypeOK, DiskVerified
<1>2. /\ disk' = disk /\ gen' = gen
      /\ stores'[gen'].quota = stores[gen].quota /\ stores'[gen'].vain = stores[gen].vain
  <2>1. disk' = disk
    BY DEF FetchBody, PutError, OpenCached
  <2> QED
    BY <2>1, PromiseLimit
<1>3. PICK a \in {req[p], NoFile, Torn} :
        /\ Reply(p, a) /\ req' = req /\ pc[p] \notin {"idle", "evict"}
        /\ a \in {req[p], NoFile} \/ req[p] \in Files(disk)
  BY <1>1 DEF FetchBody, Verified, PutError, OpenCached, Reply, Holding, Files
<1>4. Promise!Reply(p, a)
  BY <1>1, <1>2, <1>3 DEF Promise!Reply, Reply
<1>5. /\ {q \in Procs : pc'[q] = "evict"} = {q \in Procs : pc[q] = "evict"}
      /\ p \notin {q \in Procs : pc[q] = "evict"}
  BY <1>1, <1>3 DEF Reply
<1>6. \/ Promise!Reply(p, req[p])
      \/ Promise!Reply(p, NoFile)
      \/ req[p] \in Files(disk) /\ Promise!Reply(p, Torn)
  BY <1>3, <1>4 DEF Promise!Reply
<1> QED
  BY <1>2, <1>5, <1>6 DEF Promise!Answer

\* A rename adds the blob; no other request of an unshared cache makes room then.
LEMMA PromiseRename ==
  ASSUME AloneInv, NEW p \in Procs, PutRename(p)
  PROVE  Promise!Keep(p)
<1>1. /\ pc \in [Procs -> {"idle", "has", "open", "fetch", "put", "commit", "evict"}]
      /\ req \in [Procs -> Blobs] /\ disk \in [Blobs -> Blobs \union {NoFile, Torn}]
      /\ body[p] = req[p] /\ req[p] # NoFile /\ gen \in 1..MaxGen /\ MaxGen \in Nat
  BY BlobStoreAssumption DEF AloneInv, SafeInv, TypeOK, Holding, PutRename, Gens
<1>2. /\ gen' = gen /\ stores'[gen'].quota = stores[gen].quota
      /\ stores'[gen'].vain = stores[gen].vain
  BY PromiseLimit DEF AloneInv
<1>3. Files(disk') = Files(disk) \union {req[p]}
  BY <1>1 DEF PutRename, Files
<1>4. gen > 1 \/ {q \in Procs : pc[q] = "evict"} = {}
  <2>1. CASE gen = 1
    <3>1. \A q \in Procs : be[q] = 1
      BY <2>1 DEF AloneInv, SteadyInv, OneStore
    <3> QED
      BY <3>1 DEF PutRename, Locked
  <2> QED
    BY <1>1, <2>1
<1>5. /\ pc[p] = "commit" /\ pc' = [pc EXCEPT ![p] = "evict"] /\ req' = req /\ body' = body
  BY DEF PutRename
<1>6. /\ {q \in Procs : pc'[q] = "evict"} = {q \in Procs : pc[q] = "evict"} \union {p}
      /\ {q \in Procs : pc'[q] # "idle"} = {q \in Procs : pc[q] # "idle"}
      /\ [q \in Procs |-> IF pc'[q] = "idle" THEN body'[q] ELSE NoFile]
           = [q \in Procs |-> IF pc[q] = "idle" THEN body[q] ELSE NoFile]
      /\ p \in {q \in Procs : pc[q] # "idle"} \ {q \in Procs : pc[q] = "evict"}
  BY <1>1, <1>5
<1> QED
  BY <1>2, <1>3, <1>4, <1>5, <1>6 DEF Promise!Keep

\* The eviction only drops blobs, or notes that it could not.
LEMMA PromiseEvict ==
  ASSUME SafeInv, NEW p \in Procs, EvictOne(p) \/ EvictFails(p)
  PROVE  Promise!MakeRoom
<1>1. /\ be[p] \in Gens /\ gen \in Gens /\ stores \in [Gens -> Store]
      /\ disk \in [Blobs -> Blobs \union {NoFile, Torn}]
      /\ Bytes(stores[be[p]].sizes) <= stores[be[p]].used
  BY DEF SafeInv, TypeOK, Charged
<1>2. PICK st \in Store : st = stores[be[p]]
  BY <1>1
<1>3. /\ pc[p] = "evict" /\ pc' = pc /\ req' = req /\ body' = body /\ gen' = gen
  BY DEF EvictOne, EvictFails
<1>4. CASE EvictOne(p)
  <2>1. PICK b \in Blobs : /\ disk' = [disk EXCEPT ![b] = NoFile]
                           /\ stores' = [stores EXCEPT ![be[p]] = Evicted(st, b)]
    BY <1>2, <1>4 DEF EvictOne, Oldest, Store
  <2>2. PICK t \in Store : t = Evicted(st, b) /\ t.quota = st.quota /\ t.vain = st.vain
    <3>1. Bytes(st.sizes) <= st.used
      BY <1>1, <1>2
    <3>2. /\ Evicted(st, b) \in Store /\ Evicted(st, b).quota = st.quota
          /\ Evicted(st, b).vain = st.vain
      BY <3>1, EvictedStore
    <3> QED
      BY <3>2
  <2>3. stores'[gen].quota = stores[gen].quota /\ stores'[gen].vain = stores[gen].vain
    BY <1>1, <1>2, <2>1, <2>2
  <2>4. Files(disk') \subseteq Files(disk)
    BY <1>1, <2>1 DEF Files
  <2> QED
    BY <1>3, <2>3, <2>4 DEF Promise!MakeRoom
<1>5. CASE EvictFails(p)
  <2>1. PICK b \in Blobs : stores' = [stores EXCEPT ![be[p]] = [st EXCEPT !.vain = @ \union {b}]]
    BY <1>2, <1>5 DEF EvictFails, Oldest, Store
  <2>2. PICK V \in SUBSET Blobs : V = st.vain \union {b}
    BY DEF Store
  <2>3. PICK t \in Store : t = [st EXCEPT !.vain = V] /\ t.quota = st.quota /\ t.vain = V
    BY VainStore
  <2>4. stores' = [stores EXCEPT ![be[p]] = t]
    BY <2>1, <2>2, <2>3
  <2>5. stores'[gen].quota = stores[gen].quota /\ stores[gen].vain \subseteq stores'[gen].vain
    BY <1>1, <1>2, <2>2, <2>3, <2>4
  <2>6. disk' = disk
    BY <1>5 DEF EvictFails
  <2> QED
    BY <1>3, <2>5, <2>6 DEF Promise!MakeRoom
<1> QED
  BY <1>4, <1>5

\* When a Put returns, the charge, and so the disk, fits the quota, or every blob
\* was tried in vain.
LEMMA PromiseSettle ==
  ASSUME AloneInv, NEW p \in Procs, EvictDone(p)
  PROVE  Promise!Settle(p)
<1>1. /\ pc \in [Procs -> {"idle", "has", "open", "fetch", "put", "commit", "evict"}]
      /\ req \in [Procs -> Blobs] /\ body \in [Procs -> Blobs \union {NoFile, Torn}]
      /\ body[p] = req[p] /\ pc[p] = "evict"
      /\ gen \in Gens /\ be[p] \in Gens /\ stores \in [Gens -> Store]
      /\ gen \in 1..MaxGen /\ MaxGen \in Nat
  BY BlobStoreAssumption DEF AloneInv, SafeInv, TypeOK, Holding, EvictDone, Gens
<1>2. PICK st \in Store : st = stores[be[p]]
  BY <1>1
<1>3. PICK t \in Store : t = [st EXCEPT !.vain = {}] /\ t.quota = st.quota /\ t.vain = {}
  BY VainStore
<1>4. stores' = [stores EXCEPT ![be[p]] = t] /\ disk' = disk /\ gen' = gen /\ req' = req
  BY <1>1, <1>2, <1>3 DEF EvictDone
<1>5. stores'[gen].quota = stores[gen].quota
  BY <1>1, <1>2, <1>3, <1>4
<1>6. gen > 1 \/ Bytes(Files(disk)) <= stores[gen].quota \/ Files(disk) \subseteq stores[gen].vain
  <2>1. ASSUME gen = 1 PROVE Bytes(Files(disk)) <= stores[gen].quota \/ Files(disk) \subseteq stores[gen].vain
    <3>1. be[p] = 1 /\ st.uses = Files(disk) /\ Bytes(Files(disk)) <= st.used
      BY <1>2, <2>1 DEF AloneInv, SteadyInv, OneStore, IndexIsDisk, ChargeCovers
    <3>2. st.used <= st.quota \/ st.uses \subseteq st.vain
      BY <1>2 DEF EvictDone
    <3>3. Bytes(Files(disk)) \in Nat /\ st.used \in Nat /\ st.quota \in Nat
      BY BytesNat DEF Store
    <3>4. CASE st.used <= st.quota
      <4>1. Bytes(Files(disk)) <= st.quota
        BY <3>1, <3>3, <3>4
      <4> QED
        BY <1>2, <2>1, <3>1, <4>1
    <3>5. CASE st.uses \subseteq st.vain
      BY <1>2, <2>1, <3>1, <3>5
    <3> QED
      BY <3>2, <3>4, <3>5
  <2> QED
    BY <1>1, <2>1
<1>7. gen > 1 \/ stores'[gen].vain = {}
  <2>1. ASSUME gen = 1 PROVE stores'[gen].vain = {}
    <3>1. be[p] = gen
      BY <2>1 DEF AloneInv, SteadyInv, OneStore
    <3> QED
      BY <1>1, <1>3, <1>4, <3>1
  <2> QED
    BY <1>1, <2>1
<1>8. Reply(p, req[p])
  BY <1>1 DEF EvictDone
<1>9. Promise!Reply(p, req[p])
  BY <1>1, <1>4, <1>5, <1>8 DEF Promise!Reply, Reply
<1>10. /\ p \in {q \in Procs : pc[q] = "evict"}
       /\ {q \in Procs : pc'[q] = "evict"} = {q \in Procs : pc[q] = "evict"} \ {p}
  BY <1>1, <1>8 DEF Reply
<1> QED
  BY <1>4, <1>6, <1>7, <1>9, <1>10 DEF Promise!Settle

\* A crash and restart is a restart of the promised cache, a reload shares it.
LEMMA PromiseProcess ==
  ASSUME SafeInv, Crash \/ Reload
  PROVE  Promise!RestartCache \/ Promise!Share
<1>1. Files(disk) \in SUBSET Blobs /\ 1 \in Gens /\ gen \in 1..MaxGen /\ MaxGen \in Nat
  BY BlobStoreAssumption DEF SafeInv, TypeOK, Files, Gens
<1>2. CASE Crash
  <2>1. PICK q \in Quotas :
          stores' = [g \in Gens |-> IF g = 1 THEN NewStore(Files(disk), q) ELSE NoStore]
    BY <1>2 DEF Crash
  <2>2. stores'[gen'].quota = q /\ stores'[gen'].vain = {} /\ gen' = 1
    BY <1>1, <1>2, <2>1, NewStoreStore DEF Crash
  <2> QED
    BY <1>2, <2>2 DEF Crash, Promise!RestartCache
<1>3. CASE Reload
  <2>1. PICK q \in Quotas : stores' = [stores EXCEPT ![gen + 1] = NewStore(Files(disk), q)]
    BY <1>3 DEF Reload
  <2>2. gen + 1 \in Gens /\ stores \in [Gens -> Store]
    BY <1>1, <1>3 DEF Reload, Gens, SafeInv, TypeOK
  <2>3. stores'[gen'].quota = q /\ stores'[gen'].vain = {} /\ gen' > 1
    <3>1. NewStore(Files(disk), q).quota = q /\ NewStore(Files(disk), q).vain = {}
      BY <1>1, NewStoreStore
    <3>2. gen' = gen + 1
      BY <1>3 DEF Reload
    <3>3. stores'[gen + 1] = NewStore(Files(disk), q)
      BY <2>1, <2>2
    <3> QED
      BY <1>1, <3>1, <3>2, <3>3
  <2> QED
    BY <1>3, <2>3 DEF Reload, Promise!Share
<1> QED
  BY <1>2, <1>3

\* Every step of the store is a step of the promised cache or changes nothing of it.
LEMMA PromiseStep == AloneInv /\ [Next]_vars => [Promise!CacheNext]_(Promise!cacheVars)
<1> SUFFICES ASSUME AloneInv, [Next]_vars
             PROVE  [Promise!CacheNext]_(Promise!cacheVars)
  OBVIOUS
<1>0. SafeInv
  BY DEF AloneInv
<1>1. ASSUME NEW p \in Procs, Serve(p) PROVE [Promise!CacheNext]_(Promise!cacheVars)
  BY <1>0, <1>1, PromiseServe, PromiseAnswer, PromiseRename, PromiseEvict, PromiseSettle
     DEF Serve, Promise!CacheNext
<1>2. CASE Crash \/ Reload
  BY <1>0, <1>2, PromiseProcess DEF Promise!CacheNext
<1>3. CASE UNCHANGED vars
  BY <1>3 DEF vars, Promise!cacheVars
<1> QED
  BY <1>1, <1>2, <1>3 DEF Next, SteadyNext

\* The blob cache keeps the promise of VerifiedCache across crashes and reloads:
\* requests are answered with their blob or nothing (or, if a read fails, with a part
\* of it), and a Put is over only when there is room, until a reload.
THEOREM BlobStoreImplementsVerifiedCache == Spec => ImplementsVerifiedCache
  BY AloneAlways, PromiseInit, PromiseStep, PTL
     DEF Spec, ImplementsVerifiedCache, Promise!CacheSpec
=============================================================================
