------------------------ MODULE BlossomServerProofs ------------------------
(***************************************************************************)
(* Proofs about BlossomServer, for any blobs, handlers, quota and caps.    *)
(* With write errors and a crash at any point: types, the lock, that       *)
(* nothing is overcharged and that what was accepted stays whole; and,     *)
(* until a write fails, the accounting and the quota.                      *)
(***************************************************************************)
EXTENDS BlossomServer, FiniteSetTheorems, TLAPS

Lengths == [Blobs -> 0..MaxBytes]

\* The byte sets are finite, so Stored is a number.
LEMMA StoredNat == \A f : IsFiniteSet(ByteSet(f)) /\ Stored(f) \in Nat
<1> TAKE f
<1>1. IsFiniteSet(Blobs) /\ IsFiniteSet(1..MaxBytes)
  BY FS_Interval, BlossomAssumption
<1>2. IsFiniteSet(Blobs \X (1..MaxBytes))
  BY <1>1, FS_Product
<1>3. ByteSet(f) \subseteq Blobs \X (1..MaxBytes)
  BY DEF ByteSet
<1> QED
  BY <1>2, <1>3, FS_Subset, FS_CardinalityType DEF Stored

\* The directory's bytes are those of some files and those of the others.
LEMMA StoredSplit ==
  ASSUME NEW f \in Lengths, NEW S
  PROVE  Stored(f) = Stored(Only(f, S)) + Stored(Only(f, Blobs \ S))
<1> DEFINE X == ByteSet(Only(f, S))
           Y == ByteSet(Only(f, Blobs \ S))
<1>1. ByteSet(f) = X \union Y
  BY BlossomAssumption DEF ByteSet, Only, Lengths
<1>2. X \intersect Y = {}
  BY BlossomAssumption DEF ByteSet, Only, Lengths
<1>3. IsFiniteSet(X) /\ IsFiniteSet(Y)
  BY StoredNat
<1> HIDE DEF X, Y
<1>4. Cardinality(X \union Y) = Cardinality(X) + Cardinality(Y) - Cardinality(X \intersect Y)
  BY <1>3, FS_Union
<1>5. Cardinality(X \intersect Y) = 0
  BY <1>2, FS_EmptySet
<1>6. Cardinality(X) \in Nat /\ Cardinality(Y) \in Nat
  BY <1>3, FS_CardinalityType
<1>7. Cardinality(X \union Y) = Cardinality(X) + Cardinality(Y)
  BY <1>4, <1>5, <1>6
<1> QED
  BY <1>1, <1>7, Zenon DEF Stored, X, Y

\* One file's bytes are its length.
LEMMA StoredOne ==
  ASSUME NEW f \in Lengths, NEW b \in Blobs
  PROVE  Stored(Only(f, {b})) = f[b]
<1>1. f[b] \in 0..MaxBytes /\ MaxBytes \in Nat /\ f[b] \in Nat
  BY BlossomAssumption DEF Lengths
<1>2. ByteSet(Only(f, {b})) = {b} \X (1..f[b])
  BY <1>1 DEF ByteSet, Only, Lengths
<1>3. IsFiniteSet({b}) /\ Cardinality({b}) = 1
  BY FS_Singleton
<1>4. IsFiniteSet(1..f[b]) /\ Cardinality(1..f[b]) = f[b]
  <2>1. PICK n \in Nat : n = f[b]
    BY <1>1
  <2>2. IsFiniteSet(1..n) /\ Cardinality(1..n) = IF 1 > n THEN 0 ELSE n - 1 + 1
    BY FS_Interval
  <2>3. Cardinality(1..n) = n
    BY <2>2
  <2> QED
    BY <2>1, <2>2, <2>3
<1>5. Cardinality({b} \X (1..f[b])) = Cardinality({b}) * Cardinality(1..f[b])
  BY <1>3, <1>4, FS_Product
<1>6. Stored(Only(f, {b})) = Cardinality({b} \X (1..f[b]))
  BY <1>2, Zenon DEF Stored
<1> QED
  BY <1>1, <1>3, <1>4, <1>5, <1>6

\* Changing one file's length changes the total by as much.
LEMMA StoredUpdate ==
  ASSUME NEW f \in Lengths, NEW b \in Blobs, NEW k \in 0..MaxBytes
  PROVE  Stored([f EXCEPT ![b] = k]) + f[b] = Stored(f) + k
<1> DEFINE g == [f EXCEPT ![b] = k]
<1>1. g \in Lengths /\ g[b] = k
  BY DEF Lengths
<1>2. Only(g, Blobs \ {b}) = Only(f, Blobs \ {b})
  BY DEF Only, Lengths
<1> HIDE DEF g
<1>3. Stored(f) = f[b] + Stored(Only(f, Blobs \ {b}))
  BY StoredSplit, StoredOne
<1>4. Stored(g) = k + Stored(Only(g, Blobs \ {b}))
  BY <1>1, StoredSplit, StoredOne
<1>5. Stored(Only(g, Blobs \ {b})) = Stored(Only(f, Blobs \ {b}))
  BY <1>2, Zenon
<1>6. f[b] \in Nat /\ k \in Nat /\ Stored(Only(f, Blobs \ {b})) \in Nat
  BY StoredNat, BlossomAssumption DEF Lengths
<1>7. Stored(g) + f[b] = Stored(f) + k
  BY <1>3, <1>4, <1>5, <1>6
<1> QED
  BY <1>7 DEF g

\* An empty directory holds nothing.
LEMMA StoredNone == Stored([b \in Blobs |-> 0]) = 0
<1>1. ByteSet([b \in Blobs |-> 0]) = {}
  BY BlossomAssumption DEF ByteSet
<1> QED
  BY <1>1, FS_EmptySet, Zenon DEF Stored

----------------------------------------------------------------------------
(* With write errors and crashes.                                          *)

LockInv == TypeOK /\ LockHeldByWriter

\* Nobody writes at the start.
LEMMA LockInit == Init => LockInv
<1> SUFFICES ASSUME Init PROVE LockInv
  OBVIOUS
<1>1. failed \in BOOLEAN
  BY Zenon DEF Init
<1>2. /\ present \subseteq Blobs /\ len \in [Blobs -> 0..MaxBytes] /\ old \subseteq present
      /\ used \in Nat /\ lock \in Procs \union {NoProc} /\ cut \subseteq Blobs /\ kept \subseteq Blobs
      /\ pc \in [Procs -> {"idle", "lock", "write"}] /\ req \in [Procs -> Blobs]
      /\ reply \in [Procs -> Replies]
  BY BlossomAssumption DEF Init, Replies
<1>3. LockHeldByWriter
  BY BlossomAssumption DEF Init, LockHeldByWriter
<1> QED
  BY <1>1, <1>2, <1>3 DEF LockInv, TypeOK

\* Every step keeps the writer and the holder of the mutex the same.
LEMMA LockStep == LockInv /\ [Next]_vars => LockInv'
<1> SUFFICES ASSUME LockInv, [Next]_vars PROVE LockInv'
  OBVIOUS
<1> USE DEF LockInv, history
<1>1. ASSUME NEW p \in Procs, Upload(p) PROVE LockInv'
  BY <1>1 DEF Upload, Reply, TypeOK, LockHeldByWriter, Replies
<1>2. ASSUME NEW p \in Procs, Download(p) PROVE LockInv'
  BY <1>2, BlossomAssumption DEF Download, TypeOK, LockHeldByWriter, Replies
<1>3. ASSUME NEW p \in Procs, PutExists(p) \/ PutRefused(p) PROVE LockInv'
  <2>0. PICK r \in Replies : reply' = [reply EXCEPT ![p] = r]
    BY <1>3 DEF PutExists, PutRefused, Reply, Replies
  <2>1. TypeOK'
    BY <1>3, <2>0 DEF PutExists, PutRefused, Reply, TypeOK
  <2>2. LockHeldByWriter'
    BY <1>3 DEF PutExists, PutRefused, Reply, TypeOK, LockHeldByWriter
  <2> QED
    BY <2>1, <2>2
<1>4. ASSUME NEW p \in Procs, PutCreate(p) PROVE LockInv'
  <2>1. PICK k \in 0..(Size[req[p]] - 1) : len' = [len EXCEPT ![req[p]] = k]
    BY <1>4 DEF PutCreate
  <2>2. req[p] \in Blobs /\ k \in 0..MaxBytes
    <3>1. req[p] \in Blobs
      BY DEF TypeOK
    <3>2. Size[req[p]] \in 1..MaxBytes /\ MaxBytes \in Nat
      BY <3>1, BlossomAssumption
    <3> QED
      BY <3>1, <3>2
  <2>3. TypeOK'
    BY <1>4, <2>1, <2>2 DEF PutCreate, TypeOK
  <2>4. LockHeldByWriter'
    BY <1>4, BlossomAssumption DEF PutCreate, TypeOK, LockHeldByWriter
  <2> QED
    BY <2>3, <2>4
<1>5. ASSUME NEW p \in Procs, PutFinish(p) \/ PutWriteError(p) PROVE LockInv'
  <2>1. req[p] \in Blobs /\ Size[req[p]] \in 0..MaxBytes /\ Size[req[p]] \in Nat
    BY BlossomAssumption DEF TypeOK
  <2>2. failed' \in BOOLEAN
    BY <1>5, Zenon DEF PutFinish, PutWriteError, TypeOK
  <2>3. /\ present' \subseteq Blobs /\ len' \in [Blobs -> 0..MaxBytes] /\ old' \subseteq present'
        /\ used' \in Nat /\ lock' \in Procs \union {NoProc} /\ cut' \subseteq Blobs
        /\ kept' \subseteq Blobs
        /\ pc' \in [Procs -> {"idle", "lock", "write"}] /\ req' \in [Procs -> Blobs]
        /\ reply' \in [Procs -> Replies]
    BY <1>5, <2>1 DEF PutFinish, PutWriteError, Reply, TypeOK, Replies
  <2>4. TypeOK'
    BY <2>2, <2>3 DEF TypeOK
  <2>5. LockHeldByWriter'
    BY <1>5, BlossomAssumption DEF PutFinish, PutWriteError, Reply, TypeOK, LockHeldByWriter
  <2> QED
    BY <2>4, <2>5
<1>6. ASSUME NEW b \in Blobs, Age(b) PROVE LockInv'
  BY <1>6 DEF Age, TypeOK, LockHeldByWriter
<1>7. ASSUME Restart PROVE LockInv'
  <2> DEFINE S == Swept(present, old)
  <2>1. len \in Lengths
    BY DEF TypeOK, Lengths
  <2>2. used' \in Nat
    <3>1. Stored(len) = Stored(Only(len, S)) + Stored(Only(len, Blobs \ S))
      BY <2>1, StoredSplit
    <3>2. Stored(Only(len, S)) \in Nat /\ Stored(Only(len, Blobs \ S)) \in Nat
      BY StoredNat
    <3>3. used' = Stored(len) - Stored(Only(len, S))
      BY <1>7 DEF Restart, StartUsed
    <3> QED
      BY <3>1, <3>2, <3>3
  <2>3. len' \in [Blobs -> 0..MaxBytes]
    BY <1>7, BlossomAssumption DEF Restart, Only, TypeOK
  <2>4. TypeOK'
    BY <1>7, <2>2, <2>3 DEF Restart, TypeOK, Replies
  <2> QED
    BY <1>7, <2>4, BlossomAssumption DEF Restart, LockHeldByWriter
<1>8. ASSUME UNCHANGED vars PROVE LockInv'
  BY <1>8 DEF vars, TypeOK, LockHeldByWriter
<1> QED
  BY <1>1, <1>2, <1>3, <1>4, <1>5, <1>6, <1>7, <1>8 DEF Next, Handle

\* The writer always holds the mutex.
LEMMA LockAlways == Spec => []LockInv
  BY LockInit, LockStep, PTL DEF Spec

\* The state has its type, whatever writes fail and whenever the process dies.
THEOREM BlossomTypeCorrect == Spec => []TypeOK
<1>1. LockInv => TypeOK
  BY DEF LockInv
<1> QED
  BY <1>1, LockAlways, PTL

\* Writes of blobs never overlap.
THEOREM WritesAreExclusive == Spec => []LockHeldByWriter
<1>1. LockInv => LockHeldByWriter
  BY DEF LockInv
<1> QED
  BY <1>1, LockAlways, PTL

----------------------------------------------------------------------------
(* The accounting, with crashes, until a write fails.                      *)

\* A file that is not there has no bytes.
AbsentIsEmpty == \A b \in Blobs \ present : len[b] = 0

\* The file being written is not yet whole and has its place in the quota.
WriterHasRoom ==
  \A p \in Procs : pc[p] = "write" =>
     /\ req[p] \in present
     /\ len[req[p]] < Size[req[p]]
     /\ Quota > 0 => used + Size[req[p]] <= Quota

UsedWithinQuota == Quota > 0 => used <= Quota

QuotaInv == LockInv /\ AbsentIsEmpty /\ WriterHasRoom /\ UsedWithinQuota /\ Accounted

\* An empty directory is charged nothing.
LEMMA QuotaInit == Init => QuotaInv
<1> SUFFICES ASSUME Init PROVE QuotaInv
  OBVIOUS
<1>1. Accounted
  BY StoredNone DEF Init, Accounted
<1>2. AbsentIsEmpty /\ WriterHasRoom /\ UsedWithinQuota
  BY BlossomAssumption DEF Init, AbsentIsEmpty, WriterHasRoom, UsedWithinQuota
<1> QED
  BY <1>1, <1>2, LockInit DEF QuotaInv

\* Steps that write nothing keep the accounting.
LEMMA QuotaOther ==
  ASSUME QuotaInv, LockInv',
         \/ \E p \in Procs : Upload(p) \/ Download(p) \/ PutExists(p) \/ PutRefused(p)
         \/ \E b \in Blobs : Age(b)
         \/ UNCHANGED vars
  PROVE  QuotaInv'
<1>1. /\ present' = present /\ len' = len /\ used' = used /\ lock' = lock
      /\ lock # NoProc => req'[lock] = req[lock]
      /\ \A p \in Procs : pc'[p] = "write" => pc[p] = "write" /\ req'[p] = req[p]
  BY DEF Upload, Download, PutExists, PutRefused, Age, Reply, vars, QuotaInv, LockInv, TypeOK,
         LockHeldByWriter
<1>2. Accounted'
  BY <1>1 DEF QuotaInv, Accounted
<1>3. AbsentIsEmpty' /\ WriterHasRoom' /\ UsedWithinQuota'
  BY <1>1 DEF QuotaInv, AbsentIsEmpty, WriterHasRoom, UsedWithinQuota
<1> QED
  BY <1>2, <1>3 DEF QuotaInv

\* A new file is counted as the one being written.
LEMMA QuotaCreate == ASSUME QuotaInv, LockInv', NEW p \in Procs, PutCreate(p) PROVE QuotaInv'
<1>1. PICK k \in 0..(Size[req[p]] - 1) : len' = [len EXCEPT ![req[p]] = k]
  BY DEF PutCreate
<1>2. /\ req[p] \in Blobs /\ len \in Lengths /\ len[req[p]] = 0
      /\ lock = NoProc /\ lock' = p /\ p # NoProc /\ req' = req /\ used' = used
      /\ pc' = [pc EXCEPT ![p] = "write"] /\ pc \in [Procs -> {"idle", "lock", "write"}]
      /\ present' = present \union {req[p]}
      /\ used \in Nat
  BY BlossomAssumption DEF PutCreate, QuotaInv, LockInv, TypeOK, AbsentIsEmpty, Lengths
<1>3. Size[req[p]] \in 1..MaxBytes /\ MaxBytes \in Nat /\ Quota \in Nat
  BY <1>2, BlossomAssumption
<1>4. k \in Nat /\ k \in 0..MaxBytes /\ k < Size[req[p]]
  BY <1>3
<1>5. Stored(len') + len[req[p]] = Stored(len) + k
  BY <1>1, <1>2, <1>4, StoredUpdate
<1>6. len'[req[p]] = k
  BY <1>1, <1>2 DEF Lengths
<1>7. Accounted'
  <2>1. used = Stored(len)
    BY <1>2 DEF QuotaInv, Accounted
  <2>2. Stored(len) \in Nat /\ Stored(len') \in Nat
    BY StoredNat
  <2>3. used + k = Stored(len')
    BY <1>2, <1>4, <1>5, <2>1, <2>2
  <2> QED
    BY <1>2, <1>6, <2>3 DEF Accounted
<1>8. AbsentIsEmpty'
  BY <1>1, <1>2 DEF QuotaInv, AbsentIsEmpty, Lengths
<1>9. WriterHasRoom'
  <2>1. \A q \in Procs : pc'[q] = "write" => q = p
    BY <1>2 DEF LockInv, LockHeldByWriter
  <2>2. Quota > 0 => used + Size[req[p]] <= Quota
    BY <1>2, <1>3 DEF PutCreate, Exceeds
  <2> QED
    BY <1>2, <1>4, <1>6, <2>1, <2>2 DEF WriterHasRoom
<1>10. UsedWithinQuota'
  BY <1>2 DEF QuotaInv, UsedWithinQuota
<1> QED
  BY <1>7, <1>8, <1>9, <1>10 DEF QuotaInv

\* The finished file is charged in full.
LEMMA QuotaFinish == ASSUME QuotaInv, LockInv', NEW p \in Procs, PutFinish(p) PROVE QuotaInv'
<1>1. /\ req[p] \in Blobs /\ len \in Lengths /\ pc[p] = "write" /\ lock = p /\ p # NoProc
      /\ lock' = NoProc /\ req' = req /\ used' = used + Size[req[p]] /\ present' = present
      /\ len' = [len EXCEPT ![req[p]] = Size[req[p]]]
      /\ pc' = [pc EXCEPT ![p] = "idle"] /\ pc \in [Procs -> {"idle", "lock", "write"}]
      /\ used \in Nat
  BY BlossomAssumption DEF PutFinish, Reply, QuotaInv, LockInv, TypeOK, LockHeldByWriter, Lengths
<1>2. Size[req[p]] \in 1..MaxBytes /\ MaxBytes \in Nat /\ Quota \in Nat
  BY <1>1, BlossomAssumption
<1>3. Size[req[p]] \in 0..MaxBytes /\ Size[req[p]] \in Nat /\ len[req[p]] \in Nat
  BY <1>1, <1>2 DEF Lengths
<1>4. Stored(len') + len[req[p]] = Stored(len) + Size[req[p]]
  BY <1>1, <1>3, StoredUpdate
<1>5. Accounted'
  <2>1. used + len[req[p]] = Stored(len)
    BY <1>1 DEF QuotaInv, Accounted
  <2>2. Stored(len) \in Nat /\ Stored(len') \in Nat
    BY StoredNat
  <2>3. used + Size[req[p]] = Stored(len')
    BY <1>1, <1>3, <1>4, <2>1, <2>2
  <2>4. used' + 0 = Stored(len')
    BY <1>1, <1>3, <2>3
  <2> QED
    BY <1>1, <2>4 DEF Accounted
<1>6. AbsentIsEmpty'
  <2>1. req[p] \in present
    BY <1>1 DEF QuotaInv, WriterHasRoom
  <2> QED
    BY <1>1, <2>1 DEF QuotaInv, AbsentIsEmpty, Lengths
<1>7. WriterHasRoom'
  <2>1. \A q \in Procs : pc'[q] # "write"
    BY <1>1, BlossomAssumption DEF LockInv, LockHeldByWriter
  <2> QED
    BY <2>1 DEF WriterHasRoom
<1>8. UsedWithinQuota'
  BY <1>1 DEF QuotaInv, WriterHasRoom, UsedWithinQuota
<1> QED
  BY <1>5, <1>6, <1>7, <1>8 DEF QuotaInv

\* The charge and the room kept for the file being written bound the directory.
LEMMA StoredWithinQuota == QuotaInv /\ Quota > 0 => Stored(len) <= Quota
<1> SUFFICES ASSUME QuotaInv, Quota > 0 PROVE Stored(len) <= Quota
  OBVIOUS
<1>1. used \in Nat /\ Quota \in Nat
  BY BlossomAssumption DEF QuotaInv, LockInv, TypeOK
<1>2. CASE lock = NoProc
  <2>1. used + 0 = Stored(len)
    BY <1>2 DEF QuotaInv, Accounted
  <2> QED
    BY <1>1, <2>1 DEF QuotaInv, UsedWithinQuota
<1>3. CASE lock # NoProc
  <2>1. lock \in Procs /\ pc[lock] = "write" /\ req[lock] \in Blobs
    BY <1>3 DEF QuotaInv, LockInv, TypeOK, LockHeldByWriter
  <2>2. /\ len[req[lock]] < Size[req[lock]]
        /\ used + Size[req[lock]] <= Quota
    BY <2>1 DEF QuotaInv, WriterHasRoom
  <2>3. len[req[lock]] \in Nat /\ Size[req[lock]] \in Nat
    BY <2>1, BlossomAssumption DEF QuotaInv, LockInv, TypeOK
  <2>4. used + len[req[lock]] = Stored(len)
    BY <1>3 DEF QuotaInv, Accounted
  <2> QED
    BY <1>1, <2>2, <2>3, <2>4
<1> QED
  BY <1>2, <1>3

\* A restart charges every file it finds, torn ones at their length, and gives
\* back what the sweep removes.
LEMMA QuotaRestart == ASSUME QuotaInv, LockInv', Restart PROVE QuotaInv'
<1> DEFINE S == Swept(present, old)
<1>1. /\ len \in Lengths /\ present' = present \ S /\ len' = Only(len, present \ S)
      /\ used' = Stored(len) - Stored(Only(len, S)) /\ lock' = NoProc
      /\ pc' = [p \in Procs |-> "idle"]
  BY DEF QuotaInv, LockInv, TypeOK, Lengths, Restart, StartUsed
<1>2. len' = Only(len, Blobs \ S)
  BY <1>1 DEF Only, QuotaInv, AbsentIsEmpty
<1>3. Stored(len') = Stored(Only(len, Blobs \ S))
  BY <1>2, Zenon
<1>4. Stored(len) = Stored(Only(len, S)) + Stored(Only(len, Blobs \ S))
  BY <1>1, StoredSplit
<1>5. Stored(len) \in Nat /\ Stored(Only(len, S)) \in Nat /\ Stored(Only(len, Blobs \ S)) \in Nat
  BY StoredNat
<1>6. used' = Stored(len') /\ used' <= Stored(len) /\ used' \in Nat
  BY <1>1, <1>3, <1>4, <1>5
<1>7. Accounted'
  <2>1. used' + 0 = Stored(len')
    BY <1>6
  <2> QED
    BY <1>1, <2>1 DEF Accounted
<1>8. AbsentIsEmpty' /\ WriterHasRoom'
  BY <1>1 DEF AbsentIsEmpty, WriterHasRoom, Only
<1>9. UsedWithinQuota'
  <2>1. Quota > 0 => Stored(len) <= Quota
    BY StoredWithinQuota
  <2> QED
    BY <1>5, <1>6, <2>1, BlossomAssumption DEF UsedWithinQuota
<1> QED
  BY <1>7, <1>8, <1>9 DEF QuotaInv

\* Until a write fails the charge is right.
SoundInv == LockInv /\ (~ failed => QuotaInv)

\* Every step but a failing write, a crash in the middle of a write included,
\* keeps the charge right.
LEMMA SoundStep == SoundInv /\ [Next]_vars => SoundInv'
<1> SUFFICES ASSUME SoundInv, [Next]_vars PROVE SoundInv'
  OBVIOUS
<1>1. LockInv'
  BY LockStep DEF SoundInv
<1>2. ASSUME ~ failed' PROVE QuotaInv'
  <2>1. ~ failed /\ ~ \E p \in Procs : PutWriteError(p)
    BY <1>2 DEF Next, Handle, Upload, Download, PutExists, PutRefused, PutCreate, PutFinish,
                PutWriteError, Age, Restart, history, vars
  <2>2. QuotaInv
    BY <2>1 DEF SoundInv
  <2> QED
    BY <1>1, <2>1, <2>2, QuotaOther, QuotaCreate, QuotaFinish, QuotaRestart DEF Next, Handle
<1> QED
  BY <1>1, <1>2 DEF SoundInv

\* Until a write fails the charge is always right and within the quota.
LEMMA SoundAlways == Spec => []SoundInv
<1>1. Init => SoundInv
  BY LockInit, QuotaInit DEF SoundInv
<1> QED
  BY <1>1, SoundStep, PTL DEF Spec

\* However often the process dies, Used is what the directory holds, until a
\* write fails.
THEOREM UsedMatchesDirectory == Spec => []UsedIsStored
<1>1. SoundInv => UsedIsStored
  BY DEF SoundInv, QuotaInv, UsedIsStored
<1> QED
  BY <1>1, SoundAlways, PTL

\* However often the process dies, the directory stays within its quota, until a
\* write fails.
THEOREM BlossomQuotaKept == Spec => []WithinQuota
<1>1. SoundInv => WithinQuota
  BY StoredWithinQuota DEF SoundInv, WithinQuota
<1> QED
  BY <1>1, SoundAlways, PTL

----------------------------------------------------------------------------
(* The directory, with write errors and crashes: what the charge and the   *)
(* replies say of it.                                                      *)

\* A file that is being written is in the directory.
WriterPresent == \A p \in Procs : pc[p] = "write" => req[p] \in present

DirInv == LockInv /\ AbsentIsEmpty /\ WriterPresent

\* Steps that write nothing leave the directory and its writer alone.
Quiet == \/ \E p \in Procs : Upload(p) \/ Download(p) \/ PutExists(p) \/ PutRefused(p)
         \/ \E b \in Blobs : Age(b)
         \/ UNCHANGED vars

\* What a quiet step keeps.
LEMMA QuietFrame ==
  ASSUME LockInv, Quiet
  PROVE  /\ UNCHANGED <<present, len, used, lock, failed, cut>>
         /\ lock # NoProc => req'[lock] = req[lock]
         /\ \A p \in Procs : pc'[p] = "write" <=> pc[p] = "write"
         /\ \A p \in Procs : pc'[p] = "write" => req'[p] = req[p]
<1> USE DEF LockInv, TypeOK, LockHeldByWriter, history
<1>1. ASSUME NEW p \in Procs, Upload(p) \/ Download(p)
      PROVE  /\ UNCHANGED <<present, len, used, lock, failed, cut>>
             /\ pc[p] # "write" /\ pc'[p] # "write"
             /\ \A q \in Procs : q # p => pc'[q] = pc[q] /\ req'[q] = req[q]
  BY <1>1 DEF Upload, Download, Reply
<1>2. ASSUME \/ \E p \in Procs : PutExists(p) \/ PutRefused(p)
             \/ \E b \in Blobs : Age(b)
             \/ UNCHANGED vars
      PROVE  /\ UNCHANGED <<present, len, used, lock, failed, cut, req>>
             /\ \A p \in Procs : pc'[p] = "write" <=> pc[p] = "write"
  BY <1>2 DEF PutExists, PutRefused, Age, Reply, vars
<1> QED
  BY <1>1, <1>2 DEF Quiet

\* A new file: it was not there, and p alone writes it.
LEMMA CreateFrame ==
  ASSUME DirInv, NEW p \in Procs, PutCreate(p)
  PROVE  /\ req[p] \in Blobs \ present /\ present' = present \union {req[p]}
         /\ lock = NoProc /\ lock' = p /\ p # NoProc
         /\ len \in Lengths /\ len[req[p]] = 0
         /\ \E k \in 0..(Size[req[p]] - 1) : k \in 0..MaxBytes /\ len' = [len EXCEPT ![req[p]] = k]
         /\ UNCHANGED <<used, req, failed, cut, kept>>
         /\ pc' = [pc EXCEPT ![p] = "write"] /\ pc \in [Procs -> {"idle", "lock", "write"}]
         /\ \A q \in Procs : pc[q] # "write"
<1>1. req[p] \in Blobs /\ req[p] \notin present /\ lock = NoProc /\ p # NoProc
  BY BlossomAssumption DEF PutCreate, DirInv, LockInv, TypeOK
<1>2. Size[req[p]] \in 1..MaxBytes /\ MaxBytes \in Nat
  BY <1>1, BlossomAssumption
<1>3. PICK k \in 0..(Size[req[p]] - 1) : len' = [len EXCEPT ![req[p]] = k]
  BY DEF PutCreate
<1>4. k \in 0..MaxBytes
  BY <1>2
<1>5. len \in Lengths /\ len[req[p]] = 0 /\ pc \in [Procs -> {"idle", "lock", "write"}]
  BY <1>1 DEF DirInv, LockInv, TypeOK, AbsentIsEmpty, Lengths
<1>6. \A q \in Procs : pc[q] # "write"
  BY <1>1, BlossomAssumption DEF DirInv, LockInv, LockHeldByWriter
<1> QED
  BY <1>1, <1>3, <1>4, <1>5, <1>6 DEF PutCreate, history

\* A write that ends, well or not: p was the writer, and nobody is after it.
LEMMA EndFrame ==
  ASSUME DirInv, NEW p \in Procs, PutFinish(p) \/ PutWriteError(p)
  PROVE  /\ req[p] \in present /\ req[p] \in Blobs /\ present' = present /\ req' = req
         /\ lock = p /\ p # NoProc /\ lock' = NoProc
         /\ len \in Lengths /\ Size[req[p]] \in 1..MaxBytes /\ MaxBytes \in Nat
         /\ \A q \in Procs : pc'[q] # "write" /\ (pc[q] = "write" => q = p)
<1>1. /\ pc[p] = "write" /\ req[p] \in Blobs /\ len \in Lengths
      /\ present' = present /\ req' = req /\ lock' = NoProc /\ p # NoProc
      /\ pc' = [pc EXCEPT ![p] = "idle"] /\ pc \in [Procs -> {"idle", "lock", "write"}]
  BY BlossomAssumption DEF PutFinish, PutWriteError, Reply, DirInv, LockInv, TypeOK, Lengths
<1>2. lock = p /\ req[p] \in present /\ \A q \in Procs : pc[q] = "write" => q = p
  BY <1>1 DEF DirInv, LockInv, LockHeldByWriter, WriterPresent
<1>3. \A q \in Procs : pc'[q] # "write"
  BY <1>1, <1>2
<1> QED
  BY <1>1, <1>2, <1>3, BlossomAssumption

\* A restart keeps the files that are not swept, with their lengths.
LEMMA RestartFrame ==
  ASSUME DirInv, Restart
  PROVE  LET S == Swept(present, old) IN
         /\ present' = present \ S /\ len' = Only(len, Blobs \ S) /\ len \in Lengths
         /\ used' = Stored(len') /\ lock' = NoProc
         /\ \A p \in Procs : pc'[p] = "idle" /\ reply'[p] = "none"
<1> DEFINE S == Swept(present, old)
<1>1. /\ len \in Lengths /\ present' = present \ S /\ len' = Only(len, present \ S)
      /\ used' = Stored(len) - Stored(Only(len, S)) /\ lock' = NoProc
      /\ \A p \in Procs : pc'[p] = "idle" /\ reply'[p] = "none"
  BY DEF DirInv, LockInv, TypeOK, Lengths, Restart, StartUsed
<1>2. len' = Only(len, Blobs \ S)
  BY <1>1 DEF Only, DirInv, AbsentIsEmpty
<1>3. Stored(len') = Stored(Only(len, Blobs \ S))
  BY <1>2, Zenon
<1>4. Stored(len) = Stored(Only(len, S)) + Stored(Only(len, Blobs \ S))
  BY <1>1, StoredSplit
<1>5. Stored(len) \in Nat /\ Stored(Only(len, S)) \in Nat /\ Stored(Only(len, Blobs \ S)) \in Nat
  BY StoredNat
<1>6. used' = Stored(len')
  BY <1>1, <1>3, <1>4, <1>5
<1> QED
  BY <1>1, <1>2, <1>6

\* Every step but these four is quiet.
LEMMA Steps ==
  ASSUME [Next]_vars
  PROVE  \/ Quiet \/ Restart
         \/ \E p \in Procs : PutCreate(p) \/ PutFinish(p) \/ PutWriteError(p)
  BY DEF Next, Handle, Quiet

\* Every step keeps the directory in order.
LEMMA DirStep == ASSUME DirInv, [Next]_vars PROVE DirInv'
<1>0. LockInv'
  BY LockStep DEF DirInv
<1>1. CASE Quiet
  <2>1. AbsentIsEmpty' /\ WriterPresent'
    BY <1>1, QuietFrame DEF DirInv, AbsentIsEmpty, WriterPresent
  <2> QED
    BY <1>0, <2>1 DEF DirInv
<1>2. ASSUME NEW p \in Procs, PutCreate(p) PROVE DirInv'
  <2>1. AbsentIsEmpty'
    BY <1>2, CreateFrame DEF DirInv, AbsentIsEmpty, Lengths
  <2>2. WriterPresent'
    BY <1>2, CreateFrame DEF WriterPresent
  <2> QED
    BY <1>0, <2>1, <2>2 DEF DirInv
<1>3. ASSUME NEW p \in Procs, PutFinish(p) \/ PutWriteError(p) PROVE DirInv'
  <2>1. \/ len' = len \/ len' = [len EXCEPT ![req[p]] = Size[req[p]]]
    BY <1>3 DEF PutFinish, PutWriteError
  <2>2. AbsentIsEmpty' /\ WriterPresent'
    BY <1>3, <2>1, EndFrame DEF DirInv, AbsentIsEmpty, WriterPresent, Lengths
  <2> QED
    BY <1>0, <2>2 DEF DirInv
<1>4. CASE Restart
  <2>1. AbsentIsEmpty' /\ WriterPresent'
    BY <1>4 DEF Restart, AbsentIsEmpty, WriterPresent, Only
  <2> QED
    BY <1>0, <2>1 DEF DirInv
<1> QED
  BY <1>1, <1>2, <1>3, <1>4, Steps

\* The directory is in order from the start.
LEMMA DirInit == Init => DirInv
<1> SUFFICES ASSUME Init PROVE DirInv
  OBVIOUS
<1>1. AbsentIsEmpty /\ WriterPresent
  BY DEF Init, AbsentIsEmpty, WriterPresent
<1> QED
  BY <1>1, LockInit DEF DirInv

\* The charge, and the file being written, are never more than the directory.
ChargedAtMost == used + (IF lock = NoProc THEN 0 ELSE len[req[lock]]) <= Stored(len)

\* Every step keeps it, a failing write too: what it wrote is not charged.
LEMMA ChargeStep == ASSUME DirInv, DirInv', ChargedAtMost, [Next]_vars PROVE ChargedAtMost'
<1>0. used \in Nat /\ used' \in Nat /\ Stored(len) \in Nat /\ Stored(len') \in Nat
  BY StoredNat DEF DirInv, LockInv, TypeOK
<1>1. CASE Quiet
  BY <1>1, QuietFrame DEF DirInv, ChargedAtMost
<1>2. ASSUME NEW p \in Procs, PutCreate(p) PROVE ChargedAtMost'
  <2>1. PICK k \in 0..MaxBytes : len' = [len EXCEPT ![req[p]] = k]
    BY <1>2, CreateFrame
  <2>2. /\ req[p] \in Blobs /\ len \in Lengths /\ len[req[p]] = 0 /\ lock = NoProc /\ lock' = p
        /\ p # NoProc /\ req' = req /\ used' = used
    BY <1>2, CreateFrame
  <2>3. Stored(len') + len[req[p]] = Stored(len) + k
    BY <2>1, <2>2, StoredUpdate
  <2>4. len'[req'[lock']] = k /\ k \in Nat
    BY <2>1, <2>2, BlossomAssumption DEF Lengths
  <2>5. used <= Stored(len)
    BY <1>0, <2>2 DEF ChargedAtMost
  <2>6. used' + k <= Stored(len')
    BY <1>0, <2>2, <2>3, <2>4, <2>5
  <2> QED
    BY <2>2, <2>4, <2>6 DEF ChargedAtMost
<1>3. ASSUME NEW p \in Procs, PutFinish(p) PROVE ChargedAtMost'
  <2>1. /\ len' = [len EXCEPT ![req[p]] = Size[req[p]]] /\ used' = used + Size[req[p]]
        /\ lock' = NoProc
    BY <1>3 DEF PutFinish
  <2>2. /\ req[p] \in Blobs /\ len \in Lengths /\ lock = p /\ p # NoProc
        /\ Size[req[p]] \in 1..MaxBytes /\ MaxBytes \in Nat
    BY <1>3, EndFrame
  <2>3. Size[req[p]] \in 0..MaxBytes /\ Size[req[p]] \in Nat /\ len[req[p]] \in Nat
    BY <2>2 DEF Lengths
  <2>4. Stored(len') + len[req[p]] = Stored(len) + Size[req[p]]
    BY <2>1, <2>2, <2>3, StoredUpdate
  <2>5. used + len[req[p]] <= Stored(len)
    BY <2>2 DEF ChargedAtMost
  <2>6. used' + 0 <= Stored(len')
    BY <1>0, <2>1, <2>3, <2>4, <2>5
  <2> QED
    BY <2>1, <2>6 DEF ChargedAtMost
<1>4. ASSUME NEW p \in Procs, PutWriteError(p) PROVE ChargedAtMost'
  <2>1. used' = used /\ len' = len /\ lock' = NoProc
    BY <1>4 DEF PutWriteError
  <2>2. len[req[p]] \in Nat /\ used + len[req[p]] <= Stored(len)
    BY <1>4, EndFrame DEF ChargedAtMost, Lengths
  <2>3. used' + 0 <= Stored(len')
    BY <1>0, <2>1, <2>2
  <2> QED
    BY <2>1, <2>3 DEF ChargedAtMost
<1>5. CASE Restart
  <2>1. used' = Stored(len') /\ lock' = NoProc
    BY <1>5, RestartFrame
  <2>2. used' + 0 <= Stored(len')
    BY <1>0, <2>1
  <2> QED
    BY <2>1, <2>2 DEF ChargedAtMost
<1> QED
  BY <1>1, <1>2, <1>3, <1>4, <1>5, Steps

\* Even when writes fail half way and the process dies in between, the server
\* never refuses an upload for bytes that are not there.
THEOREM UsedNeverOvercharged == Spec => []NeverOvercharged
<1>1. Init => DirInv /\ ChargedAtMost
  BY DirInit, StoredNone DEF Init, ChargedAtMost
<1>2. DirInv /\ ChargedAtMost /\ [Next]_vars => (DirInv /\ ChargedAtMost)'
  BY DirStep, ChargeStep
<1>3. DirInv /\ ChargedAtMost => NeverOvercharged
  <2> SUFFICES ASSUME DirInv, ChargedAtMost PROVE used <= Stored(len)
    BY DEF NeverOvercharged
  <2>1. used \in Nat /\ Stored(len) \in Nat
    BY StoredNat DEF DirInv, LockInv, TypeOK
  <2>2. lock # NoProc => len[req[lock]] \in Nat
    BY BlossomAssumption DEF DirInv, LockInv, TypeOK
  <2> QED
    BY <2>1, <2>2 DEF ChargedAtMost
<1> QED
  BY <1>1, <1>2, <1>3, PTL DEF Spec

----------------------------------------------------------------------------
(* Accepted blobs.                                                         *)

\* A file that no write was cut short of is whole, unless it is being written.
PresentIsWhole ==
  \A b \in present \ cut : \/ len[b] = Size[b]
                           \/ \E p \in Procs : pc[p] = "write" /\ req[p] = b

WholeInv == DirInv /\ PresentIsWhole /\ AcceptedIsWhole

\* Steps that write nothing: a client comes to rely on a blob only if it is whole.
LEMMA WholeQuiet == ASSUME WholeInv, Quiet PROVE (PresentIsWhole /\ AcceptedIsWhole)'
<1> USE DEF WholeInv
<1>0. LockInv /\ TypeOK
  BY DEF DirInv, LockInv
<1>1. PresentIsWhole'
  BY <1>0, QuietFrame DEF PresentIsWhole
<1>2. len' = len
  BY <1>0, QuietFrame
<1>3. ASSUME NEW p \in Procs, Download(p) PROVE AcceptedIsWhole'
  BY <1>2, <1>3 DEF Download, AcceptedIsWhole
<1>4. ASSUME NEW p \in Procs, PutExists(p) PROVE AcceptedIsWhole'
  <2>1. kept' = kept \union ({req[p]} \ cut) /\ req[p] \in present
    BY <1>4 DEF PutExists
  <2>2. \A q \in Procs : pc[q] # "write"
    BY <1>0, <1>4, BlossomAssumption DEF PutExists, LockInv, LockHeldByWriter
  <2>3. req[p] \notin cut => len[req[p]] = Size[req[p]]
    BY <2>1, <2>2 DEF PresentIsWhole
  <2> QED
    BY <1>2, <2>1, <2>3 DEF AcceptedIsWhole
<1>5. ASSUME (\E p \in Procs : Upload(p) \/ PutRefused(p)) \/ (\E b \in Blobs : Age(b)) \/ UNCHANGED vars
      PROVE  AcceptedIsWhole'
  <2>1. kept' = kept
    BY <1>5 DEF Upload, PutRefused, Age, vars, history
  <2> QED
    BY <1>2, <2>1 DEF AcceptedIsWhole
<1> QED
  BY <1>1, <1>3, <1>4, <1>5 DEF Quiet

\* A file is created only where there is none, so over nothing that was accepted.
LEMMA WholeCreate ==
  ASSUME WholeInv, NEW p \in Procs, PutCreate(p)
  PROVE  (PresentIsWhole /\ AcceptedIsWhole)'
<1> USE DEF WholeInv
<1>1. PICK k \in 0..MaxBytes : len' = [len EXCEPT ![req[p]] = k]
  BY CreateFrame
<1>2. /\ req[p] \in Blobs /\ req[p] \notin present /\ present' = present \union {req[p]}
      /\ len \in Lengths /\ len[req[p]] = 0
      /\ UNCHANGED <<req, cut, kept>> /\ pc' = [pc EXCEPT ![p] = "write"]
      /\ pc \in [Procs -> {"idle", "lock", "write"}] /\ \A q \in Procs : pc[q] # "write"
  BY CreateFrame
<1>3. Size[req[p]] # 0
  BY <1>2, BlossomAssumption
<1>4. PresentIsWhole'
  BY <1>1, <1>2 DEF PresentIsWhole, Lengths
<1>5. req[p] \notin kept /\ kept \subseteq Blobs
  BY <1>2, <1>3 DEF AcceptedIsWhole, DirInv, LockInv, TypeOK
<1>6. AcceptedIsWhole'
  BY <1>1, <1>2, <1>5 DEF AcceptedIsWhole, Lengths
<1> QED
  BY <1>4, <1>6

\* A finished file is whole; one that was cut short is remembered as such.
LEMMA WholeEnd ==
  ASSUME WholeInv, NEW p \in Procs, PutFinish(p) \/ PutWriteError(p)
  PROVE  (PresentIsWhole /\ AcceptedIsWhole)'
<1> USE DEF WholeInv
<1>1. /\ req[p] \in Blobs /\ present' = present /\ req' = req /\ len \in Lengths
      /\ Size[req[p]] \in Nat
      /\ \A q \in Procs : pc'[q] # "write" /\ (pc[q] = "write" => q = p)
  BY EndFrame
<1>2. \/ /\ len' = [len EXCEPT ![req[p]] = Size[req[p]]]
         /\ cut' = cut \ {req[p]} /\ kept' = kept \union {req[p]}
      \/ len' = len /\ cut' = cut \union {req[p]} /\ kept' = kept
  BY DEF PutFinish, PutWriteError
<1>3. PresentIsWhole'
  <2>1. \A b \in present \ cut : b # req[p] => len[b] = Size[b]
    BY <1>1 DEF PresentIsWhole
  <2>2. present \subseteq Blobs
    BY DEF DirInv, LockInv, TypeOK
  <2> QED
    BY <1>1, <1>2, <2>1, <2>2 DEF PresentIsWhole, Lengths
<1>4. AcceptedIsWhole'
  <2>1. kept \subseteq Blobs
    BY DEF DirInv, LockInv, TypeOK
  <2> QED
    BY <1>1, <1>2, <2>1 DEF AcceptedIsWhole, Lengths
<1> QED
  BY <1>3, <1>4

\* A crash cuts short the one write that is under way, if there is one; the sweep
\* that follows takes only what nobody relies on any more.
LEMMA WholeRestart ==
  ASSUME WholeInv, Restart PROVE (PresentIsWhole /\ AcceptedIsWhole)'
<1> USE DEF WholeInv
<1> DEFINE S == Swept(present, old)
<1>1. /\ present' = present \ S /\ len' = Only(len, Blobs \ S) /\ len \in Lengths
      /\ \A p \in Procs : pc'[p] = "idle"
  BY RestartFrame
<1>2. AcceptedIsWhole'
  <2>1. kept' \intersect S = {} /\ kept' \subseteq kept
    BY DEF Restart, Swept
  <2>2. kept \subseteq Blobs
    BY DEF DirInv, LockInv, TypeOK
  <2> QED
    BY <1>1, <2>1, <2>2 DEF AcceptedIsWhole, Only
<1>3. \A b \in present \ cut' : len[b] = Size[b]
  <2>1. \A p \in Procs : pc[p] = "write" => lock = p /\ lock # NoProc
    BY BlossomAssumption DEF DirInv, LockInv, LockHeldByWriter
  <2>2. cut' = IF lock = NoProc THEN cut ELSE cut \union {req[lock]}
    BY DEF Restart
  <2> QED
    BY <2>1, <2>2 DEF PresentIsWhole
<1>4. present \subseteq Blobs
  BY DEF DirInv, LockInv, TypeOK
<1>5. PresentIsWhole'
  BY <1>1, <1>3, <1>4 DEF PresentIsWhole, Only
<1> QED
  BY <1>2, <1>5

\* A blob that a client was told is stored, or was sent all of, stays there in full
\* through failing writes, crashes, restarts and their sweeps, until it outlives the
\* retention window.
THEOREM AcceptedBlobsAreWhole == Spec => []AcceptedIsWhole
<1>1. Init => WholeInv
  BY DirInit DEF Init, WholeInv, PresentIsWhole, AcceptedIsWhole
<1>2. WholeInv /\ [Next]_vars => WholeInv'
  <2> SUFFICES ASSUME WholeInv, [Next]_vars PROVE WholeInv'
    OBVIOUS
  <2>1. DirInv'
    BY DirStep DEF WholeInv
  <2>2. (PresentIsWhole /\ AcceptedIsWhole)'
    BY Steps, WholeQuiet, WholeCreate, WholeEnd, WholeRestart
  <2> QED
    BY <2>1, <2>2 DEF WholeInv
<1>3. WholeInv => AcceptedIsWhole
  BY DEF WholeInv
<1> QED
  BY <1>1, <1>2, <1>3, PTL DEF Spec

=============================================================================
