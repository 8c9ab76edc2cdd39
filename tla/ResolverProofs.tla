--------------------------- MODULE ResolverProofs ---------------------------
(***************************************************************************)
(* Proofs about Resolver, for any events, relays and requests: with relays *)
(* that fail and clients that go away, only validated manifests are cached *)
(* and returned and a site is never both found and missing, and a lookup   *)
(* that nothing cut ends with a newest event of all relays whatever the    *)
(* order of arrival; and the resolver implements ManifestSource.           *)
(***************************************************************************)
EXTENDS Resolver, TLAPS

\* The cached event is valid, the two entries exclude each other.
CacheInv == TypeOK /\ OnlyValidated /\ OneEntry

\* "none" is no event: an answer is told apart from no answer yet.
LEMMA CacheInit == Init => CacheInv
<1> SUFFICES ASSUME Init PROVE CacheInv
  OBVIOUS
<1>1. TypeOK
  BY DEF Init, EmptyCache, TypeOK, NoItem
<1>2. OnlyValidated /\ OneEntry
  BY DEF Init, EmptyCache, OnlyValidated, OneEntry, NoItem, Hit, Missed
<1> QED
  BY <1>1, <1>2 DEF CacheInv

\* Steps that change neither the cache nor an answer.
Outside == \/ \E p \in Procs : \/ Cancel(p)
                               \/ \E r \in Relays : Relay(p, r) \/ RelayFails(p, r)
           \/ \E r \in Relays, e \in Events : Publish(r, e)

\* They keep the types.
LEMMA OutsideType ==
  ASSUME TypeOK, Outside PROVE TypeOK' /\ UNCHANGED <<item, negated, reply>>
<1> USE DEF TypeOK, cache, lookup
<1>1. ASSUME NEW p \in Procs, NEW r \in Relays, EndOfStored(p, r)
      PROVE  TypeOK' /\ UNCHANGED <<item, negated, reply>>
  BY <1>1 DEF EndOfStored
<1>2. ASSUME NEW p \in Procs, Cancel(p) PROVE TypeOK' /\ UNCHANGED <<item, negated, reply>>
  BY <1>2 DEF Cancel
<1>3. ASSUME NEW p \in Procs, NEW r \in Relays, RelayAnswers(p, r)
      PROVE  TypeOK' /\ UNCHANGED <<item, negated, reply>>
  <2>1. sending[p] \in [Relays -> SUBSET Events] /\ holds[r] \in SUBSET Events
    OBVIOUS
  <2>2. /\ silent' = [silent EXCEPT ![p] = @ \ {r}]
        /\ sending' = [sending EXCEPT ![p][r] = holds[r]]
        /\ asked' = [asked EXCEPT ![p] = @ \union holds[r]]
        /\ UNCHANGED <<holds, item, negated, pc, waiting, best, seen, cut, reply>>
    BY <1>3 DEF RelayAnswers
  <2>3. sending' \in [Procs -> [Relays -> SUBSET Events]]
    BY <2>1, <2>2
  <2> QED
    BY <2>1, <2>2, <2>3
<1>4. ASSUME NEW p \in Procs, NEW r \in Relays, RelayFails(p, r)
      PROVE  TypeOK' /\ UNCHANGED <<item, negated, reply>>
  <2>1. /\ waiting' = [waiting EXCEPT ![p] = @ \ {r}]
        /\ silent' = [silent EXCEPT ![p] = @ \ {r}]
        /\ sending' = [sending EXCEPT ![p][r] = {}]
        /\ cut' = [cut EXCEPT ![p] = TRUE]
        /\ UNCHANGED <<holds, item, negated, pc, asked, best, seen, reply>>
    BY <1>4 DEF RelayFails
  <2>2. sending' \in [Procs -> [Relays -> SUBSET Events]]
    BY <2>1
  <2>3. /\ waiting' \in [Procs -> SUBSET Relays] /\ silent' \in [Procs -> SUBSET Relays]
        /\ cut' \in [Procs -> BOOLEAN]
    BY <2>1
  <2> QED
    BY <2>1, <2>2, <2>3
<1>5. ASSUME NEW p \in Procs, NEW r \in Relays, NEW e \in Events, Receive(p, r, e)
      PROVE  TypeOK' /\ UNCHANGED <<item, negated, reply>>
  BY <1>5 DEF Receive
<1>6. ASSUME NEW r \in Relays, NEW e \in Events, Publish(r, e)
      PROVE  TypeOK' /\ UNCHANGED <<item, negated, reply>>
  BY <1>6 DEF Publish
<1> QED
  BY <1>1, <1>2, <1>3, <1>4, <1>5, <1>6 DEF Outside, Relay

\* Every step keeps the cache right.
LEMMA CacheStep == CacheInv /\ [Next]_vars => CacheInv'
<1> SUFFICES ASSUME CacheInv, [Next]_vars PROVE CacheInv'
  OBVIOUS
<1> USE DEF CacheInv
<1>1. CASE Outside
  <2>1. TypeOK' /\ UNCHANGED <<item, negated, reply>>
    BY <1>1, OutsideType
  <2> QED
    BY <2>1 DEF OnlyValidated, OneEntry, Hit, Missed
<1>2. ASSUME NEW p \in Procs, Get(p) PROVE CacheInv'
  <2>1. TypeOK'
    <3>1. CASE Hit
      <4>1. item.event \in Events
        BY <3>1 DEF TypeOK, NoItem, Hit
      <4> QED
        BY <1>2, <3>1, <4>1 DEF Get, Return, Cached, TypeOK, lookup
    <3>2. CASE ~ Hit
      BY <1>2, <3>2 DEF Get, DropStale, TypeOK, lookup
    <3> QED
      BY <3>1, <3>2
  <2>2. OnlyValidated' /\ OneEntry'
    <3>1. item' \in {item, NoItem} /\ negated' = negated
      BY <1>2 DEF Get, DropStale
    <3>2. reply' = reply \/ reply' = [reply EXCEPT ![p] = item.event]
      BY <1>2 DEF Get, Return, Cached
    <3>3. \A q \in Procs : reply'[q] = reply[q] \/ reply'[q] = item.event
      BY <3>2 DEF TypeOK
    <3>4. OneEntry'
      BY <3>1 DEF OneEntry, Hit, Missed, NoItem
    <3>5. item'.event \in Valid \union {Nil}
      BY <3>1 DEF OnlyValidated, NoItem
    <3> QED
      BY <3>3, <3>4, <3>5 DEF OnlyValidated
  <2> QED
    BY <2>1, <2>2
<1>3. ASSUME NEW p \in Procs, Negative(p) PROVE CacheInv'
  <2>1. TypeOK'
    <3>1. CASE Missed
      BY <1>3, <3>1 DEF Negative, Return, TypeOK, cache, lookup
    <3>2. CASE ~ Missed
      <4>1. /\ pc' = [pc EXCEPT ![p] = "lookup"] /\ waiting' = [waiting EXCEPT ![p] = Relays]
            /\ silent' = [silent EXCEPT ![p] = Relays]
            /\ UNCHANGED <<holds, item, negated, sending, asked, best, seen, cut, reply>>
        BY <1>3, <3>2 DEF Negative, cache
      <4> QED
        BY <4>1 DEF TypeOK
    <3> QED
      BY <3>1, <3>2
  <2>2. OnlyValidated' /\ OneEntry'
    BY <1>3 DEF Negative, Return, OnlyValidated, OneEntry, Hit, Missed, TypeOK, cache
  <2> QED
    BY <2>1, <2>2
<1>4. ASSUME NEW p \in Procs, Finish(p) PROVE CacheInv'
  <2>1. CASE Acceptable(best[p])
    <3>1. /\ best[p] \in Valid /\ best[p] \in Events
          /\ item' = [event |-> best[p], fresh |-> TRUE] /\ negated' = "no"
          /\ pc' = [pc EXCEPT ![p] = "idle"] /\ reply' = [reply EXCEPT ![p] = best[p]]
          /\ asked' = [asked EXCEPT ![p] = {}] /\ best' = [best EXCEPT ![p] = Nil]
          /\ seen' = [seen EXCEPT ![p] = {}] /\ UNCHANGED <<holds, waiting, silent, sending, cut>>
      BY <1>4, <2>1, ResolverAssumption DEF Finish, Acceptable, Put, Return
    <3>2. TypeOK'
      BY <3>1 DEF TypeOK
    <3> QED
      BY <3>1, <3>2 DEF OnlyValidated, OneEntry, Hit, Missed, TypeOK
  <2>2. CASE ~ Acceptable(best[p])
    <3>1. /\ item' = NoItem /\ negated' = "fresh"
          /\ pc' = [pc EXCEPT ![p] = "idle"] /\ reply' = [reply EXCEPT ![p] = Nil]
          /\ asked' = [asked EXCEPT ![p] = {}] /\ best' = [best EXCEPT ![p] = Nil]
          /\ seen' = [seen EXCEPT ![p] = {}] /\ UNCHANGED <<holds, waiting, silent, sending, cut>>
      BY <1>4, <2>2 DEF Finish, PutNegative, Return
    <3>2. TypeOK'
      BY <3>1 DEF TypeOK
    <3> QED
      BY <3>1, <3>2 DEF OnlyValidated, OneEntry, Hit, Missed, TypeOK, NoItem
  <2> QED
    BY <2>1, <2>2
<1>5. CASE ExpireItem
  <2>1. item.event \in Events
    BY <1>5 DEF ExpireItem, ItemEnds, TypeOK, NoItem
  <2>2. item' \in [event : Events, fresh : BOOLEAN] /\ item'.event = item.event /\ ~ item'.fresh
    BY <1>5, <2>1 DEF ExpireItem, ItemEnds, TypeOK, NoItem
  <2> QED
    BY <1>5, <2>2 DEF ExpireItem, ItemEnds, TypeOK, OnlyValidated, OneEntry, Hit, Missed, lookup
<1>6. CASE ExpireNegative
  BY <1>6 DEF ExpireNegative, NegativeEnds, TypeOK, OnlyValidated, OneEntry, Hit, Missed, lookup
<1>7. CASE UNCHANGED vars
  BY <1>7 DEF vars, cache, lookup, TypeOK, OnlyValidated, OneEntry, Hit, Missed
<1>8. ASSUME NEW p \in Procs, Begin(p) PROVE CacheInv'
  <2>1. TypeOK'
    BY <1>8 DEF Begin, TypeOK, cache, lookup
  <2>2. \A q \in Procs : reply'[q] = reply[q] \/ reply'[q] = "none"
    BY <1>8 DEF Begin, TypeOK
  <2> QED
    BY <1>8, <2>1, <2>2 DEF Begin, OnlyValidated, OneEntry, Hit, Missed, cache
<1> QED
  BY <1>1, <1>2, <1>3, <1>4, <1>5, <1>6, <1>7, <1>8
     DEF Next, Manifest, Expiry, Outside

\* The cache is always right.
LEMMA CacheAlways == Spec => []CacheInv
  BY CacheInit, CacheStep, PTL DEF Spec

\* The resolver's state has its type: in particular a positive entry always holds
\* an event, so Manifest never finds a nil it took for a hit.
THEOREM ResolverTypeCorrect == Spec => []TypeOK
<1>1. CacheInv => TypeOK
  BY DEF CacheInv
<1> QED
  BY CacheAlways, <1>1, PTL

\* Whatever relays send, and however lookups overlap, fail or are cut, only
\* validated manifests are cached and returned.
THEOREM OnlyValidatedServed == Spec => []OnlyValidated
<1>1. CacheInv => OnlyValidated
  BY DEF CacheInv
<1> QED
  BY CacheAlways, <1>1, PTL

\* A site is never both found and missing in the cache.
THEOREM EntriesExclusive == Spec => []OneEntry
<1>1. CacheInv => OneEntry
  BY DEF CacheInv
<1> QED
  BY CacheAlways, <1>1, PTL

----------------------------------------------------------------------------
\* How far a lookup is: a relay that has not begun or has ended has nothing to
\* come; best is a newest of what arrived; and if nothing was cut, what arrived and
\* what is to come is all the relays had.  No lookup leaves anything behind.
Progress(p) ==
  /\ \A r \in Relays : /\ sending[p][r] # {} => pc[p] = "lookup" /\ r \in waiting[p]
                       /\ r \in silent[p] => r \in waiting[p] /\ sending[p][r] = {}
                       /\ sending[p][r] \subseteq asked[p]
  /\ seen[p] \subseteq asked[p]
  /\ IF seen[p] = {} THEN best[p] = Nil ELSE best[p] \in NewestOf(seen[p])
  /\ pc[p] # "lookup" => asked[p] = {}
  /\ ~ cut[p] => \A e \in asked[p] : e \in seen[p] \/ \E r \in Relays : e \in sending[p][r]

LookupInv == CacheInv /\ \A p \in Procs : Progress(p)

\* No lookup runs at the start.
LEMMA LookupInit == Init => LookupInv
<1> SUFFICES ASSUME Init PROVE LookupInv
  OBVIOUS
<1>1. CacheInv
  BY CacheInit
<1> QED
  BY <1>1 DEF Init, LookupInv, Progress

\* The event that arrives is compared with a newest one of those before it.
LEMMA NewestStep ==
  ASSUME NEW S \in SUBSET Events, NEW b \in Events \union {Nil}, NEW e \in Events,
         IF S = {} THEN b = Nil ELSE b \in NewestOf(S)
  PROVE  (IF e \notin S /\ Newer(e, b) THEN e ELSE b) \in NewestOf(S \union {e})
<1> USE ResolverAssumption
<1>1. \A f \in Events : CreatedAt(f) \in Nat
  OBVIOUS
<1>2. CASE S = {}
  BY <1>1, <1>2 DEF NewestOf, Newer
<1>3. CASE S # {}
  <2>1. b \in Events /\ b \in S /\ \A f \in S : CreatedAt(f) <= CreatedAt(b)
    BY <1>3 DEF NewestOf
  <2>2. b # Nil
    BY <2>1
  <2>3. CASE e \notin S /\ Newer(e, b)
    <3>1. CreatedAt(e) > CreatedAt(b)
      BY <2>2, <2>3 DEF Newer
    <3>2. \A f \in S \union {e} : CreatedAt(f) <= CreatedAt(e)
      BY <1>1, <2>1, <3>1
    <3> QED
      BY <2>3, <3>2 DEF NewestOf
  <2>4. CASE ~ (e \notin S /\ Newer(e, b))
    <3>1. CreatedAt(e) <= CreatedAt(b)
      BY <1>1, <2>1, <2>2, <2>4 DEF Newer
    <3>2. \A f \in S \union {e} : CreatedAt(f) <= CreatedAt(b)
      BY <2>1, <3>1
    <3> QED
      BY <2>1, <2>4, <3>2 DEF NewestOf
  <2> QED
    BY <2>3, <2>4
<1> QED
  BY <1>2, <1>3

\* Relay r answers p: what it has is asked for and to come.
LEMMA ProgressAnswers ==
  ASSUME LookupInv, NEW p \in Procs, NEW r \in Relays, RelayAnswers(p, r)
  PROVE  \A q \in Procs : Progress(q)'
<1> USE DEF LookupInv, CacheInv, TypeOK
<1>1. ASSUME NEW q \in Procs, q # p PROVE Progress(q)'
  <2>1. /\ pc' = pc /\ sending'[q] = sending[q] /\ waiting' = waiting /\ asked'[q] = asked[q]
        /\ silent'[q] = silent[q] /\ cut' = cut /\ best' = best /\ seen' = seen
    BY <1>1 DEF RelayAnswers
  <2> QED
    BY <2>1 DEF Progress, NewestOf
<1>2. Progress(p)'
  <2>1. /\ pc' = pc /\ waiting' = waiting /\ best' = best /\ seen' = seen /\ pc[p] = "lookup"
        /\ cut' = cut /\ r \in silent[p] /\ silent'[p] = silent[p] \ {r}
        /\ asked'[p] = asked[p] \union holds[r]
        /\ sending' = [sending EXCEPT ![p][r] = holds[r]]
    BY DEF RelayAnswers
  <2>2. sending'[p][r] = holds[r] /\ \A s \in Relays : s # r => sending'[p][s] = sending[p][s]
    BY <2>1
  <2>3. r \in waiting[p] /\ sending[p][r] = {}
    BY <2>1 DEF Progress
  <2> QED
    BY <2>1, <2>2, <2>3 DEF Progress, NewestOf
<1> QED
  BY <1>1, <1>2

\* An event arrives: it is no longer to come but seen, and compared with best.
LEMMA ProgressReceives ==
  ASSUME LookupInv, NEW p \in Procs, NEW r \in Relays, NEW e \in Events, Receive(p, r, e)
  PROVE  \A q \in Procs : Progress(q)'
<1> USE DEF LookupInv, CacheInv, TypeOK
<1>1. ASSUME NEW q \in Procs, q # p PROVE Progress(q)'
  <2>1. /\ pc' = pc /\ sending'[q] = sending[q] /\ waiting' = waiting /\ asked' = asked
        /\ silent' = silent /\ cut' = cut /\ best'[q] = best[q] /\ seen'[q] = seen[q]
    BY <1>1 DEF Receive
  <2> QED
    BY <2>1 DEF Progress, NewestOf
<1>2. Progress(p)'
  <2>1. /\ pc' = pc /\ asked' = asked /\ cut' = cut /\ pc[p] = "lookup" /\ e \in sending[p][r]
        /\ seen'[p] = seen[p] \union {e} /\ waiting' = waiting /\ silent' = silent
        /\ best'[p] = IF e \notin seen[p] /\ Newer(e, best[p]) THEN e ELSE best[p]
        /\ sending' = [sending EXCEPT ![p][r] = @ \ {e}]
    BY DEF Receive
  <2>2. /\ sending'[p][r] = sending[p][r] \ {e}
        /\ \A s \in Relays : s # r => sending'[p][s] = sending[p][s]
    BY <2>1
  <2>5. Progress(p)
    OBVIOUS
  <2>4. best'[p] \in NewestOf(seen[p] \union {e})
    <3>1. /\ seen[p] \in SUBSET Events /\ best[p] \in Events \union {Nil}
          /\ IF seen[p] = {} THEN best[p] = Nil ELSE best[p] \in NewestOf(seen[p])
      BY <2>1, <2>5 DEF Progress
    <3>2. (IF e \notin seen[p] /\ Newer(e, best[p]) THEN e ELSE best[p])
             \in NewestOf(seen[p] \union {e})
      BY <3>1, NewestStep
    <3> QED
      BY <2>1, <3>2
  <2>3. best'[p] \in NewestOf(seen'[p])
    BY <2>1, <2>4
  <2>6. ~ cut'[p] => \A f \in asked'[p] : f \in seen'[p] \/ \E s \in Relays : f \in sending'[p][s]
    <3>1. ASSUME ~ cut'[p], NEW f \in asked'[p], f \notin seen'[p] PROVE \E s \in Relays : f \in sending'[p][s]
      <4>1. PICK s \in Relays : f \in sending[p][s]
        BY <2>1, <2>5, <3>1 DEF Progress
      <4> QED
        BY <2>1, <2>2, <3>1, <4>1
    <3> QED
      BY <3>1
  <2>7. \A s \in Relays : /\ sending'[p][s] # {} => s \in waiting'[p]
                          /\ s \in silent'[p] => s \in waiting'[p] /\ sending'[p][s] = {}
    BY <2>1, <2>2, <2>5 DEF Progress
  <2>8. (\A s \in Relays : sending'[p][s] \subseteq asked'[p]) /\ seen'[p] \subseteq asked'[p]
    BY <2>1, <2>2, <2>5 DEF Progress
  <2> QED
    BY <2>1, <2>3, <2>6, <2>7, <2>8 DEF Progress, NewestOf
<1> QED
  BY <1>1, <1>2

\* Every step keeps the progress of every lookup.
LEMMA LookupStep == LookupInv /\ [Next]_vars => LookupInv'
<1> SUFFICES ASSUME LookupInv, [Next]_vars PROVE LookupInv'
  OBVIOUS
<1> USE DEF LookupInv
<1>1. CacheInv'
  BY CacheStep
<1>2. ASSUME NEW p \in Procs, NEW r \in Relays, RelayAnswers(p, r) PROVE LookupInv'
  BY <1>1, <1>2, ProgressAnswers
<1>3. ASSUME NEW p \in Procs, NEW r \in Relays, NEW e \in Events, Receive(p, r, e)
      PROVE  LookupInv'
  BY <1>1, <1>3, ProgressReceives
<1>4. ASSUME NEW p \in Procs, Get(p) \/ Negative(p) PROVE LookupInv'
  <2>1. UNCHANGED <<sending, asked, best, seen, cut>>
    BY <1>4 DEF Get, Negative, lookup
  <2>3. \A q \in Procs \ {p} : pc'[q] = pc[q] /\ waiting'[q] = waiting[q] /\ silent'[q] = silent[q]
    BY <1>4 DEF Get, Negative, Return, CacheInv, TypeOK, lookup
  <2>4. pc[p] # "lookup"
    BY <1>4 DEF Get, Negative
  <2>5. \/ waiting'[p] = waiting[p] /\ silent'[p] = silent[p] /\ pc'[p] # "lookup"
        \/ waiting'[p] = Relays /\ silent'[p] = Relays
    <3>1. CASE Get(p)
      BY <3>1 DEF Get, Return, CacheInv, TypeOK, lookup
    <3>2. CASE Negative(p)
      BY <3>2 DEF Negative, Return, CacheInv, TypeOK
    <3> QED
      BY <1>4, <3>1, <3>2
  <2>6. Progress(p)'
    BY <2>1, <2>4, <2>5 DEF Progress, NewestOf
  <2>2. \A q \in Procs : Progress(q)'
    BY <2>1, <2>3, <2>6 DEF Progress, NewestOf
  <2> QED
    BY <1>1, <2>2
<1>5. ASSUME NEW p \in Procs, Begin(p) PROVE LookupInv'
  <2>1. UNCHANGED <<waiting, silent, sending, asked, best, seen>>
    BY <1>5 DEF Begin, lookup
  <2>2. pc[p] # "lookup" /\ pc'[p] # "lookup" /\ \A q \in Procs \ {p} : pc'[q] = pc[q]
    BY <1>5 DEF Begin, CacheInv, TypeOK
  <2>3. \A q \in Procs \ {p} : cut'[q] = cut[q]
    BY <1>5 DEF Begin, CacheInv, TypeOK
  <2>4. Progress(p)'
    BY <2>1, <2>2 DEF Progress, NewestOf
  <2>5. ASSUME NEW q \in Procs \ {p} PROVE Progress(q)'
    BY <2>1, <2>2, <2>3 DEF Progress, NewestOf
  <2> QED
    BY <1>1, <2>4, <2>5
<1>6. ASSUME NEW p \in Procs, Finish(p) PROVE LookupInv'
  <2>1. /\ UNCHANGED <<waiting, silent, sending, cut>> /\ pc[p] = "lookup" /\ waiting[p] = {}
        /\ asked'[p] = {} /\ best'[p] = Nil /\ seen'[p] = {}
        /\ \A q \in Procs \ {p} : /\ pc'[q] = pc[q] /\ asked'[q] = asked[q]
                                  /\ best'[q] = best[q] /\ seen'[q] = seen[q]
    BY <1>6 DEF Finish, Return, CacheInv, TypeOK
  <2>2. Progress(p)'
    BY <2>1 DEF Progress
  <2>3. ASSUME NEW q \in Procs \ {p} PROVE Progress(q)'
    BY <2>1 DEF Progress, NewestOf
  <2> QED
    BY <1>1, <2>2, <2>3
<1>7. ASSUME NEW p \in Procs, Cancel(p) \/ \E r \in Relays : RelayFails(p, r)
      PROVE  LookupInv'
  <2>1. /\ UNCHANGED <<pc, asked, best, seen>> /\ cut'[p]
        /\ \A q \in Procs \ {p} : /\ sending'[q] = sending[q] /\ waiting'[q] = waiting[q]
                                  /\ silent'[q] = silent[q] /\ cut'[q] = cut[q]
    BY <1>7 DEF Cancel, RelayFails, CacheInv, TypeOK
  <2>2. \A s \in Relays : \/ sending'[p][s] = {}
                          \/ sending'[p][s] = sending[p][s] /\ (s \in waiting'[p] <=> s \in waiting[p])
    <3>1. CASE Cancel(p)
      BY <3>1 DEF Cancel, CacheInv, TypeOK
    <3>2. ASSUME NEW r \in Relays, RelayFails(p, r)
          PROVE  \A s \in Relays :
                   \/ sending'[p][s] = {}
                   \/ sending'[p][s] = sending[p][s] /\ (s \in waiting'[p] <=> s \in waiting[p])
      BY <3>2 DEF RelayFails, CacheInv, TypeOK
    <3> QED
      BY <1>7, <3>1, <3>2
  <2>5. \A s \in Relays : s \in silent'[p] => /\ s \in silent[p] /\ (s \in waiting[p] => s \in waiting'[p])
                                           /\ sending'[p][s] \in {{}, sending[p][s]}
    <3>1. CASE Cancel(p)
      BY <3>1 DEF Cancel, CacheInv, TypeOK
    <3>2. ASSUME NEW r \in Relays, RelayFails(p, r)
          PROVE  \A s \in Relays : s \in silent'[p] =>
                   /\ s \in silent[p] /\ (s \in waiting[p] => s \in waiting'[p])
                   /\ sending'[p][s] \in {{}, sending[p][s]}
      BY <3>2 DEF RelayFails, CacheInv, TypeOK
    <3> QED
      BY <1>7, <3>1, <3>2
  <2>3. Progress(p)'
    BY <2>1, <2>2, <2>5 DEF Progress, NewestOf
  <2>4. ASSUME NEW q \in Procs \ {p} PROVE Progress(q)'
    BY <2>1 DEF Progress, NewestOf
  <2> QED
    BY <1>1, <2>3, <2>4
<1>8. CASE Expiry \/ (\E r \in Relays, e \in Events : Publish(r, e)) \/ UNCHANGED vars
  <2>1. UNCHANGED <<pc, lookup, cut>>
    <3>1. CASE Expiry
      BY <3>1 DEF Expiry, ExpireItem, ExpireNegative
    <3>2. CASE \E r \in Relays, e \in Events : Publish(r, e)
      BY <3>2 DEF Publish
    <3>3. CASE UNCHANGED vars
      BY <3>3 DEF vars, lookup, cache
    <3> QED
      BY <1>8, <3>1, <3>2, <3>3
  <2>2. \A q \in Procs : Progress(q)'
    BY <2>1 DEF Progress, NewestOf, lookup
  <2> QED
    BY <1>1, <2>2
<1>9. ASSUME NEW p \in Procs, NEW r \in Relays, EndOfStored(p, r) PROVE LookupInv'
  <2>1. /\ UNCHANGED <<pc, silent, sending, asked, best, seen, cut>>
        /\ r \notin silent[p] /\ sending[p][r] = {} /\ waiting'[p] = waiting[p] \ {r}
        /\ \A q \in Procs \ {p} : waiting'[q] = waiting[q]
    BY <1>9 DEF EndOfStored, CacheInv, TypeOK
  <2>2. Progress(p)'
    BY <2>1 DEF Progress, NewestOf
  <2>3. ASSUME NEW q \in Procs \ {p} PROVE Progress(q)'
    BY <2>1 DEF Progress, NewestOf
  <2> QED
    BY <1>1, <2>2, <2>3
<1> QED
  BY <1>2, <1>3, <1>4, <1>5, <1>6, <1>7, <1>8, <1>9 DEF Next, Manifest, Relay

\* Every lookup is always as far as Progress says.
LEMMA LookupAlways == Spec => []LookupInv
  BY LookupInit, LookupStep, PTL DEF Spec

\* When no relay fails it and no context ends it, newestEvent ends with a newest
\* event of all that the relays had for it, in whatever order events, duplicates
\* and ends of stored events arrive, whatever is published meanwhile and whatever
\* happens to the lookups beside it.
THEOREM LookupFindsNewest == Spec => []EndsWithNewest
<1>1. LookupInv => EndsWithNewest
  <2> SUFFICES ASSUME LookupInv, NEW p \in Procs, pc[p] = "lookup", waiting[p] = {},
                      ~ cut[p], asked[p] # {}
               PROVE  best[p] \in NewestOf(asked[p])
    BY DEF EndsWithNewest
  <2>1. Progress(p)
    BY DEF LookupInv
  <2>2. \A r \in Relays : sending[p][r] = {}
    BY <2>1 DEF Progress
  <2>3. asked[p] = seen[p]
    BY <2>1, <2>2 DEF Progress
  <2> QED
    BY <2>1, <2>3 DEF Progress
<1> QED
  BY LookupAlways, <1>1, PTL
----------------------------------------------------------------------------
\* What a lookup was sent has been published, by some relay at least.
SourceInv == LookupInv /\ \A p \in Procs : asked[p] \subseteq Known

\* Nothing is withdrawn.
LEMMA PublishedGrows ==
  ASSUME TypeOK, TypeOK', [Next]_vars
  PROVE  Known \subseteq Known'
<1>1. \A r \in Relays : holds[r] \subseteq holds'[r]
  <2>1. ASSUME NEW r \in Relays, NEW e \in Events, Publish(r, e)
        PROVE  \A s \in Relays : holds[s] \subseteq holds'[s]
    BY <2>1 DEF Publish, TypeOK
  <2>2. CASE \E r \in Relays, e \in Events : Publish(r, e)
    BY <2>1, <2>2
  <2>3. CASE ~ \E r \in Relays, e \in Events : Publish(r, e)
    <3>1. holds' = holds
      BY <2>3 DEF Next, Manifest, Relay, Begin, Get, Negative, Finish, Receive, Cancel,
                  RelayAnswers, EndOfStored, RelayFails, Expiry, ExpireItem, ExpireNegative, vars
    <3> QED
      BY <3>1
  <2> QED
    BY <2>2, <2>3
<1> QED
  BY <1>1 DEF Known

\* A relay sends what it holds.
LEMMA SourceInvStep == SourceInv /\ [Next]_vars => SourceInv'
<1> SUFFICES ASSUME SourceInv, [Next]_vars PROVE SourceInv'
  OBVIOUS
<1>1. LookupInv'
  BY LookupStep DEF SourceInv
<1>2. TypeOK /\ TypeOK'
  BY <1>1 DEF SourceInv, LookupInv, CacheInv
<1>3. Known \subseteq Known'
  BY <1>2, PublishedGrows
<1>4. \A p \in Procs : asked'[p] \subseteq asked[p] \union Known
  <2>1. ASSUME NEW p \in Procs, NEW r \in Relays, RelayAnswers(p, r)
        PROVE  \A q \in Procs : asked'[q] \subseteq asked[q] \union Known
    <3>1. holds[r] \subseteq Known
      BY DEF Known
    <3> QED
      BY <1>2, <2>1, <3>1 DEF RelayAnswers, TypeOK
  <2>2. ASSUME NEW p \in Procs, Finish(p)
        PROVE  \A q \in Procs : asked'[q] \subseteq asked[q]
    BY <1>2, <2>2 DEF Finish, TypeOK
  <2>3. CASE \/ \E p \in Procs : \/ Begin(p) \/ Get(p) \/ Negative(p) \/ Cancel(p)
                                 \/ \E r \in Relays : RelayFails(p, r) \/ EndOfStored(p, r)
                                 \/ \E r \in Relays, e \in Events : Receive(p, r, e)
             \/ Expiry \/ \E r \in Relays, e \in Events : Publish(r, e)
             \/ UNCHANGED vars
    <3>1. asked' = asked
      BY <2>3 DEF Begin, Get, Negative, Cancel, RelayFails, EndOfStored, Receive, Expiry,
                  ExpireItem, ExpireNegative, Publish, vars, lookup
    <3> QED
      BY <3>1
  <2> QED
    BY <2>1, <2>2, <2>3 DEF Next, Manifest, Relay
<1> QED
  BY <1>1, <1>3, <1>4 DEF SourceInv

\* What lookups are sent is always published.
LEMMA SourceAlways == Spec => []SourceInv
<1>1. Init => SourceInv
  BY LookupInit DEF SourceInv, Init
<1> QED
  BY <1>1, SourceInvStep, PTL DEF Spec

\* Nothing is kept and nobody waits at the start.
LEMMA SourceStart == Init => Source!SourceInit
<1> SUFFICES ASSUME Init PROVE Source!SourceInit
  OBVIOUS
<1>1. ~ Hit /\ ~ Missed
  BY DEF Init, EmptyCache, Hit, Missed, NoItem
<1>2. Known \in SUBSET Events
  BY DEF Init, Known
<1>3. {p \in Procs : pc[p] # "idle"} = {}
  BY DEF Init
<1> QED
  BY <1>1, <1>2, <1>3 DEF Source!SourceInit, Init, Known

\* A request that returns an answer no longer waits.
LEMMA SourceReturns ==
  ASSUME TypeOK, NEW p \in Procs, NEW a, pc[p] # "idle", Return(p, a), holds' = holds
  PROVE  Source!Answered(p, a)
<1>1. {q \in Procs : pc'[q] # "idle"} = {q \in Procs : pc[q] # "idle"} \ {p}
  BY DEF Return, TypeOK
<1>2. reply' = [reply EXCEPT ![p] = a]
  BY DEF Return
<1> QED
  BY <1>1, <1>2 DEF Source!Answered, Known

\* Get and Negative return what is kept, or nobody sees that they ran.  It takes
\* OneEntry for Negative: between Get and it another lookup may have cached a
\* manifest, and then there is no miss.
LEMMA SourceReads ==
  ASSUME SourceInv, NEW p \in Procs, Get(p) \/ Negative(p)
  PROVE  Source!AnswerKept(p) \/ UNCHANGED Source!sourceVars
<1>1. TypeOK /\ OneEntry /\ holds' = holds
  BY DEF SourceInv, LookupInv, CacheInv, Get, Negative
<1>2. CASE Get(p) /\ Hit
  <2>0. PICK a : a = Cached
    OBVIOUS
  <2>1. Source!Answered(p, a)
    <3>1. pc[p] # "idle" /\ Return(p, a)
      BY <1>2, <2>0 DEF Get
    <3> QED
      BY <1>1, <3>1, SourceReturns
  <2>2. UNCHANGED <<item, negated>>
    BY <1>2 DEF Get
  <2> QED
    BY <1>2, <2>0, <2>1, <2>2 DEF Source!AnswerKept, Hit, Missed, Cached
<1>3. CASE Negative(p) /\ Missed
  <2>1. Source!Answered(p, Nil)
    BY <1>1, <1>3, SourceReturns DEF Negative
  <2>2. UNCHANGED <<item, negated>> /\ ~ Hit
    BY <1>1, <1>3 DEF Negative, OneEntry, cache
  <2> QED
    BY <1>3, <2>1, <2>2 DEF Source!AnswerKept, Hit, Missed, Cached
<1>4. CASE Get(p) /\ ~ Hit
  <2>1. ~ Hit' /\ negated' = negated /\ reply' = reply
    BY <1>4 DEF Get, DropStale, Hit, NoItem
  <2>2. {q \in Procs : pc'[q] # "idle"} = {q \in Procs : pc[q] # "idle"}
    BY <1>1, <1>4 DEF Get, TypeOK
  <2> QED
    BY <1>1, <1>4, <2>1, <2>2 DEF Source!sourceVars, Missed, Known
<1>5. CASE Negative(p) /\ ~ Missed
  <2>1. UNCHANGED <<item, negated, reply>>
    BY <1>5 DEF Negative, cache
  <2>2. {q \in Procs : pc'[q] # "idle"} = {q \in Procs : pc[q] # "idle"}
    BY <1>1, <1>5 DEF Negative, TypeOK
  <2> QED
    BY <1>1, <2>1, <2>2 DEF Source!sourceVars, Hit, Missed, Cached, Known
<1> QED
  BY <1>2, <1>3, <1>4, <1>5

\* The end of a lookup keeps what it answers: a valid event of a relay, or none.
LEMMA SourceFinishes ==
  ASSUME SourceInv, NEW p \in Procs, Finish(p)
  PROVE  Source!AnswerFound(p)
<1>1. TypeOK /\ Progress(p) /\ asked[p] \subseteq Known
  BY DEF SourceInv, LookupInv, CacheInv
<1>2. pc[p] # "idle" /\ holds' = holds
  BY DEF Finish
<1>3. CASE Acceptable(best[p])
  <2>1. best[p] \in Known \intersect Valid
    <3>1. best[p] \in Valid /\ best[p] # Nil
      BY <1>3, ResolverAssumption DEF Acceptable
    <3>2. best[p] \in seen[p] /\ seen[p] \subseteq asked[p]
      BY <1>1, <3>1 DEF Progress, NewestOf
    <3> QED
      BY <1>1, <3>1, <3>2
  <2>0. PICK a : a = best[p]
    OBVIOUS
  <2>2. Source!Answered(p, a)
    <3>1. Return(p, a)
      BY <1>3, <2>0 DEF Finish
    <3> QED
      BY <1>1, <1>2, <3>1, SourceReturns
  <2>3. Hit' /\ Cached' = a
    BY <1>3, <2>0 DEF Finish, Put, Hit, Cached
  <2> QED
    BY <2>0, <2>1, <2>2, <2>3 DEF Source!AnswerFound, Known
<1>4. CASE ~ Acceptable(best[p])
  <2>1. Source!Answered(p, Nil)
    BY <1>1, <1>2, <1>4, SourceReturns DEF Finish
  <2>2. ~ Hit' /\ Missed'
    BY <1>4 DEF Finish, PutNegative, Hit, Missed, NoItem
  <2> QED
    BY <2>1, <2>2 DEF Source!AnswerFound
<1> QED
  BY <1>3, <1>4

\* Every step of the resolver is one of the promised source, or is not seen.
LEMMA SourceStep == SourceInv /\ SourceInv' /\ [Next]_vars => [Source!SourceNext]_(Source!sourceVars)
<1> SUFFICES ASSUME SourceInv, SourceInv', [Next]_vars
             PROVE  [Source!SourceNext]_(Source!sourceVars)
  OBVIOUS
<1>0. TypeOK /\ TypeOK' /\ OneEntry
  BY DEF SourceInv, LookupInv, CacheInv
<1>1. ASSUME NEW p \in Procs, Begin(p) PROVE Source!Ask(p)
  <2>1. UNCHANGED <<holds, item, negated>>
    BY <1>1 DEF Begin, cache
  <2>2. {q \in Procs : pc'[q] # "idle"} = {q \in Procs : pc[q] # "idle"} \union {p}
    BY <1>0, <1>1 DEF Begin, TypeOK
  <2> QED
    BY <1>1, <2>1, <2>2 DEF Source!Ask, Begin, Hit, Missed, Cached, Known
<1>2. CASE \E p \in Procs : Cancel(p) \/ \E r \in Relays : Relay(p, r) \/ RelayFails(p, r)
  <2>1. UNCHANGED <<holds, item, negated, reply, pc>>
    BY <1>2 DEF Cancel, Relay, RelayAnswers, EndOfStored, RelayFails, Receive, cache
  <2> QED
    BY <2>1 DEF Source!sourceVars, Hit, Missed, Cached, Known
<1>3. CASE Expiry
  <2>1. UNCHANGED <<holds, reply, pc>>
    BY <1>3 DEF Expiry, ExpireItem, ExpireNegative
  <2>2. ~ Hit' /\ ~ Missed' /\ (Hit \/ Missed)
    <3>1. CASE ExpireItem
      <4>1. ~ Missed /\ Hit /\ negated' = negated
        BY <1>0, <3>1 DEF OneEntry, ExpireItem, ItemEnds, Hit
      <4>2. item \in [event : Events, fresh : BOOLEAN] /\ item' = [item EXCEPT !.fresh = FALSE]
        BY <1>0, <3>1 DEF ExpireItem, ItemEnds, TypeOK, NoItem
      <4> QED
        BY <4>1, <4>2 DEF Hit, Missed
    <3>2. CASE ExpireNegative
      BY <1>0, <3>2 DEF OneEntry, ExpireNegative, NegativeEnds, Hit, Missed
    <3> QED
      BY <1>3, <3>1, <3>2 DEF Expiry
  <2>3. Source!Forget
    BY <2>1, <2>2 DEF Source!Forget, Known
  <2> QED
    BY <2>3 DEF Source!SourceNext
<1>4. CASE \E r \in Relays, e \in Events : Publish(r, e)
  <2>1. UNCHANGED <<item, negated, reply, pc>>
    BY <1>4 DEF Publish, cache
  <2>2. Known \subseteq Known' /\ Known' \in SUBSET Events
    <3>1. Known' \in SUBSET Events
      BY <1>0 DEF Known, TypeOK
    <3> QED
      BY <1>0, <3>1, PublishedGrows
  <2>3. Source!Spread
    BY <2>1, <2>2 DEF Source!Spread, Known, Hit, Missed, Cached
  <2> QED
    BY <2>3 DEF Source!SourceNext
<1>5. CASE UNCHANGED vars
  BY <1>5 DEF vars, Source!sourceVars, Hit, Missed, Cached, Known
<1>6. CASE \E p \in Procs : Begin(p) \/ Get(p) \/ Negative(p) \/ Finish(p)
  BY <1>1, <1>6, SourceReads, SourceFinishes DEF Source!SourceNext
<1> QED
  BY <1>2, <1>3, <1>4, <1>5, <1>6 DEF Next, Manifest

\* The resolver implements ManifestSource, for any events, relays and requests:
\* each answer is the one in force when it is given, and what a lookup brings into
\* force is a valid manifest that some relay had, or none.
THEOREM ResolverImplementsManifestSource == Spec => ImplementsManifestSource
  BY SourceAlways, SourceStart, SourceStep, PTL
     DEF Spec, ImplementsManifestSource, Source!SourceSpec
=============================================================================
