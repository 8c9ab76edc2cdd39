--------------------------- MODULE ReleasesProofs ---------------------------
(***************************************************************************)
(* Proofs about Releases, for any releases, relays, catalogue and number   *)
(* of requests, whatever is published or revoked while the two queries     *)
(* run: a lookup that every relay answered ends with a release that was    *)
(* current when it began, and with one if all releases are valid.          *)
(***************************************************************************)
EXTENDS Releases, TLAPS

\* What was on the relays when p asked them is still there.
KnownStays(p) == /\ known[p].releases \subseteq OnRelays.releases
                 /\ known[p].revoked \subseteq OnRelays.revoked

\* Only a context that goes on has heard from every relay, and a release was
\* not chosen before the first query.
StartsEmpty(p) ==
  /\ expired[p] => cut[p]
  /\ pc[p] \in {"idle", "get", "negative", "catalogue"} => best[p] = Nil

\* The release so far is on a relay, and in the second query has its tags.
BestOnRelays(p) ==
  /\ best[p] # Nil => best[p] \in OnRelays.releases
  /\ pc[p] = "revocations" => best[p] \in Complete

\* Nothing that p began with is newer than the release so far, but for what a
\* relay holds that has not answered the first query ...
NewestSoFar(p) ==
  ~ cut[p] =>
    /\ pc[p] = "releases" =>
         \A f \in known[p].releases : \/ \E r \in waiting[p] : f \in holds[r]
                                      \/ best[p] # Nil /\ CreatedAt(f) <= CreatedAt(best[p])
    /\ pc[p] = "revocations" => NotOlder(best[p], known[p].releases)

\* ... and a revocation of it that p began with is on a relay that has not
\* answered the second one.
UnrevokedSoFar(p) ==
  (~ cut[p] /\ pc[p] = "revocations" /\ best[p] \in known[p].revoked) =>
    \E r \in waiting[p] : best[p] \in revs[r]

LookupOK(p) == KnownStays(p) /\ StartsEmpty(p) /\ BestOnRelays(p) /\ NewestSoFar(p)
               /\ UnrevokedSoFar(p)

ReleasesInv == TypeOK /\ \A p \in Procs : LookupOK(p)

----------------------------------------------------------------------------
\* The loops keep the release they have or one of the answer, and no release of
\* the answer is newer than the one kept.
LEMMA KeptIsNewest ==
  ASSUME NEW b \in Releases \union {Nil}, NEW es \in SUBSET Releases, NEW e \in Kept(b, es)
  PROVE  /\ e \in es \union {b}
         /\ \A f \in es : e # Nil /\ CreatedAt(f) <= CreatedAt(e)
         /\ b # Nil => e # Nil /\ CreatedAt(b) <= CreatedAt(e)
<1> DEFINE newer == {x \in es : b = Nil \/ CreatedAt(x) > CreatedAt(b)}
<1>0. /\ Nil \notin Releases /\ \A f \in es : CreatedAt(f) \in Nat /\ f # Nil
      /\ b # Nil => CreatedAt(b) \in Nat
  BY ReleasesAssumption
<1>1. CASE newer = {}
  <2>1. e = b
    BY <1>1 DEF Kept
  <2>2. \A f \in es : b # Nil /\ ~ (CreatedAt(f) > CreatedAt(b))
    BY <1>1
  <2> QED
    BY <1>0, <2>1, <2>2
<1>2. CASE newer # {}
  <2>1. e \in newer /\ \A f \in newer : CreatedAt(f) <= CreatedAt(e)
    BY <1>2 DEF Kept, NewestOf
  <2>2. ASSUME NEW f \in es PROVE CreatedAt(f) <= CreatedAt(e)
    BY <1>0, <2>1, <2>2
  <2> QED
    BY <1>0, <2>1, <2>2
<1> QED
  BY <1>1, <1>2

\* What is on some relay.
LEMMA OnRelaysHas ==
  /\ OnRelays.releases = UNION {holds[r] : r \in Relays}
  /\ OnRelays.revoked = UNION {revs[r] : r \in Relays}
  BY DEF OnRelays

\* What is on the relays, of the type of what a request knows.
LEMMA OnRelaysType ==
  ASSUME TypeOK PROVE OnRelays \in [releases : SUBSET Releases, revoked : SUBSET Releases]
  BY DEF OnRelays, TypeOK

\* A new Resolver knows nothing and has asked for nothing.
LEMMA ReleasesInit == Init => ReleasesInv
<1> SUFFICES ASSUME Init PROVE ReleasesInv
  OBVIOUS
<1>1. TypeOK
  BY ReleasesAssumption DEF Init, TypeOK, EmptyCache, Nothing
<1>2. ASSUME NEW p \in Procs PROVE LookupOK(p)
  BY DEF Init, LookupOK, KnownStays, StartsEmpty, BestOnRelays, NewestSoFar, UnrevokedSoFar, Nothing
<1> QED
  BY <1>1, <1>2 DEF ReleasesInv

\* A step of p leaves the relays and the other requests alone: what is to be
\* shown of it is about p.
LEMMA OwnStep ==
  ASSUME ReleasesInv, NEW p \in Procs, TypeOK', holds' = holds, revs' = revs, LookupOK(p)',
         \A q \in Procs : q # p => /\ pc'[q] = pc[q] /\ waiting'[q] = waiting[q]
                                   /\ best'[q] = best[q] /\ expired'[q] = expired[q]
                                   /\ cut'[q] = cut[q] /\ known'[q] = known[q]
  PROVE  ReleasesInv'
<1>1. OnRelays' = OnRelays
  BY DEF OnRelays
<1>2. ASSUME NEW q \in Procs, q # p PROVE LookupOK(q)'
  <2>1. LookupOK(q)
    BY DEF ReleasesInv
  <2> QED
    BY <1>1, <1>2, <2>1
    DEF LookupOK, KnownStays, StartsEmpty, BestOnRelays, NewestSoFar, UnrevokedSoFar
<1> QED
  BY <1>2 DEF ReleasesInv

\* Release returns: nothing is left of the lookup.
LEMMA ReturnStep ==
  ASSUME ReleasesInv, NEW p \in Procs, Return(p), UNCHANGED world,
         item' \in [event : Complete, fresh : BOOLEAN] \union {NoItem},
         negated' \in {"no", "fresh", "stale"}
  PROVE  ReleasesInv'
<1>1. TypeOK'
  <2>1. Nothing \in [releases : SUBSET Releases, revoked : SUBSET Releases]
    BY DEF Nothing
  <2> QED
    BY <2>1 DEF Return, world, ReleasesInv, TypeOK
<1>2. /\ pc'[p] = "idle" /\ waiting'[p] = {} /\ best'[p] = Nil /\ ~ expired'[p]
      /\ known'[p] = Nothing
      /\ \A q \in Procs : q # p => /\ pc'[q] = pc[q] /\ waiting'[q] = waiting[q]
                                   /\ best'[q] = best[q] /\ expired'[q] = expired[q]
                                   /\ cut'[q] = cut[q] /\ known'[q] = known[q]
  BY DEF Return, ReleasesInv, TypeOK
<1>3. LookupOK(p)'
  BY <1>2
  DEF LookupOK, KnownStays, StartsEmpty, BestOnRelays, NewestSoFar, UnrevokedSoFar, Nothing
<1> QED
  BY <1>1, <1>2, <1>3, OwnStep DEF world

\* The lookup goes on, if the relays it waits for are the ones that matter.
LEMMA GoOnStep ==
  ASSUME ReleasesInv, NEW p \in Procs, NEW rs \in SUBSET Relays,
         NEW at \in {"negative", "catalogue", "revocations"},
         GoOn(p, at, rs), UNCHANGED world,
         item' \in [event : Complete, fresh : BOOLEAN] \union {NoItem},
         negated' \in {"no", "fresh", "stale"},
         at \in {"negative", "catalogue"} => best[p] = Nil,
         at = "revocations" => best[p] \in Complete,
         (at = "revocations" /\ ~ cut[p]) =>
           /\ NotOlder(best[p], known[p].releases)
           /\ best[p] \in known[p].revoked => \E r \in rs : best[p] \in revs[r]
  PROVE  ReleasesInv'
<1>1. TypeOK'
  BY DEF GoOn, world, ReleasesInv, TypeOK
<1>2. /\ pc'[p] = at /\ waiting'[p] = rs /\ best' = best /\ expired' = expired /\ cut' = cut
      /\ known' = known /\ holds' = holds /\ revs' = revs
      /\ \A q \in Procs : q # p => pc'[q] = pc[q] /\ waiting'[q] = waiting[q]
  BY DEF GoOn, world, ReleasesInv, TypeOK
<1>3. OnRelays' = OnRelays
  BY <1>2 DEF OnRelays
<1>4. KnownStays(p) /\ StartsEmpty(p) /\ BestOnRelays(p)
  BY DEF ReleasesInv, LookupOK
<1>5. KnownStays(p)' /\ StartsEmpty(p)' /\ BestOnRelays(p)'
  BY <1>2, <1>3, <1>4 DEF KnownStays, StartsEmpty, BestOnRelays
<1>6. NewestSoFar(p)'
  BY <1>2 DEF NewestSoFar, NotOlder
<1>7. UnrevokedSoFar(p)'
  BY <1>2 DEF UnrevokedSoFar
<1>8. LookupOK(p)'
  BY <1>5, <1>6, <1>7 DEF LookupOK
<1> QED
  BY <1>1, <1>2, <1>8, OwnStep

\* The catalogue has no answer: the relays are asked.
Asks(p) == /\ pc' = [pc EXCEPT ![p] = "releases"]
           /\ waiting' = [waiting EXCEPT ![p] = Asked(p)]
           /\ known' = [known EXCEPT ![p] = OnRelays]
           /\ UNCHANGED <<cache, best, expired, cut>>

\* All that is on the relays then is on one that is to answer.
LEMMA AskStep ==
  ASSUME ReleasesInv, NEW p \in Procs, Asks(p), UNCHANGED world, pc[p] = "catalogue"
  PROVE  ReleasesInv'
<1>1. /\ TypeOK /\ LookupOK(p) /\ best[p] = Nil /\ (expired[p] => cut[p])
  BY DEF ReleasesInv, LookupOK, StartsEmpty
<1>2. Asked(p) \in SUBSET Relays /\ (~ cut[p] => Asked(p) = Relays)
  BY <1>1 DEF Asked
<1>3. /\ item' = item /\ negated' = negated /\ catalogue' = catalogue /\ holds' = holds
      /\ revs' = revs /\ best' = best /\ expired' = expired /\ cut' = cut
  BY DEF Asks, cache, world
<1>4. TypeOK'
  BY <1>1, <1>2, <1>3, OnRelaysType DEF Asks, TypeOK
<1>5. /\ pc'[p] = "releases" /\ waiting'[p] = Asked(p) /\ known'[p] = OnRelays
      /\ \A q \in Procs : q # p => pc'[q] = pc[q] /\ waiting'[q] = waiting[q] /\ known'[q] = known[q]
  BY <1>1 DEF Asks, TypeOK
<1>6. OnRelays' = OnRelays
  BY <1>3 DEF OnRelays
<1>7. KnownStays(p)' /\ StartsEmpty(p)' /\ BestOnRelays(p)' /\ UnrevokedSoFar(p)'
  BY <1>1, <1>3, <1>5, <1>6 DEF KnownStays, StartsEmpty, BestOnRelays, UnrevokedSoFar
<1>8. NewestSoFar(p)'
  BY <1>2, <1>3, <1>5, OnRelaysHas DEF NewestSoFar
<1>9. LookupOK(p)'
  BY <1>7, <1>8 DEF LookupOK
<1> QED
  BY <1>3, <1>4, <1>5, <1>9, OwnStep

\* A relay answered the first query, or failed before its last event: the release
\* so far is the newest of what it was and what came.
LEMMA AnswerStep ==
  ASSUME ReleasesInv, NEW p \in Procs, NEW r \in Relays, NEW es \in SUBSET holds[r],
         NEW e \in Kept(best[p], es),
         pc[p] = "releases", pc' = pc, UNCHANGED <<cache, world, expired, known>>,
         best' = [best EXCEPT ![p] = e],
         waiting' = [waiting EXCEPT ![p] = @ \ {r}],
         \/ cut' = [cut EXCEPT ![p] = TRUE]
         \/ cut' = cut /\ es = holds[r]
  PROVE  ReleasesInv'
<1>1. /\ item' = item /\ negated' = negated /\ catalogue' = catalogue /\ holds' = holds
      /\ revs' = revs /\ expired' = expired /\ known' = known
  BY DEF cache, world
<1>2. /\ best[p] \in Releases \union {Nil} /\ es \in SUBSET Releases
      /\ best \in [Procs -> Releases \union {Nil}] /\ waiting \in [Procs -> SUBSET Relays]
      /\ cut \in [Procs -> BOOLEAN] /\ holds[r] \subseteq OnRelays.releases
      /\ \A f \in known[p].releases : CreatedAt(f) \in Nat
      /\ \A f \in Releases : f # Nil /\ CreatedAt(f) \in Nat
  BY ReleasesAssumption, OnRelaysHas DEF ReleasesInv, TypeOK
<1>3. /\ e \in es \union {best[p]}
      /\ \A f \in es : e # Nil /\ CreatedAt(f) <= CreatedAt(e)
      /\ best[p] # Nil => e # Nil /\ CreatedAt(best[p]) <= CreatedAt(e)
  BY <1>2, KeptIsNewest
<1>4. e \in Releases \union {Nil}
  BY <1>2, <1>3
<1>5. TypeOK'
  <2>1. best' \in [Procs -> Releases \union {Nil}] /\ waiting' \in [Procs -> SUBSET Relays]
    BY <1>2, <1>4
  <2>2. cut' \in [Procs -> BOOLEAN]
    BY <1>2
  <2> QED
    BY <1>1, <2>1, <2>2 DEF ReleasesInv, TypeOK
<1>6. /\ best'[p] = e /\ waiting'[p] = waiting[p] \ {r}
      /\ \A q \in Procs : q # p => /\ waiting'[q] = waiting[q] /\ best'[q] = best[q]
                                   /\ cut'[q] = cut[q]
      /\ cut'[p] \/ (~ cut[p] /\ es = holds[r])
  BY <1>2
<1>7. OnRelays' = OnRelays
  BY <1>1 DEF OnRelays
<1>8. KnownStays(p) /\ StartsEmpty(p) /\ BestOnRelays(p) /\ NewestSoFar(p)
  BY DEF ReleasesInv, LookupOK
<1>9. KnownStays(p)' /\ StartsEmpty(p)' /\ UnrevokedSoFar(p)'
  BY <1>1, <1>6, <1>7, <1>8 DEF KnownStays, StartsEmpty, UnrevokedSoFar
<1>10. BestOnRelays(p)'
  BY <1>2, <1>3, <1>6, <1>7, <1>8 DEF BestOnRelays
<1>11. NewestSoFar(p)'
  <2> SUFFICES ASSUME ~ cut'[p], NEW f \in known[p].releases
               PROVE  \/ \E s \in waiting'[p] : f \in holds[s]
                      \/ e # Nil /\ CreatedAt(f) <= CreatedAt(e)
    BY <1>1, <1>6 DEF NewestSoFar
  <2>1. ~ cut[p] /\ es = holds[r]
    BY <1>6
  <2>2. \/ \E s \in waiting[p] : f \in holds[s]
        \/ best[p] # Nil /\ CreatedAt(f) <= CreatedAt(best[p])
    BY <1>8, <2>1 DEF NewestSoFar
  <2>3. CASE f \in holds[r]
    BY <1>3, <2>1, <2>3
  <2>4. CASE \E s \in waiting[p] : s # r /\ f \in holds[s]
    BY <1>6, <2>4
  <2>5. CASE best[p] # Nil /\ CreatedAt(f) <= CreatedAt(best[p])
    <3>1. CreatedAt(f) \in Nat /\ CreatedAt(best[p]) \in Nat /\ CreatedAt(e) \in Nat
      BY <1>2, <1>3, <1>4, <2>5
    <3> QED
      BY <1>3, <2>5, <3>1
  <2> QED
    BY <2>2, <2>3, <2>4, <2>5
<1>12. LookupOK(p)'
  BY <1>9, <1>10, <1>11 DEF LookupOK
<1> QED
  BY <1>1, <1>5, <1>6, <1>12, OwnStep

\* The steps of Release.
LEMMA ReleaseStep ==
  ASSUME ReleasesInv, NEW p \in Procs, Release(p) PROVE ReleasesInv'
<1>1. /\ item \in [event : Complete, fresh : BOOLEAN] \union {NoItem}
      /\ negated \in {"no", "fresh", "stale"} /\ LookupOK(p) /\ TypeOK
      /\ expired[p] => cut[p]
  BY DEF ReleasesInv, TypeOK, LookupOK, StartsEmpty
<1>2. CASE Get(p)
  <2>1. UNCHANGED world /\ pc[p] = "get" /\ negated' = negated
    BY <1>2 DEF Get
  <2>2. CASE Hit
    BY <1>1, <1>2, <2>1, <2>2, ReturnStep DEF Get
  <2>3. CASE ~ Hit
    <3>1. item' = NoItem /\ GoOn(p, "negative", {}) /\ best[p] = Nil
      BY <1>1, <1>2, <2>1, <2>3 DEF Get, DropStale, LookupOK, StartsEmpty
    <3> QED
      BY <1>1, <2>1, <3>1, GoOnStep
  <2> QED
    BY <2>2, <2>3
<1>3. CASE Negative(p)
  <2>1. UNCHANGED world /\ pc[p] = "negative" /\ negated' = negated /\ item' = item /\ best[p] = Nil
    BY <1>1, <1>3 DEF Negative, cache, LookupOK, StartsEmpty
  <2>2. CASE Return(p)
    BY <1>1, <2>1, <2>2, ReturnStep
  <2>3. CASE GoOn(p, "catalogue", {})
    BY <1>1, <2>1, <2>3, GoOnStep
  <2> QED
    BY <1>3, <2>2, <2>3 DEF Negative
<1>4. CASE Newest(p)
  <2>1. UNCHANGED world /\ pc[p] = "catalogue" /\ best[p] = Nil
    BY <1>1, <1>4 DEF Newest, LookupOK, StartsEmpty
  <2>2. ASSUME NEW e \in Releases, Listed(e), Put(e), Return(p) PROVE ReleasesInv'
    <3>1. item' \in [event : Complete, fresh : BOOLEAN] /\ negated' = "no"
      BY <2>2 DEF Listed, Put
    <3> QED
      BY <2>1, <2>2, <3>1, ReturnStep
  <2>3. CASE Asks(p)
    BY <1>4, <2>3, AskStep DEF Newest
  <2> QED
    BY <1>4, <2>2, <2>3 DEF Newest, Asks
<1>5. CASE Parse(p)
  <2>1. UNCHANGED world /\ pc[p] = "releases" /\ waiting[p] = {}
    BY <1>5 DEF Parse
  <2>2. CASE best[p] \in Complete
    <3>1. GoOn(p, "revocations", Asked(p)) /\ item' = item /\ negated' = negated
      BY <1>5, <2>2 DEF Parse, cache
    <3>2. Asked(p) \in SUBSET Relays /\ (~ cut[p] => Asked(p) = Relays)
      BY <1>1 DEF Asked
    <3>3. ~ cut[p] => NotOlder(best[p], known[p].releases)
      BY <1>1, <2>1 DEF LookupOK, NewestSoFar, NotOlder
    <3>4. ~ cut[p] /\ best[p] \in known[p].revoked => \E r \in Asked(p) : best[p] \in revs[r]
      BY <1>1, <3>2, OnRelaysHas DEF LookupOK, KnownStays
    <3> QED
      BY <1>1, <2>1, <2>2, <3>1, <3>2, <3>3, <3>4, GoOnStep
  <2>3. CASE best[p] \notin Complete
    BY <1>5, <2>1, <2>3, ReturnStep DEF Parse, PutNegative
  <2> QED
    BY <2>2, <2>3
<1>6. CASE Unrevoked(p)
  <2>1. best[p] \in Complete
    BY <1>1, <1>6 DEF Unrevoked, LookupOK, BestOnRelays
  <2>2. item' \in [event : Complete, fresh : BOOLEAN] /\ negated' = "no" /\ Return(p)
        /\ UNCHANGED world
    BY <1>6, <2>1 DEF Unrevoked, Put
  <2> QED
    BY <2>2, ReturnStep
<1> QED
  BY <1>2, <1>3, <1>4, <1>5, <1>6 DEF Release

\* The answers of the relays, whole or cut.
LEMMA RelayStep ==
  ASSUME ReleasesInv, NEW p \in Procs, NEW r \in Relays,
         RelayReleases(p, r) \/ RelayRevocations(p, r) \/ RelayFails(p, r)
  PROVE  ReleasesInv'
<1>1. /\ LookupOK(p) /\ TypeOK /\ waiting[p] \in SUBSET Relays
      /\ item \in [event : Complete, fresh : BOOLEAN] \union {NoItem}
      /\ negated \in {"no", "fresh", "stale"}
  BY DEF ReleasesInv, TypeOK
<1>2. CASE RelayReleases(p, r)
  <2>1. PICK e \in Kept(best[p], holds[r]) : best' = [best EXCEPT ![p] = e]
    BY <1>2 DEF RelayReleases
  <2> QED
    BY <1>2, <2>1, AnswerStep DEF RelayReleases, cache, world
<1>3. CASE RelayRevocations(p, r)
  <2>1. pc[p] = "revocations" /\ UNCHANGED world
    BY <1>3 DEF RelayRevocations
  <2>2. CASE best[p] \in revs[r]
    BY <1>3, <2>1, <2>2, ReturnStep DEF RelayRevocations, PutNegative
  <2>3. CASE best[p] \notin revs[r]
    <3>1. GoOn(p, "revocations", waiting[p] \ {r}) /\ item' = item /\ negated' = negated
      BY <1>3, <2>3 DEF RelayRevocations, cache
    <3>2. best[p] \in Complete /\ (~ cut[p] => NotOlder(best[p], known[p].releases))
      BY <1>1, <2>1 DEF LookupOK, BestOnRelays, NewestSoFar
    <3>3. (~ cut[p] /\ best[p] \in known[p].revoked) =>
            \E s \in waiting[p] \ {r} : best[p] \in revs[s]
      BY <1>1, <2>1, <2>3 DEF LookupOK, UnrevokedSoFar
    <3>4. waiting[p] \ {r} \in SUBSET Relays
      BY <1>1
    <3> QED
      BY <1>1, <2>1, <3>1, <3>2, <3>3, <3>4, GoOnStep
  <2> QED
    BY <2>2, <2>3
<1>4. CASE RelayFails(p, r) /\ pc[p] = "releases"
  <2>1. PICK es \in SUBSET holds[r] :
          \E e \in Kept(best[p], es) : best' = [best EXCEPT ![p] = e]
    BY <1>4 DEF RelayFails
  <2>2. PICK e \in Kept(best[p], es) : best' = [best EXCEPT ![p] = e]
    BY <2>1
  <2> QED
    BY <1>4, <2>1, <2>2, AnswerStep DEF RelayFails, cache, world
<1>5. CASE RelayFails(p, r) /\ pc[p] = "revocations"
  <2>1. /\ item' = item /\ negated' = negated /\ catalogue' = catalogue /\ holds' = holds
        /\ revs' = revs /\ pc' = pc /\ best' = best /\ expired' = expired /\ known' = known
        /\ waiting' = [waiting EXCEPT ![p] = @ \ {r}] /\ cut' = [cut EXCEPT ![p] = TRUE]
    BY <1>5 DEF RelayFails, cache, world
  <2>2. TypeOK'
    BY <1>1, <2>1 DEF TypeOK
  <2>3. /\ cut'[p]
        /\ \A q \in Procs : q # p => waiting'[q] = waiting[q] /\ cut'[q] = cut[q]
    BY <1>1, <2>1 DEF TypeOK
  <2>4. LookupOK(p)'
    BY <1>1, <2>1, <2>3
    DEF LookupOK, KnownStays, StartsEmpty, BestOnRelays, NewestSoFar, UnrevokedSoFar, OnRelays
  <2> QED
    BY <2>1, <2>2, <2>3, <2>4, OwnStep
<1> QED
  BY <1>2, <1>3, <1>4, <1>5 DEF RelayFails

\* A request begins, or its context ends.
LEMMA ContextStep ==
  ASSUME ReleasesInv, NEW p \in Procs, Begin(p) \/ ContextEnds(p) PROVE ReleasesInv'
<1>1. LookupOK(p) /\ TypeOK
  BY DEF ReleasesInv
<1>2. /\ item' = item /\ negated' = negated /\ catalogue' = catalogue /\ holds' = holds
      /\ revs' = revs /\ best' = best
  BY DEF Begin, ContextEnds, cache, world
<1>3. OnRelays' = OnRelays
  BY <1>2 DEF OnRelays
<1>4. CASE Begin(p)
  <2>1. /\ pc[p] = "idle" /\ pc' = [pc EXCEPT ![p] = "get"] /\ known' = known
        /\ waiting' = waiting /\ expired' = expired /\ cut' = cut
    BY <1>4 DEF Begin
  <2>2. TypeOK'
    BY <1>1, <1>2, <2>1 DEF TypeOK
  <2>3. pc'[p] = "get" /\ \A q \in Procs : q # p => pc'[q] = pc[q]
    BY <1>1, <2>1 DEF TypeOK
  <2>4. LookupOK(p)'
    BY <1>1, <1>2, <1>3, <2>1, <2>3
    DEF LookupOK, KnownStays, StartsEmpty, BestOnRelays, NewestSoFar, UnrevokedSoFar
  <2> QED
    BY <1>2, <2>1, <2>2, <2>3, <2>4, OwnStep
<1>5. CASE ContextEnds(p)
  <2>1. /\ expired' = [expired EXCEPT ![p] = TRUE] /\ cut' = [cut EXCEPT ![p] = TRUE]
        /\ waiting' = [waiting EXCEPT ![p] = {}] /\ pc' = pc /\ known' = known
    BY <1>5 DEF ContextEnds
  <2>2. TypeOK'
    BY <1>1, <1>2, <2>1 DEF TypeOK
  <2>3. /\ cut'[p]
        /\ \A q \in Procs : q # p => /\ waiting'[q] = waiting[q] /\ cut'[q] = cut[q]
                                     /\ expired'[q] = expired[q]
    BY <1>1, <2>1 DEF TypeOK
  <2>4. LookupOK(p)'
    BY <1>1, <1>2, <1>3, <2>1, <2>3
    DEF LookupOK, KnownStays, StartsEmpty, BestOnRelays, NewestSoFar, UnrevokedSoFar
  <2> QED
    BY <1>2, <2>1, <2>2, <2>3, <2>4, OwnStep
<1> QED
  BY <1>4, <1>5

\* The publisher adds to a relay, or a TTL runs out: no request moves.
LEMMA WorldStep ==
  ASSUME ReleasesInv,
         Expire \/ \E r \in Relays, e \in Releases : Publish(r, e) \/ Revoke(r, e)
  PROVE  ReleasesInv'
<1>1. /\ pc' = pc /\ waiting' = waiting /\ best' = best /\ expired' = expired /\ cut' = cut
      /\ known' = known /\ catalogue' = catalogue
  BY DEF Expire, Publish, Revoke, world
<1>2. /\ holds' \in [Relays -> SUBSET Releases] /\ revs' \in [Relays -> SUBSET Releases]
      /\ \A r \in Relays : holds[r] \subseteq holds'[r] /\ revs[r] \subseteq revs'[r]
  <2>1. CASE Expire
    BY <2>1 DEF Expire, world, ReleasesInv, TypeOK
  <2>2. ASSUME NEW r \in Relays, NEW e \in Releases, Publish(r, e) \/ Revoke(r, e)
        PROVE  /\ holds' \in [Relays -> SUBSET Releases] /\ revs' \in [Relays -> SUBSET Releases]
               /\ \A s \in Relays : holds[s] \subseteq holds'[s] /\ revs[s] \subseteq revs'[s]
    <3>1. \/ revs' = revs /\ holds' = [holds EXCEPT ![r] = holds[r] \union {e}]
          \/ holds' = holds /\ revs' = [revs EXCEPT ![r] = revs[r] \union {e}]
      BY <2>2 DEF Publish, Revoke
    <3>2. holds \in [Relays -> SUBSET Releases] /\ revs \in [Relays -> SUBSET Releases]
      BY DEF ReleasesInv, TypeOK
    <3> QED
      BY <3>1, <3>2
  <2> QED
    BY <2>1, <2>2
<1>3. /\ item' \in [event : Complete, fresh : BOOLEAN] \union {NoItem}
      /\ negated' \in {"no", "fresh", "stale"}
  <2>1. CASE Expire
    <3>1. item.fresh /\ item' = [item EXCEPT !.fresh = FALSE] => item \in [event : Complete, fresh : BOOLEAN]
      BY DEF ReleasesInv, TypeOK, NoItem
    <3> QED
      BY <2>1, <3>1 DEF Expire, ItemEnds, NegativeEnds, ReleasesInv, TypeOK
  <2>2. CASE ~ Expire
    BY <2>2 DEF Publish, Revoke, cache, ReleasesInv, TypeOK
  <2> QED
    BY <2>1, <2>2
<1>4. TypeOK'
  BY <1>1, <1>2, <1>3 DEF ReleasesInv, TypeOK
<1>5. /\ OnRelays.releases \subseteq OnRelays'.releases
      /\ OnRelays.revoked \subseteq OnRelays'.revoked
  BY <1>2 DEF OnRelays
<1>6. ASSUME NEW p \in Procs PROVE LookupOK(p)'
  <2>1. LookupOK(p) /\ waiting[p] \subseteq Relays
    BY DEF ReleasesInv, TypeOK
  <2>2. KnownStays(p)' /\ StartsEmpty(p)' /\ BestOnRelays(p)'
    BY <1>1, <1>5, <2>1 DEF LookupOK, KnownStays, StartsEmpty, BestOnRelays
  <2>3. NewestSoFar(p)'
    BY <1>1, <1>2, <2>1 DEF LookupOK, NewestSoFar
  <2>4. UnrevokedSoFar(p)'
    BY <1>1, <1>2, <2>1 DEF LookupOK, UnrevokedSoFar
  <2> QED
    BY <2>2, <2>3, <2>4 DEF LookupOK
<1> QED
  BY <1>4, <1>6 DEF ReleasesInv

\* Every step keeps the invariant.
LEMMA ReleasesStep == ReleasesInv /\ [Next]_vars => ReleasesInv'
<1> SUFFICES ASSUME ReleasesInv, [Next]_vars PROVE ReleasesInv'
  OBVIOUS
<1>1. CASE UNCHANGED vars
  <2>1. UNCHANGED <<item, negated, catalogue, holds, revs, pc, waiting, best, expired, cut, known>>
    BY <1>1 DEF vars, world
  <2> QED
    BY <2>1 DEF ReleasesInv, TypeOK, LookupOK, KnownStays, StartsEmpty, BestOnRelays, NewestSoFar,
                UnrevokedSoFar, OnRelays
<1>2. CASE Next
  BY <1>2, ReleaseStep, RelayStep, ContextStep, WorldStep DEF Next
<1> QED
  BY <1>1, <1>2

\* The invariant always holds.
LEMMA ReleasesAlways == Spec => []ReleasesInv
  BY ReleasesInit, ReleasesStep, PTL DEF Spec

\* The variables keep their types: what Release caches is a release that has its
\* tags, although the second query runs long after they were looked at.
THEOREM ReleasesTypeCorrect == Spec => []TypeOK
<1>1. ReleasesInv => TypeOK
  BY DEF ReleasesInv
<1> QED
  BY ReleasesAlways, <1>1, PTL

\* What p's lookup ends with, in the step that ends it.
EndsCurrent(p) ==
  (pc[p] \in {"releases", "revocations"} /\ pc'[p] = "idle" /\ ~ cut[p]) =>
    IF Hit'
    THEN /\ Cached' \in Complete \ known[p].revoked
         /\ NotOlder(Cached', known[p].releases)
    ELSE ~ (AllValid /\ known[p].releases # {})

\* A step that does not return from a lookup of p.
LEMMA NotMine ==
  ASSUME TypeOK, NEW p \in Procs, pc'[p] = pc[p] \/ pc[p] \notin {"releases", "revocations"}
  PROVE  EndsCurrent(p)
  BY DEF EndsCurrent

\* Each of the three ways a lookup of p ends.
LEMMA LookupEnds ==
  ASSUME ReleasesInv, NEW p \in Procs,
         Parse(p) \/ Unrevoked(p) \/ \E r \in Relays : RelayRevocations(p, r)
  PROVE  EndsCurrent(p)
<1> SUFFICES ASSUME pc'[p] = "idle", ~ cut[p]
             PROVE  IF Hit'
                    THEN /\ Cached' \in Complete \ known[p].revoked
                         /\ NotOlder(Cached', known[p].releases)
                    ELSE ~ (AllValid /\ known[p].releases # {})
  BY DEF EndsCurrent
<1>1. LookupOK(p) /\ pc \in [Procs -> {"idle", "get", "negative", "catalogue", "releases", "revocations"}]
  BY DEF ReleasesInv, TypeOK
<1>2. CASE Parse(p)
  <2>1. pc[p] = "releases" /\ waiting[p] = {} /\ PutNegative /\ best[p] \notin Complete
    BY <1>1, <1>2 DEF Parse, GoOn
  <2>2. ~ Hit'
    BY <2>1 DEF PutNegative, Hit, NoItem
  <2>3. \A f \in known[p].releases : best[p] # Nil /\ CreatedAt(f) <= CreatedAt(best[p])
    BY <1>1, <2>1 DEF LookupOK, NewestSoFar
  <2>4. CASE best[p] = Nil
    BY <2>2, <2>3, <2>4
  <2>5. CASE best[p] # Nil
    BY <1>1, <2>1, <2>2, <2>5 DEF LookupOK, BestOnRelays, AllValid
  <2> QED
    BY <2>4, <2>5
<1>3. CASE Unrevoked(p)
  <2>1. pc[p] = "revocations" /\ waiting[p] = {} /\ item' = [event |-> best[p], fresh |-> TRUE]
    BY <1>3 DEF Unrevoked, Put
  <2>2. Hit' /\ Cached' = best[p]
    BY <2>1 DEF Hit, Cached
  <2>3. best[p] \in Complete \ known[p].revoked /\ NotOlder(best[p], known[p].releases)
    BY <1>1, <2>1 DEF LookupOK, BestOnRelays, NewestSoFar, UnrevokedSoFar
  <2> QED
    BY <2>2, <2>3
<1>4. ASSUME NEW r \in Relays, RelayRevocations(p, r)
      PROVE  ~ Hit' /\ ~ AllValid
  <2>1. pc[p] = "revocations" /\ PutNegative /\ best[p] \in revs[r]
    BY <1>1, <1>4 DEF RelayRevocations, GoOn
  <2>2. ~ Hit'
    BY <2>1 DEF PutNegative, Hit, NoItem
  <2>3. best[p] \in OnRelays.revoked
    BY <2>1, OnRelaysHas
  <2>4. best[p] \in OnRelays.releases
    BY <1>1, <2>1, ReleasesAssumption DEF LookupOK, BestOnRelays
  <2> QED
    BY <2>2, <2>3, <2>4 DEF AllValid
<1> QED
  BY <1>2, <1>3, <1>4

\* Every step ends a lookup as it should.
LEMMA StepEndsCurrent ==
  ASSUME ReleasesInv, [Next]_vars, NEW p \in Procs PROVE EndsCurrent(p)
<1>1. TypeOK
  BY DEF ReleasesInv
<1>2. CASE Parse(p) \/ Unrevoked(p) \/ \E r \in Relays : RelayRevocations(p, r)
  BY <1>2, LookupEnds
<1>3. ASSUME NEW q \in Procs, q # p,
             Begin(q) \/ Release(q) \/ ContextEnds(q)
             \/ \E r \in Relays : RelayReleases(q, r) \/ RelayRevocations(q, r) \/ RelayFails(q, r)
      PROVE  pc'[p] = pc[p]
  <2>1. pc' = pc \/ \E l : pc' = [pc EXCEPT ![q] = l]
    BY <1>3 DEF Begin, Release, Get, Negative, Newest, Parse, Unrevoked, ContextEnds, RelayReleases,
                RelayRevocations, RelayFails, Return, GoOn
  <2> QED
    BY <1>1, <1>3, <2>1 DEF TypeOK
<1>4. CASE \/ Begin(p) \/ Get(p) \/ Negative(p) \/ Newest(p) \/ ContextEnds(p)
           \/ \E r \in Relays : RelayReleases(p, r) \/ RelayFails(p, r)
  <2>1. pc'[p] = pc[p] \/ pc[p] \notin {"releases", "revocations"}
    BY <1>4 DEF Begin, Get, Negative, Newest, ContextEnds, RelayReleases, RelayFails
  <2> QED
    BY <1>1, <2>1, NotMine
<1>5. CASE Expire \/ \E r \in Relays, e \in Releases : Publish(r, e) \/ Revoke(r, e)
  <2>1. pc' = pc
    BY <1>5 DEF Expire, Publish, Revoke
  <2> QED
    BY <1>1, <2>1, NotMine
<1>6. CASE UNCHANGED vars
  <2>1. pc' = pc
    BY <1>6 DEF vars
  <2> QED
    BY <1>1, <2>1, NotMine
<1> QED
  BY <1>1, <1>2, <1>3, <1>4, <1>5, <1>6, NotMine DEF Next, Release

\* With every relay answering both queries, NewestRelease returns a release that
\* has its tags, that no relay had revoked and for which none had a newer one when
\* the queries began, and it returns one if there was one then and all releases are
\* valid; whatever the publisher does between the answers.
THEOREM LookupIsCurrent == Spec => CompleteLookupIsCurrent
<1>1. ReleasesInv /\ [Next]_vars => [\A p \in Procs : EndsCurrent(p)]_vars
  BY StepEndsCurrent
<1> QED
  BY ReleasesAlways, <1>1, PTL DEF Spec, CompleteLookupIsCurrent, EndsCurrent
=============================================================================
