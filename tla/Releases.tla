------------------------------ MODULE Releases ------------------------------
(***************************************************************************)
(* Resolver.Release (internal/resolve/resolve.go) for one publisher/name:  *)
(* the cached release, else the operator's catalogue (npk/catalogue.go),   *)
(* else the relays (NewestRelease, npk/npk.go): one query for the releases *)
(* and, when the newest one has its tags, a second one for revocations.    *)
(*                                                                         *)
(* A relay's answer to a query is one step: the finer steps of a lookup,   *)
(* event by event, are those of Resolver.  The request's context ends      *)
(* after 20 seconds (server.go:393) or when its client goes away.  The     *)
(* catalogue is read when a Resolver is built and stays as it is for the   *)
(* life of one, which is a behaviour here.                                 *)
(***************************************************************************)
EXTENDS ManifestCache, Naturals, FiniteSets

CONSTANTS Releases,     \* the release events of publisher/name
          CreatedAt(_), \* their timestamps
          Complete,     \* the ones that parseRelease accepts
          Relays,       \* the configured lookup relays
          Old,          \* the releases on every relay from the start
          Carries(_),   \* the releases that a relay may come to store
          Revocable,    \* the releases that may be revoked
          Catalogues,   \* the catalogues the operator may have
          Procs         \* requests for the site

ASSUME ReleasesAssumption ==
  /\ Nil \notin Releases
  /\ Complete \subseteq Releases /\ Old \subseteq Releases /\ Revocable \subseteq Releases
  /\ \A r \in Relays : Carries(r) \subseteq Releases
  /\ \A e \in Releases : CreatedAt(e) \in Nat
  /\ Catalogues \subseteq [releases : SUBSET Releases, revoked : SUBSET Releases]

VARIABLES catalogue, \* the catalogue of this Resolver (an empty one is none)
          holds,     \* holds[r]: the releases relay r stores
          revs,      \* revs[r]: the releases that a revocation on relay r names
          pc,        \* where a request is
          waiting,   \* waiting[p]: the relays that p's query still waits for
          best,      \* best[p]: the newest release so far
          expired,   \* expired[p]: p's context has ended
          cut,       \* cut[p]: some relay's answer did not reach p
          known      \* known[p]: what was on the relays when p asked them (for the properties)

world == <<catalogue, holds, revs>>
vars == <<item, negated, world, pc, waiting, best, expired, cut, known>>

OnRelays == [releases |-> UNION {holds[r] : r \in Relays},
             revoked |-> UNION {revs[r] : r \in Relays}]

Nothing == [releases |-> {}, revoked |-> {}]

Init == /\ EmptyCache
        /\ catalogue \in Catalogues
        /\ holds = [r \in Relays |-> Old]
        /\ revs = [r \in Relays |-> {}]
        /\ pc = [p \in Procs |-> "idle"]
        /\ waiting = [p \in Procs |-> {}]
        /\ best = [p \in Procs |-> Nil]
        /\ expired = [p \in Procs |-> FALSE]
        /\ cut = [p \in Procs |-> FALSE]
        /\ known = [p \in Procs |-> Nothing]

\* The newest of es, and the one the loops keep: an equally new one does not
\* replace the one they have.
NewestOf(es) == {e \in es : \A f \in es : CreatedAt(f) <= CreatedAt(e)}

Kept(b, es) ==
  LET newer == {e \in es : b = Nil \/ CreatedAt(e) > CreatedAt(b)} IN
  IF newer = {} THEN {b} ELSE NewestOf(newer)

\* Release returns what it found in the cache, or put there: the locals of the
\* lookup and its context are gone.
Return(p) ==
  /\ pc' = [pc EXCEPT ![p] = "idle"]
  /\ waiting' = [waiting EXCEPT ![p] = {}]
  /\ best' = [best EXCEPT ![p] = Nil]
  /\ expired' = [expired EXCEPT ![p] = FALSE]
  /\ cut' = [cut EXCEPT ![p] = FALSE]
  /\ known' = [known EXCEPT ![p] = Nothing]

\* The lookup goes on at another place, waiting for the relays rs.
GoOn(p, at, rs) ==
  /\ pc' = [pc EXCEPT ![p] = at]
  /\ waiting' = [waiting EXCEPT ![p] = rs]
  /\ UNCHANGED <<best, expired, cut, known>>

\* A query: a context that has ended gets no answer.
Asked(p) == IF expired[p] THEN {} ELSE Relays

\* serveFromNpk asks for the site's release, with 20 seconds to do so.
Begin(p) == /\ pc[p] = "idle"
            /\ pc' = [pc EXCEPT ![p] = "get"]
            /\ UNCHANGED <<cache, world, waiting, best, expired, cut, known>>

Get(p) == /\ pc[p] = "get"
          /\ IF Hit THEN Return(p) /\ UNCHANGED item
             ELSE DropStale /\ GoOn(p, "negative", {})
          /\ UNCHANGED <<negated, world>>

Negative(p) == /\ pc[p] = "negative"
               /\ IF Missed THEN Return(p) ELSE GoOn(p, "catalogue", {})
               /\ UNCHANGED <<cache, world>>

\* A mutant of Listed: revocations in the catalogue are not looked at.
ListedRevoked(e) == e \in NewestOf(catalogue.releases) /\ e \in Complete

\* Catalogue.Newest returns e: it is the newest one there, has its tags and is not
\* revoked there.  Otherwise it returns nil, whatever older releases there are.
Listed(e) == /\ e \in NewestOf(catalogue.releases)
             /\ e \in Complete
             /\ e \notin catalogue.revoked

\* The catalogue answers; if it has none, NewestRelease asks the relays.
Newest(p) ==
  /\ pc[p] = "catalogue"
  /\ \/ \E e \in Releases : Listed(e) /\ Put(e) /\ Return(p)
     \/ /\ \A e \in Releases : ~ Listed(e)
        /\ pc' = [pc EXCEPT ![p] = "releases"]
        /\ waiting' = [waiting EXCEPT ![p] = Asked(p)]
        /\ known' = [known EXCEPT ![p] = OnRelays]
        /\ UNCHANGED <<cache, best, expired, cut>>
  /\ UNCHANGED world

\* Relay r answers the first query.
RelayReleases(p, r) ==
  /\ pc[p] = "releases" /\ r \in waiting[p]
  /\ \E e \in Kept(best[p], holds[r]) : best' = [best EXCEPT ![p] = e]
  /\ waiting' = [waiting EXCEPT ![p] = @ \ {r}]
  /\ UNCHANGED <<cache, world, pc, expired, cut, known>>

\* The first query is over: without a release, or when the newest one lacks its
\* tags, there is none; otherwise isRevoked asks all relays again, with the same
\* context: one that has ended gets no answer.
Parse(p) ==
  /\ pc[p] = "releases" /\ waiting[p] = {}
  /\ IF best[p] \in Complete
     THEN GoOn(p, "revocations", Asked(p)) /\ UNCHANGED cache
     ELSE PutNegative /\ Return(p)
  /\ UNCHANGED world

\* Relay r answers the second query: one revocation of the release ends it.
RelayRevocations(p, r) ==
  /\ pc[p] = "revocations" /\ r \in waiting[p]
  /\ IF best[p] \in revs[r]
     THEN PutNegative /\ Return(p)
     ELSE GoOn(p, "revocations", waiting[p] \ {r}) /\ UNCHANGED cache
  /\ UNCHANGED world

\* A mutant of Unrevoked: the first relay without a revocation is enough.
UnrevokedAnywhere(p) ==
  /\ pc[p] = "revocations" /\ (waiting[p] = {} \/ waiting[p] # Relays)
  /\ Put(best[p]) /\ Return(p)
  /\ UNCHANGED world

\* No answer had a revocation: isRevoked returns false, never an error.
Unrevoked(p) ==
  /\ pc[p] = "revocations" /\ waiting[p] = {}
  /\ Put(best[p]) /\ Return(p)
  /\ UNCHANGED world

\* Relay r refuses the connection or drops it: only some of its events came.
RelayFails(p, r) ==
  /\ pc[p] \in {"releases", "revocations"} /\ r \in waiting[p]
  /\ \/ /\ pc[p] = "releases"
        /\ \E es \in SUBSET holds[r] :
             \E e \in Kept(best[p], es) : best' = [best EXCEPT ![p] = e]
     \/ pc[p] = "revocations" /\ UNCHANGED best
  /\ waiting' = [waiting EXCEPT ![p] = @ \ {r}]
  /\ cut' = [cut EXCEPT ![p] = TRUE]
  /\ UNCHANGED <<cache, world, pc, expired, known>>

\* A mutant of ContextEnds: it does not end the query that is under way.
ContextEndsLater(p) ==
  /\ pc[p] # "idle" /\ ~ expired[p]
  /\ expired' = [expired EXCEPT ![p] = TRUE]
  /\ cut' = [cut EXCEPT ![p] = TRUE]
  /\ UNCHANGED <<cache, world, pc, waiting, best, known>>

\* The 20 seconds are over or the client has gone: queries end where they are.
ContextEnds(p) ==
  /\ pc[p] # "idle" /\ ~ expired[p]
  /\ expired' = [expired EXCEPT ![p] = TRUE]
  /\ cut' = [cut EXCEPT ![p] = TRUE]
  /\ waiting' = [waiting EXCEPT ![p] = {}]
  /\ UNCHANGED <<cache, world, pc, best, known>>

Expire == /\ ItemEnds \/ NegativeEnds
          /\ UNCHANGED <<world, pc, waiting, best, expired, cut, known>>

\* The publisher publishes a release, or a revocation of one, on relay r.
Publish(r, e) == /\ e \in Carries(r) \ holds[r]
                 /\ holds' = [holds EXCEPT ![r] = @ \union {e}]
                 /\ UNCHANGED <<cache, catalogue, revs, pc, waiting, best, expired, cut, known>>
Revoke(r, e) == /\ e \in (Revocable \intersect OnRelays.releases) \ revs[r]
                /\ revs' = [revs EXCEPT ![r] = @ \union {e}]
                /\ UNCHANGED <<cache, catalogue, holds, pc, waiting, best, expired, cut, known>>

\* What the program does for p, relays aside.
Release(p) == Get(p) \/ Negative(p) \/ Newest(p) \/ Parse(p) \/ Unrevoked(p)

Next == \/ \E p \in Procs :
             \/ Begin(p) \/ Release(p) \/ ContextEnds(p)
             \/ \E r \in Relays : RelayReleases(p, r) \/ RelayRevocations(p, r) \/ RelayFails(p, r)
        \/ Expire
        \/ \E r \in Relays, e \in Releases : Publish(r, e) \/ Revoke(r, e)
Spec == Init /\ [][Next]_vars

\* A request goes on while it can, its 20 seconds end, TTLs run out.  Nothing is
\* assumed of the relays, and the publisher may stop anywhere.
FairSpec == /\ Spec
            /\ \A p \in Procs : WF_vars(Release(p)) /\ WF_vars(ContextEnds(p))
            /\ WF_vars(ItemEnds /\ Expire) /\ WF_vars(NegativeEnds /\ Expire)

----------------------------------------------------------------------------
TypeOK ==
  /\ catalogue \in Catalogues
  /\ holds \in [Relays -> SUBSET Releases]
  /\ revs \in [Relays -> SUBSET Releases]
  /\ item \in [event : Complete, fresh : BOOLEAN] \union {NoItem}
  /\ negated \in {"no", "fresh", "stale"}
  /\ pc \in [Procs -> {"idle", "get", "negative", "catalogue", "releases", "revocations"}]
  /\ waiting \in [Procs -> SUBSET Relays]
  /\ best \in [Procs -> Releases \union {Nil}]
  /\ expired \in [Procs -> BOOLEAN]
  /\ cut \in [Procs -> BOOLEAN]
  /\ known \in [Procs -> [releases : SUBSET Releases, revoked : SUBSET Releases]]

\* With every relay answering both queries, the release that NewestRelease returns
\* has its tags, no relay had a revocation of it when the queries began, and none
\* had a newer release, whatever is published between the answers (npk.go:49-53);
\* and if some relay had a release then and every release on the relays is valid,
\* one is returned.  Nothing is said of a newest release that is revoked or lacks a
\* tag: there NewestRelease returns nil although an older one may be valid, where its
\* comment has "the newest valid" release (npk.go:49).
NotOlder(e, es) == \A f \in es : CreatedAt(f) <= CreatedAt(e)
AllValid == OnRelays.releases \subseteq Complete \ OnRelays.revoked
CompleteLookupIsCurrent ==
  [][\A p \in Procs :
       (pc[p] \in {"releases", "revocations"} /\ pc'[p] = "idle" /\ ~ cut[p]) =>
         IF Hit'
         THEN /\ Cached' \in Complete \ known[p].revoked
              /\ NotOlder(Cached', known[p].releases)
         ELSE ~ (AllValid /\ known[p].releases # {})]_vars

\* The catalogue is "a plain snapshot" of the relays' events (catalogue.go:3-4), and
\* the release it answers with, if any, is still a newest one that none revoked.
NewestValid(view) == (NewestOf(view.releases) \intersect Complete) \ view.revoked
CatalogueAgrees == /\ catalogue.releases \subseteq OnRelays.releases
                   /\ catalogue.revoked \subseteq OnRelays.revoked
                   /\ NewestValid(catalogue) \subseteq NewestValid(OnRelays)

\* Once the publisher has stopped and lookups are no longer cut, and if catalogue
\* and relays agree, a fresh entry is from some time on a newest release that has its
\* tags and that no relay revokes, and there is no fresh miss if all releases are
\* valid: a revocation takes effect although a positive entry never asks again, and
\* a release that a failed revocation query let through goes.  When they do not
\* agree the code follows the catalogue's release, whatever the relays revoke, and
\* the relays' release, whatever the catalogue revokes (resolve.go:109-115).
Settled == CatalogueAgrees => /\ Hit => Cached \in NewestValid(OnRelays)
                              /\ Missed => ~ (AllValid /\ OnRelays.releases # {})
Cutting == \E p \in Procs : pc[p] # "idle" /\ cut[p]
RevocationTakesEffect == <>[] ~ Cutting => <>[] Settled

\* A silent relay holds a request for the 20 seconds of its context and no longer.
EveryReleaseAnswered == \A p \in Procs : pc[p] = "get" ~> pc[p] = "idle"
=============================================================================
