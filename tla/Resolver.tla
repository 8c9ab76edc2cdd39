------------------------------ MODULE Resolver ------------------------------
(***************************************************************************)
(* Resolver.Manifest (internal/resolve/resolve.go) and the ManifestCache   *)
(* it fills (internal/cache/cache.go), for the key of one site: what is    *)
(* cached for one key never touches another.  A reload builds a new cache  *)
(* and a new Resolver, so a behaviour here is the life of one of them.     *)
(*                                                                         *)
(* A lookup subscribes to every relay and takes their events in the order  *)
(* in which they arrive until each has sent its end of stored events, or   *)
(* the request's context ends.  Relays and the author are outside the      *)
(* program: an event may appear on a relay at any time, and a relay may    *)
(* say nothing, or send events and never the end of them.                  *)
(***************************************************************************)
EXTENDS ManifestCache, Naturals, FiniteSets

CONSTANTS Events,       \* the signed manifest events of the site
          CreatedAt(_), \* their timestamps
          Valid,        \* the ones nip5a.Validate accepts
          Relays,       \* the configured lookup relays
          Carries(_),   \* the events that a relay may come to store
          Procs         \* requests for the site

ASSUME ResolverAssumption ==
  /\ Nil \notin Events
  /\ Valid \subseteq Events
  /\ \A e \in Events : CreatedAt(e) \in Nat
  /\ \A r \in Relays : Carries(r) \subseteq Events

VARIABLES holds,    \* holds[r]: the events relay r stores
          pc,       \* where a request is
          waiting,  \* waiting[p]: the relays whose stored events have not ended
          silent,   \* silent[p]: those that have not begun to answer
          sending,  \* sending[p]: for each relay, the events still to come
          asked,    \* asked[p]: every event the relays had for p (for the properties)
          best,     \* best[p]: the newest event so far
          seen,     \* seen[p]: the event IDs so far
          cut,      \* cut[p]: p's lookup lost a relay or p's context
          reply     \* reply[p]: what Manifest last returned to p

vars == <<holds, item, negated, pc, waiting, silent, sending, asked, best, seen, cut, reply>>
lookup == <<waiting, silent, sending, asked, best, seen>>

Init == /\ holds \in [Relays -> SUBSET Events]
        /\ \A r \in Relays : holds[r] \subseteq Carries(r)
        /\ EmptyCache
        /\ pc = [p \in Procs |-> "idle"]
        /\ waiting = [p \in Procs |-> {}]
        /\ silent = [p \in Procs |-> {}]
        /\ sending = [p \in Procs |-> [r \in Relays |-> {}]]
        /\ asked = [p \in Procs |-> {}]
        /\ best = [p \in Procs |-> Nil]
        /\ seen = [p \in Procs |-> {}]
        /\ cut = [p \in Procs |-> FALSE]
        /\ reply = [p \in Procs |-> "none"]

Return(p, answer) == /\ pc' = [pc EXCEPT ![p] = "idle"]
                     /\ reply' = [reply EXCEPT ![p] = answer]

\* A request for the site reaches Manifest.
Begin(p) == /\ pc[p] = "idle"
            /\ pc' = [pc EXCEPT ![p] = "get"]
            /\ cut' = [cut EXCEPT ![p] = FALSE]
            /\ reply' = [reply EXCEPT ![p] = "none"]
            /\ UNCHANGED <<holds, cache, lookup>>

\* ManifestCache.Get: a fresh entry is the answer, a stale one is dropped.
Get(p) == /\ pc[p] = "get"
          /\ IF Hit
             THEN Return(p, Cached) /\ UNCHANGED item
             ELSE /\ DropStale
                  /\ pc' = [pc EXCEPT ![p] = "negative"]
                  /\ UNCHANGED reply
          /\ UNCHANGED <<holds, negated, lookup, cut>>

\* ManifestCache.Negative: a fresh miss answers nil; otherwise newestEvent
\* subscribes to the relays.
Negative(p) ==
  /\ pc[p] = "negative"
  /\ IF Missed
     THEN Return(p, Nil) /\ UNCHANGED <<waiting, silent>>
     ELSE /\ pc' = [pc EXCEPT ![p] = "lookup"]
          /\ waiting' = [waiting EXCEPT ![p] = Relays]
          /\ silent' = [silent EXCEPT ![p] = Relays]
          /\ UNCHANGED reply
  /\ UNCHANGED <<holds, cache, sending, asked, best, seen, cut>>

\* Relay r begins to answer p's subscription: it will send what it stores now.
RelayAnswers(p, r) ==
  /\ pc[p] = "lookup" /\ r \in silent[p]
  /\ silent' = [silent EXCEPT ![p] = @ \ {r}]
  /\ sending' = [sending EXCEPT ![p][r] = holds[r]]
  /\ asked' = [asked EXCEPT ![p] = @ \union holds[r]]
  /\ UNCHANGED <<holds, cache, pc, waiting, best, seen, cut, reply>>

\* Relay r says that its stored events have ended, having sent them all.
EndOfStored(p, r) ==
  /\ pc[p] = "lookup" /\ r \in waiting[p] \ silent[p] /\ sending[p][r] = {}
  /\ waiting' = [waiting EXCEPT ![p] = @ \ {r}]
  /\ UNCHANGED <<holds, cache, pc, silent, sending, asked, best, seen, cut, reply>>

\* A mutant of Newer: the event that arrives last wins.
NewerLast(e, b) == TRUE

\* The comparison of newestEvent: the first of several equally new events wins.
Newer(e, b) == b = Nil \/ CreatedAt(e) > CreatedAt(b)

\* An event of relay r arrives.
Receive(p, r, e) ==
  /\ pc[p] = "lookup" /\ e \in sending[p][r]
  /\ sending' = [sending EXCEPT ![p][r] = @ \ {e}]
  /\ seen' = [seen EXCEPT ![p] = @ \union {e}]
  /\ best' = [best EXCEPT ![p] = IF e \notin seen[p] /\ Newer(e, @) THEN e ELSE @]
  /\ UNCHANGED <<holds, cache, pc, waiting, silent, asked, cut, reply>>

\* Relay r refuses the connection or drops it: what it had left does not come.
RelayFails(p, r) ==
  /\ pc[p] = "lookup" /\ r \in waiting[p]
  /\ waiting' = [waiting EXCEPT ![p] = @ \ {r}]
  /\ silent' = [silent EXCEPT ![p] = @ \ {r}]
  /\ sending' = [sending EXCEPT ![p][r] = {}]
  /\ cut' = [cut EXCEPT ![p] = TRUE]
  /\ UNCHANGED <<holds, cache, pc, asked, best, seen, reply>>

\* The client goes away during the lookup: the request's context ends, and the
\* stream of events with it.
Cancel(p) ==
  /\ pc[p] = "lookup" /\ waiting[p] # {}
  /\ waiting' = [waiting EXCEPT ![p] = {}]
  /\ silent' = [silent EXCEPT ![p] = {}]
  /\ sending' = [sending EXCEPT ![p] = [r \in Relays |-> {}]]
  /\ cut' = [cut EXCEPT ![p] = TRUE]
  /\ UNCHANGED <<holds, cache, pc, asked, best, seen, reply>>

\* A mutant of Acceptable: the event is cached without validation.
AcceptableAny(e) == e # Nil

\* There is an event and nip5a.Validate accepts it.
Acceptable(e) == e \in Valid

\* A mutant of Finish: a lookup that ends without a valid manifest begins again.
FinishRetries(p) ==
  /\ pc[p] = "lookup" /\ waiting[p] = {}
  /\ IF Acceptable(best[p])
     THEN Put(best[p]) /\ Return(p, best[p])
     ELSE pc' = [pc EXCEPT ![p] = "negative"] /\ UNCHANGED <<cache, reply>>
  /\ asked' = [asked EXCEPT ![p] = {}]
  /\ best' = [best EXCEPT ![p] = Nil]
  /\ seen' = [seen EXCEPT ![p] = {}]
  /\ UNCHANGED <<holds, waiting, silent, sending, cut>>

\* The stream is over: the newest event is validated and cached, or a miss is,
\* and newestEvent's locals are gone.
Finish(p) ==
  /\ pc[p] = "lookup" /\ waiting[p] = {}
  /\ IF Acceptable(best[p])
     THEN Put(best[p]) /\ Return(p, best[p])
     ELSE PutNegative /\ Return(p, Nil)
  /\ asked' = [asked EXCEPT ![p] = {}]
  /\ best' = [best EXCEPT ![p] = Nil]
  /\ seen' = [seen EXCEPT ![p] = {}]
  /\ UNCHANGED <<holds, waiting, silent, sending, cut>>

\* The TTLs run out.
ExpireItem == ItemEnds /\ UNCHANGED <<holds, pc, lookup, cut, reply>>
ExpireNegative == NegativeEnds /\ UNCHANGED <<holds, pc, lookup, cut, reply>>

\* The author publishes e on relay r, or another relay passes it on.
Publish(r, e) == /\ e \in Carries(r) \ holds[r]
                 /\ holds' = [holds EXCEPT ![r] = @ \union {e}]
                 /\ UNCHANGED <<cache, pc, lookup, cut, reply>>

Expiry == ExpireItem \/ ExpireNegative

\* What the program does for p by itself: reading the cache, ending the lookup.
Manifest(p) == Get(p) \/ Negative(p) \/ Finish(p)

\* What relay r does to the lookup of p while nothing fails.
Relay(p, r) == \/ RelayAnswers(p, r) \/ EndOfStored(p, r)
               \/ \E e \in Events : Receive(p, r, e)

Next == \/ \E p \in Procs :
             \/ Begin(p) \/ Manifest(p) \/ Cancel(p)
             \/ \E r \in Relays : Relay(p, r) \/ RelayFails(p, r)
        \/ Expiry
        \/ \E r \in Relays, e \in Events : Publish(r, e)
Spec == Init /\ [][Next]_vars

\* Time passes, and a request goes on while it can by itself.  Nothing is assumed
\* of the relays: one may stay silent, or stop in the middle of its answer.
FairSpec == /\ Spec
            /\ \A p \in Procs : WF_vars(Manifest(p))
            /\ WF_vars(ExpireItem) /\ WF_vars(ExpireNegative)

\* The site is published on every relay and stays as it is; relays answer,
\* clients go away.
PublishedSpec ==
  /\ Init /\ \A r \in Relays : holds[r] = Events
  /\ [][\/ \E p \in Procs : \/ Begin(p) \/ Manifest(p) \/ Cancel(p)
                             \/ \E r \in Relays : Relay(p, r)
        \/ Expiry]_vars

----------------------------------------------------------------------------
TypeOK ==
  /\ holds \in [Relays -> SUBSET Events]
  /\ item \in [event : Events, fresh : BOOLEAN] \union {NoItem}
  /\ negated \in {"no", "fresh", "stale"}
  /\ pc \in [Procs -> {"idle", "get", "negative", "lookup"}]
  /\ waiting \in [Procs -> SUBSET Relays]
  /\ silent \in [Procs -> SUBSET Relays]
  /\ sending \in [Procs -> [Relays -> SUBSET Events]]
  /\ asked \in [Procs -> SUBSET Events]
  /\ best \in [Procs -> Events \union {Nil}]
  /\ seen \in [Procs -> SUBSET Events]
  /\ cut \in [Procs -> BOOLEAN]
  /\ reply \in [Procs -> Events \union {Nil, "none"}]

\* "Only validated manifests are ever returned or cached" (resolve.go:2-3),
\* whatever relays send and whenever lookups overlap, fail or are cut.
OnlyValidated == /\ item.event \in Valid \union {Nil}
                 /\ \A p \in Procs : reply[p] \in Valid \union {Nil, "none"}

\* A site is never both found and missing: overlapping lookups that end with
\* different results leave one entry.
OneEntry == ~ (Hit /\ Missed)

\* Whatever the order in which relays answer and events arrive, a lookup that
\* nothing cut short ends with a newest one of all the relays had for it
\* (newestEvent, resolve.go:131-157).
NewestOf(es) == {e \in es : \A f \in es : CreatedAt(f) <= CreatedAt(e)}
EndsWithNewest ==
  \A p \in Procs :
    (pc[p] = "lookup" /\ waiting[p] = {} /\ ~ cut[p] /\ asked[p] # {})
    => best[p] \in NewestOf(asked[p])

\* "Nil when none is found" (resolve.go:40-41): on relays that all have the
\* manifest and answer, only a request that was cut gets nil.
NilMeansMissing == \A p \in Procs : (pc[p] = "idle" /\ reply[p] = Nil) => cut[p]

\* Once events no longer appear and lookups are no longer cut, and if every newest
\* event on the relays is valid, then from some time on no miss is in force and what
\* is cached and fresh is a newest event: neither the result of a lookup that an
\* update or an older valid manifest overtook, nor a miss that a fault left behind,
\* stays.  Of relays whose newest event is invalid nothing is said: there the code
\* caches a miss even when an older event is valid (resolve.go:66-70), although its
\* comment has "the newest valid event wins" (resolve.go:42-43).
Known == UNION {holds[r] : r \in Relays}
Cutting == \E p \in Procs : pc[p] = "lookup" /\ cut[p]
Converges ==
  <>[] ~ Cutting =>
  <>[] ((Known # {} /\ NewestOf(Known) \subseteq Valid)
        => ~ Missed /\ (Hit => Cached \in NewestOf(Known)))

\* A request is answered, relays failing or not and whatever they send, if each
\* relay of a lookup sooner or later ends its answer or fails.  It takes that much:
\* the lookup has no timeout of its own (resolve.go:141), so a relay that says
\* nothing, or sends events and never the end of them, holds it for good.
EveryRequestAnswered ==
  \A p \in Procs :
    (\A r \in Relays : []<>(r \notin waiting[p])) => (pc[p] = "get" ~> pc[p] = "idle")

----------------------------------------------------------------------------
\* What ManifestSource keeps is the entry whose TTL runs, if there is one.
Source == INSTANCE ManifestSource
          WITH known  <- Known,
               kept   <- IF Hit THEN {Cached} ELSE IF Missed THEN {Nil} ELSE {},
               busy   <- {p \in Procs : pc[p] # "idle"},
               answer <- reply

\* The resolver implements ManifestSource: although Manifest reads the two maps of
\* the cache one after the other and lookups of other requests end in between, what
\* it returns is what one step would have returned, and whatever fails or is cut,
\* it is a published and valid manifest or nil.
ImplementsManifestSource == Source!SourceSpec
=============================================================================
