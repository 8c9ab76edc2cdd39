---------------------------- MODULE ManifestCache ----------------------------
(***************************************************************************)
(* The two maps of ManifestCache (internal/cache/cache.go) for one key: a  *)
(* positive entry and a negative one, each with a TTL.  What is cached for *)
(* one key never touches another, and each method holds the mutex, so a    *)
(* method is one step.  Resolver caches manifests here, Releases releases. *)
(***************************************************************************)
CONSTANT Nil        \* no event

VARIABLES item,     \* the positive entry: an event and whether its TTL runs
          negated   \* the negative entry: "no", "fresh" or "stale"

cache == <<item, negated>>

NoItem == [event |-> Nil, fresh |-> FALSE]

EmptyCache == item = NoItem /\ negated = "no"

\* The event of the positive entry.
Cached == item.event

\* A mutant of Missed: a miss is never over.
MissedForever == negated # "no"

\* What Get and Negative find: an entry whose TTL runs.
Hit == item.fresh
Missed == negated = "fresh"

\* Get deletes a stale positive entry; Negative leaves a stale negative one.
DropStale == item' = NoItem

\* A mutant of Put: the negative entry stays beside the positive one.
PutKeepsMiss(e) == item' = [event |-> e, fresh |-> TRUE] /\ UNCHANGED negated

\* Put and PutNegative: each drops the other's entry.
Put(e) == item' = [event |-> e, fresh |-> TRUE] /\ negated' = "no"
PutNegative == negated' = "fresh" /\ item' = NoItem

\* The TTLs run out.
ItemEnds == /\ item.fresh
            /\ item' = [item EXCEPT !.fresh = FALSE]
            /\ UNCHANGED negated
NegativeEnds == negated = "fresh" /\ negated' = "stale" /\ UNCHANGED item
=============================================================================
