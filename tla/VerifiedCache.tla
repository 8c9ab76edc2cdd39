--------------------------- MODULE VerifiedCache ---------------------------
(***************************************************************************)
(* What the gateway's blob cache promises its requests, without saying how *)
(* it is done: a bounded set of blobs is held; a request for a blob is     *)
(* answered with exactly that blob or with nothing (or, when the read of a *)
(* held blob fails, with a part of it); a request may add the blob it      *)
(* asked for, and then makes room: when it is answered, the held blobs fit *)
(* the limit, or none of them could be removed.  That ends when a reload   *)
(* makes the cache share its directory, and a restart begins anew with     *)
(* what is held.  BlobStore implements this module.                        *)
(***************************************************************************)
EXTENDS Naturals

CONSTANTS Blobs,      \* the blobs, named by their sha256
          Procs,      \* request goroutines
          Bytes(_),   \* the bytes that a set of blobs takes
          Quotas,     \* the limits an operator may configure
          Nothing,    \* the answer that carries no bytes (404)
          Cut         \* an answer with a part of a blob

VARIABLES held,    \* the blobs in the cache
          limit,   \* the configured quota
          shared,  \* whether a second cache was opened over the same directory
          busy,    \* the requests that wait for their answer
          storing, \* those of them that have stored their blob and make room
          stuck,   \* the held blobs that could not be removed meanwhile
          want,    \* want[p]: the blob p asked for
          got      \* got[p]: the answer p received

cacheVars == <<held, limit, shared, busy, storing, stuck, want, got>>

CacheInit == /\ held = {}
             /\ limit \in Quotas
             /\ shared = FALSE
             /\ busy = {}
             /\ storing = {}
             /\ stuck = {}
             /\ want \in [Procs -> Blobs]
             /\ got = [p \in Procs |-> Nothing]

\* A new request asks for a blob.
Ask(p) == /\ p \notin busy
          /\ busy' = busy \union {p}
          /\ \E b \in Blobs : want' = [want EXCEPT ![p] = b]
          /\ got' = [got EXCEPT ![p] = Nothing]
          /\ UNCHANGED <<held, limit, shared, storing, stuck>>

\* The answer a leaves what is held alone.
Reply(p, a) == /\ p \in busy
               /\ busy' = busy \ {p}
               /\ got' = [got EXCEPT ![p] = a]
               /\ UNCHANGED <<held, limit, shared, want>>

\* A request that stores nothing is answered; a part of a blob is only read from
\* the cache itself.
Answer(p) == /\ p \notin storing
             /\ \/ Reply(p, want[p])
                \/ Reply(p, Nothing)
                \/ want[p] \in held /\ Reply(p, Cut)
             /\ UNCHANGED <<storing, stuck>>

\* The blob a request asked for is added; an unshared cache stores one at a time.
Keep(p) == /\ p \in busy \ storing
           /\ shared \/ storing = {}
           /\ held' = held \union {want[p]}
           /\ storing' = storing \union {p}
           /\ UNCHANGED <<limit, shared, busy, stuck, want, got>>

\* Room is made for it: blobs are dropped, or found impossible to drop.
MakeRoom == /\ storing # {}
            /\ \/ held' \subseteq held /\ stuck' = stuck
               \/ held' = held /\ stuck \subseteq stuck'
            /\ UNCHANGED <<limit, shared, busy, storing, want, got>>

\* A request that stored its blob is answered with it once there is room.
Settle(p) == /\ p \in storing
             /\ shared \/ Bytes(held) <= limit \/ held \subseteq stuck
             /\ Reply(p, want[p])
             /\ storing' = storing \ {p}
             /\ shared \/ stuck' = {}

\* The process restarts, perhaps while room is being made: requests are lost, the
\* held blobs are not.
RestartCache == /\ busy' = {}
                /\ storing' = {}
                /\ stuck' = {}
                /\ limit' \in Quotas
                /\ shared' = FALSE
                /\ got' = [p \in Procs |-> Nothing]
                /\ UNCHANGED <<held, want>>

\* A reload: the limit may change, and the directory has a second cache.
Share == /\ limit' \in Quotas
         /\ shared' = TRUE
         /\ stuck' = {}
         /\ UNCHANGED <<held, busy, storing, want, got>>

CacheNext == \/ \E p \in Procs : Ask(p) \/ Answer(p) \/ Keep(p) \/ Settle(p)
             \/ MakeRoom
             \/ RestartCache
             \/ Share

CacheSpec == CacheInit /\ [][CacheNext]_cacheVars
=============================================================================
