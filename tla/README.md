# nostrhost-nsite: a TLA+ verification project

nostrhost-nsite is a gateway that serves static web sites published on Nostr.
A request's host names a site; the site's manifest (a signed event) comes from
relays and maps paths to sha256 digests; the bytes come from Blossom servers or
from an npk release bundle, and are cached on disk. This directory holds TLA+
models of the parts of the gateway that keep state, the TLC runs that check
them on small instances, and TLAPS proofs of what matters most for all
instances. Paths below are relative to the repository.

Run a model with `tlc -config X.cfg MCModule` and a proof with
`tlapm XProofs.tla`; `PROJECT.json` lists runs, properties, mutants, the
correspondence of definitions to source lines, hazards and theorems.

## 1. Inventory

| Component | Source | State | Operations |
|---|---|---|---|
| Blob cache | `internal/cache/cache.go`, `serveBlob` of `internal/server/server.go` | directory of files named by sha256, `.tmp-*` files; in memory `sizes`, `lastUse`, `used`, `quota` | NewBlobStore/scan, Has, Open, Put, evictLocked |
| Local Blossom server | `internal/blossomsrv/server.go`, `startBlossom` of `main.go` | directory of blobs, `used`, mutex | Put (upload), Get/Has (download, HEAD), authorize, scan, Sweep |
| npk bundle store | `internal/npk/npk.go`, `serveFromNpk` | `<sha>` and `<sha>.unpacking` directories | Has, Unpack, Open |
| Manifest resolution | `internal/resolve/resolve.go`, ManifestCache of `cache.go` | positive and negative entries with deadlines | Manifest, newestEvent, Get, Negative, Put, PutNegative |
| Gateway and reload | `internal/server/server.go`, `cmd/nostrhost-nsite/main.go` | configuration, allowlist, custom domains, backends, local Blossom listener, SIGHUP channel | handlePublic, handleTLSAsk, apply, Configure, Reload, applyBackends, reloadBlossom |
| Release resolution | `internal/npk`, `Resolver.Release` | entries of the same cache, catalogue loaded at reload | Release, NewestRelease, isRevoked, Catalogue.Newest |
| Fetch boundary | `internal/blossom/blob.go`, `fetchFirst` | pool of open connections | Fetch: dial policy, redirects, size cap, digest check |
| Site serving | `serveSite` and what it calls in `internal/server/server.go` | none; browsers keep responses with their ETags | serveSite, serveFromNpk, serveBlob, serveCached, serveBytes |
| Manifest validation, labels | `internal/nip5a` | none | Validate, DecodeLabel |
| Configuration | `internal/config` | none | Load, Validate |
| Path normalisation | `internal/server` | none | normalisePath |
| Metrics, packaging | `internal/metrics`, `deploy` | counters | |

How they interact. `handlePublic` reads the configuration and, if it accepts
host and path, takes the backends of that moment and keeps them to its end. It
asks the resolver for the manifest, then tries the npk bundle store, then the
blob cache, which it fills through the fetcher. A SIGHUP replaces first the
configuration, then the backends (a new manifest cache, a new BlobStore over
the *same* directory), then starts or stops the local Blossom server. Requests
in flight keep the old backends.

What is hard. Every request is a goroutine; what they share is two disk
directories without a lock of their own, one cache, and a configuration that is
read in several lock regions per request. The process may die between two file
operations. Relays fail, answer in any order and disagree. Clients go away in
the middle of a lookup whose result is cached for everybody. Reloads come at
any moment. `PROJECT.json` lists these hazards at their lines.

What makes each part correct:

- *Blob cache*: only bytes with the right digest on disk and in answers; index
  and directory agree; a Put makes room before it returns; eviction is least
  recently used.
- *Blossom server*: the charge is what the directory holds; the quota holds; a
  blob that was accepted stays whole until it outlives the retention.
- *Bundle store*: an installed bundle is all of an acceptable archive; requests
  end.
- *Resolver*: only validated manifests; the newest event wins in any order of
  arrival; the cache converges.
- *Releases*: nothing revoked or outdated is returned by an undisturbed lookup;
  a revocation takes effect; a lookup ends.
- *Fetcher*: no connection to a forbidden address or, unless allowed, without
  TLS, on any hop; bounded redirects, bytes and time.
- *Site*: a path's answer is the author's file of that path; the ETag names the
  bytes.
- *Names, paths, manifests*: one label per site and one site per label; no
  encoding gets around a rule; a valid manifest is a map.
- *Gateway*: a site is served only if the configuration permits it; tls-ask and
  the public handler agree; a reload takes effect and leaves no mixture.

Some of these hold with exceptions that the code has; section 3 lists them.

## 2. Modules

| Module | Models | Checked by | Proved in |
|---|---|---|---|
| `VerifiedCache` | abstract: what a cache of verified blobs promises | refined by `BlobStore` | |
| `BlobStore` | blob cache and the requests using it | `MCBlobStore` | `BlobStoreProofs` |
| `BlossomServer` | local Blossom server | `MCBlossomServer`, 2 runs | `BlossomServerProofs` |
| `BundleStore` | npk bundle store and the requests using it | `MCBundleStore` | `BundleStoreProofs` |
| `ManifestCache` | positive and negative entries of one key | extended by `Resolver`, `Releases` | |
| `ManifestSource` | abstract: what the resolver promises those that ask for a manifest | refined by `Resolver` | |
| `Resolver` | manifest lookups | `MCResolver`, 2 runs | `ResolverProofs` |
| `Releases` | release and revocation lookups, catalogue | `MCReleases` | `ReleasesProofs` |
| `Fetcher` | fetches from Blossom servers | `MCFetcher` | `FetcherProofs` |
| `Site` | composition: manifest, release, bundle, blob cache, fetch, browser | `MCSite`, 2 runs | `SiteProofs` |
| `Gateway` | handlers, configuration and reload | `MCGateway` | `GatewayProofs` |
| `Labels`, `Paths`, `ManifestRules` | the pure functions on labels, paths and manifest events | extended by `Names` | `GatewayProofs` (labels), `SiteProofs` (paths, manifests) |
| `Names` | one call of such a function, with any argument | `MCNames` | `GatewayProofs`, `SiteProofs` |

`Gateway` ends where a site is served, `Site` begins there. `Site` uses of its
parts only what their own modules show: the blob cache returns the blob, nothing
or, when a read fails, its beginning (`BlobStore`), the resolver some published
manifest (`ManifestSource`, implemented by `Resolver`), the fetcher the blob or an
error (`Fetcher`), the bundle store a member of an archive, or what is there of it
once two Unpacks of the archive overlapped (`BundleStore`).

The definitions named `...Twice`, `...Not`, `...Never` and so on, each
introduced by "A mutant of", are wrong versions of the definition that follows;
no specification uses them. They show that the properties can fail: putting the
mutant in the place of the definition makes the property listed with it in
`PROJECT.json` fail.

### BlobStore

`disk[b]` is what the file of blob b holds (nothing, the blob, or torn bytes).
A store is a record: the key sets of `sizes` and `lastUse`, the order of
`lastUse` as a relation, `used` and `quota`, and `vain`, the blobs that the
eviction under way failed to remove. `stores` has one store per generation,
because a SIGHUP opens another one over the directory; `be[p]` is the one request
p began with. A request is idle, then asks `CheckHas`, then either `OpenCached`
or `FetchBody` and Put, or `PutError` where Put fails. Put is one step up to the
lock (`PutTemp`); then, with the store locked (`Locked`), the rename with the index
update (`PutRename`), each removal of evictLocked (`EvictOne`, or `EvictFails` where
the file has gone or cannot be removed), and the end of the loop with the reply
(`EvictDone`). `Oldest` is the blob that comes next in the sort by last use.
`Crash` falls between any two of these: it forgets the requests and the index,
keeps the files, also those an eviction had still to remove, and adds the temporary
files to `orphanBytes`. (Temporary files are counted and have no names; that scan
skips them by the length of their name is a rule of `NewStore`.) A read of a cached
file may fail: serveCached ignores the error, so the request is sent `Torn` bytes
and is noted in the history variable `broken`.

`VerifiedCache` says what a request may rely on: it gets its blob, nothing, or a
part of a held blob; it may add its blob and is then answered with it when there is
room, or when nothing that is held could be removed. A reload ends that promise, a
restart renews it with whatever is held.

### BlossomServer

A file is `len[b]` bytes of blob b, of `Size[b]`. `WriteFile` writes under the
final name, so creation (`PutCreate`, with the mutex taken) and completion
(`PutFinish`) are two steps. Between them a download sees a part, and a crash
leaves one. `PutWriteError` leaves any part and does not charge it. The clock is
the set `old` of files before the retention cutoff; `Restart` scans the
directory, charges it and sweeps. Three variables are history, for the properties:
`failed` (some write has failed), `cut` (the blobs whose last write failed or died
with the process) and `kept` (the blobs that some client was told are stored, or
was sent in full; a restart drops from it what has outlived the retention, and
keeps the rest). The quota is a constant: a restart with a lower one is not
covered.

### BundleStore

One release. The directories are "tmp" (`<sha>.unpacking`, one name for all
requests) and "dest" (`<sha>`). `Unpack` has no lock, so each file operation is
a step: RemoveAll (scan, unlink each, remove), MkdirAll, open and copy each
member, RemoveAll of dest, Rename, and the deferred cleanup. An open file
follows its directory when that is renamed. An entry of the archive is of a
kind that extractTar tells apart: file, directory, ignored, link, path that
escapes, corrupt. `overlapped` is history: two requests were once in progress at
the same time.

### Resolver

One cache key (`ManifestCache`). `item` is the positive entry and `negated` the
negative one, each fresh or expired; time is the actions `ExpireItem` and
`ExpireNegative`.
`Manifest` is Get, Negative, then the lookup: each relay begins to answer with
what it holds at that moment (`RelayAnswers`), its events arrive one by one
(`Receive`), interleaved with those of other relays, and the newest is kept, then
the relay says that its stored events have ended (`EndOfStored`); `Finish` validates
and caches. The pool of relays is external and modelled by the channel that
newestEvent reads: it closes when every relay has ended its answer or failed, or
when the request's context ends (`Cancel`). `silent` has the relays that have not
begun. `Carries` bounds which events a relay may come to store. `cut` is history:
some relay's answer did not reach the lookup.

`ManifestSource` says what a caller may rely on: an answer is given in one step
and is the one in force at that moment, or one that a lookup found and that is in
force from then on, a published and valid manifest or none. In `Resolver` the
answer in force is the entry whose TTL runs (`Source`).

### Releases

One publisher and name, with the same cache. `Release` is Get, Negative, the
catalogue (`Newest`), then NewestRelease: a query for releases, `Parse` of the
newest one, and a query for revocations. A relay's answer to a query is one
step, what it holds may change between the two queries, and each relay may fail
in either. The context (20 seconds, or the client) may end anywhere, which ends
the query under way as if it were complete and leaves the next one without any
answer. The catalogue never changes in a behaviour, which is the life of one
Resolver. `known` is history: what was on the relays when they were asked. `Old`,
`Carries` and `Revocable` bound what is on which relay and what may be revoked.

### Fetcher

One blob, any servers. `FetchFirst` has n servers to try; `Fetch` checks the
scheme, then the request is dialled (`Dial`, to any address its name resolves
to at that moment) or takes an open connection of the pool (`Reuse`). The server
redirects, answers, sends bytes one by one, stops, or does nothing. `via` counts
the requests as CheckRedirect sees them. An address is public, private, loopback
or zoned (an IPv6 literal with a zone, which net.ParseIP does not parse and
checkDialAddr lets pass), and one loopback address may be allowed. `result` is the class that
ClassifyFetchError gives the error (it looks at the words of the error, which
contain the URL, so that a URL with such a word can shift a class; the model
leaves this out, as only a metric depends on it).

### Site

One site, whose author publishes manifests and releases in any order. A
request's steps are those of serveSite: the manifest and the fallback to
/404.html, the release and its bundle, then Has, Open or fetch. A content is
named by its digest. Browsers hold a response per path and send its ETag; on a
304 they show what they hold. `Evict` is the cache making room for others at any
moment. Where `Faulty` is TRUE, reads of the cache fail in the middle (`misread`)
and bundles are installed incomplete (`torn`); `Part(h)` is the beginning of the
content h that is sent then. It is FALSE only in `SiteBundles`, where the
disagreement needs no fault.

### Labels, Paths, ManifestRules, Names

The code's pure functions as operators. There are `KeyCount` keys of `Width`
digits of base `Base`, instead of 2^256 of 50 digits of base 36, with the relation
kept on which the three forms of labels rest (`LabelsAssumption`: the first digit
of a key is below "n" and "v", as 2^256 < 7 * 36^49 makes it in the code). Where
the code goes through a string, the operator is a recursive function over its
positions. A path is a sequence of the characters the rules tell apart, each
with the number of times it is percent-encoded. A manifest is a record of tags
in their order; a tag that only has a shape to check is TRUE or FALSE.
AggregateHash is the bag of lines it hashes, since it sorts them. A behaviour of
`Names` is one call, so that the properties are about every argument of the
instance.

### Gateway

A configuration is what the handlers and the reload read of it, and whether
Load accepts it, its directories can be made and its Blossom address can be
used. The reload goroutine is Notify, TakeSignal, Load, Reload, ApplyBackends,
ReloadBlossom; SIGHUP goes into a buffer of one, and ends a process that has not
asked for it yet. A request is one step per lock
region: isApex, the domain read of parseHost, the custom-domain read, the
allowlist, the backends. `window[p]` records the configurations in force during
the request, for the properties.

## 3. Runs

| Run | States | Shows |
|---|---|---|
| `BlobStore` | 3,083,000 | overlapping requests, crashes before the rename and between the rename and each removal, failing removals and reads, restarts with another quota, a reload that opens a second store: DiskVerified, ServedVerified and EvictsLeastRecent for every store; IndexIsDisk until a process is reloaded; refinement of VerifiedCache throughout, by which, until a reload, a request that stored its blob is answered when the directory fits the quota or nothing in it could be removed |
| `BlossomFaults` | 181,000 | write errors, crashes, restarts that sweep: `used` is what the directory holds (but for the file being written) and within the quota until a write fails, and never more than the directory; an accepted blob is whole from then on, through restarts, until it outlives the retention |
| `BundleOverlap` | 85,000 | overlapping requests, copy errors, crashes: an archive with a forbidden entry is never installed, requests that remove each other's directories all end; until two requests overlap an installed bundle is complete |
| `ResolverFaults` | 549,000 | any order of arrival, relays that fail, stay silent or never end, cut and overlapping lookups: only validated manifests; an uncut lookup ends with a newest event; refinement of ManifestSource; after the last publication and the last cut the cache converges to the newest manifest, where that is valid; a request is answered if each relay ends its answer or fails |
| `ReleasesFaults` | 702,000 | catalogue, two queries, relays that fail, disagree or stay silent, contexts that end: CompleteLookupIsCurrent (nothing that the relays had revoked or outdated when they were asked, and a release if all on the relays are valid); RevocationTakesEffect (where catalogue and relays agree the cache settles on the current release); every lookup ends within its context |
| `FetcherHostile` | 519,000 | two fetches, one pool, any behaviour of servers and names: permitted or zoned peers only, TLS unless http is allowed, no more redirects than the cap, bounded bytes, every fetch ends |
| `SiteVersions` | 1,851,000 | changing manifests and releases, evictions, failed fetches and reads, torn bundles, 304s: what a browser holds for a path is the author's file of that path, or its beginning after a failed read or in a torn bundle; without bundles it shows what the ETag names, or its beginning after a failed read |
| `GatewayReload` | 370,000 | reloads between any two reads of a request: a served site was permitted and named by configurations in force; under one configuration tls-ask grants exactly the hosts that are served, snapshots asked for in open mode aside; between reloads configuration, backends and (on or off) local Blossom server agree; SIGHUPs during a reload are not lost |
| `Names` | 33,000 | each state but the first is one call: labels are canonical (DecodedIsCanonical) and each valid manifest's label leads back to it (ValidIsReachable); what serveSite reads of a valid manifest is a map and is what was validated and the order of path tags does not matter (ValidIsAMap); normalised paths obey the rules in their text after both decodings, stay in the bundle and out of .npack, and keep the paths a manifest may list (NormalisedIsSafe, ListedIsReachable) |

`GatewayReload` does not check for deadlock: a reload may end the process, and
then nothing happens. Neither does `Names`: a behaviour ends after its call.

### Disagreements between code and text

Each of the following runs checks a sentence of a comment against the code, and
TLC finds a behaviour in which the code does otherwise. The quotations are in
`PROJECT.json` under findings.

| Run | What the code does |
|---|---|
| `BlossomTorn` | a torn file left by a write error or a crash is taken for the blob; an upload of it is accepted and not written |
| `ResolverCancel` | a client that goes away leaves a miss for everybody |
| `SiteBundles` | a bundle's file goes out under the digest that the manifest lists for the path, whether or not it is that file, and later 304s confirm it |

The following disagreements have no run of their own. The models contain them as
the code does them, and the property in the last column is stated around them: it
claims nothing there, or less than the text does, and its comment says so.

| Text | What the code does | Stated around by |
|---|---|---|
| `resolve.go:42-43`: "the newest valid event wins; older or invalid manifests are ignored" | an invalid event that is the newest hides an older valid one, and a miss is cached (`resolve.go:65-69`) | Converges |
| `npk.go:49-53`, `resolve.go:93-97`: the newest valid, unrevoked release is returned | a newest release that is revoked or lacks a tag hides all older ones | CompleteLookupIsCurrent |
| the same | a release in the catalogue is returned whatever the relays revoke, and a revocation in the catalogue is not applied to what the relays return (`resolve.go:109-115`) | RevocationTakesEffect |
| `blob.go:2-3`: loopback, private and link-local addresses are rejected at dial time | an IPv6 address with a zone is not parsed by net.ParseIP and passes (`blob.go:63-74`) | OnlyPermittedPeers |
| `blob.go:149-150`: redirects are followed "up to the cap" | one fewer is: CheckRedirect counts the first request (`blob.go:115`), so that `MaxRedirects` = 3 follows two | WorkBounded |
| `server.go:332-334`: a tampered or missing blob is a bounded 404 | the error of the read at `server.go:473` is ignored: the beginning of the blob goes out as a 200 under its ETag, and later 304s confirm it | ServedVerified, VerifiedWithoutBundles, HeldBelongsToPath |
| `cache.go:127`: eviction goes on "until under quota" | a crash between the rename and the removals, or a removal that fails, leaves the directory over the quota; scan evicts nothing, and the next Put does | ImplementsVerifiedCache |
| `server.go:204-205`: open mode "serves any decodable label" | a snapshot is always a 404, since its event id does not reach Manifest (`server.go:344`) | AskMatchesPublic |
| `config.go:117-118`: for a custom domain "the gateway simply serves the mapped site" | it does so only if the site's key is on the allowlist (or in open mode), as `server.go:204` says of every site | AskMatchesPublic follows the code |
| `main.go:54-55`: a reload does not drop connections | one that cannot make a directory or bind an address ends the process (`main.go:101`, `113`, `169`, `176`), and so does a SIGHUP before `signal.Notify` | ReloadTakesEffect is about processes that live |
| `server.go:520-523`: "single percent-decode (double-encoding rejected)"; `fuzz_test.go:47-49` of the server: a doubly encoded slash or dot "is always rejected" | net/http has decoded the path once before, so that such a path is decoded twice and accepted if its text then obeys the rules | NormalisedIsSafe |
| `server.go:521-522`: "empty-ish segments" are rejected and // is collapsed | three slashes become two, and the empty segment stays | NormalisedIsSafe |
| `fuzz_test.go:61-63` of the server: the shared corpus calls a path with ".." within a name invalid | Validate accepts it in a manifest; no request reaches it | ListedIsReachable |
| `server.go:36-38`: per-path blobs are tried "on any miss" of the bundle | a path that the manifest lists and the bundle lacks is a 404 | HeldBelongsToPath permits it |

More of what the code does, that a reader should know and that bounds what the
properties say:

- *Blob cache.* Two Puts of one blob charge it twice, so `Used` may exceed the
  cached bytes; until a reload it is never less. After a SIGHUP two BlobStores work
  on one directory: one evicts what the other lists, and together they may exceed
  the quota. This is why index and room are claimed up to a reload. The temporary
  file of a Put that dies is never counted or removed (`cache.go:91`). A blob of no
  bytes is always a 404 (`server.go:455`).
- *Blossom server.* A download may read a file that is being written. The bytes
  of a failed write are not charged, so that later uploads may exceed the quota.
  A running process never sweeps. Uploading a blob again does not renew its
  modification time, so that the next start may remove it; `AcceptedIsWhole`
  counts on no file that has outlived the retention.
- *Bundle store.* After overlapping Unpacks, `Has` may be true for good of a
  bundle that is incomplete (`npk.go:190`, `npk.go:205`), and a file may be
  served while another request writes it.
- *Lookups.* Of two overlapping lookups the slower may put an older manifest in
  the place of a newer one, until it expires. A manifest lookup has no timeout of
  its own: a relay that says nothing, or sends events and never their end, holds it
  until the client goes away (`resolve.go:141`). A release lookup whose context ends
  in the first query takes the releases that came and gets no revocations.
- *Fetching.* A local Blossom server configured as `localhost:port` is not
  permitted to be fetched from, since the dialled address is compared as text
  (`config.go:224-226`), and fetching from it over http needs `allow_http`.
- *Gateway.* A reload that changes the Blossom address leaves the listener where it
  was and allows the new address; `BackendsMatchConfig` compares only whether the
  server runs. `bs` is written by the reload goroutine and read by main at SIGTERM
  without synchronisation (`main.go:71`, `main.go:81`). The configured domain is not
  lowercased, while hosts are.
- *Paths.* A manifest may list paths with "%" or "//", which no request reaches.
- *Settings without effect.* `fallback_servers` (named in `src/README.md:36-38`),
  `requests_per_second`, `burst`, `fetch_concurrency` and the TTL for releases
  are checked at load and used by nothing.

### Bounds

- Two goroutines (`Procs`): each hazard listed is about two requests, or about
  one request and the process. `GatewayReload` and the `Site` runs have one
  request at a time, since requests there influence each other only through
  state that other actions change at any moment too (reload, `Evict`,
  publications).
- `BlobStore`: three blobs of sizes 1, 2, 2 with quotas 1 and 3. Two blobs fit
  and three do not, one blob is larger than the smaller quota, and a restart may
  lower the quota below what is stored. `MaxGen` = 2 stores suffice for two
  stores to disagree; `MaxOrphanBytes` caps what crashes leave. `MaxUsed` = 5 caps
  what a store has charged: all three blobs on disk at once, or one charged twice.
  Removals of one blob may fail for other reasons than that it has gone
  (`Stubborn`).
- `BlossomServer`: sizes 1, 2, 3 with quota 4: pairs fit and all three do not.
  Quota and cap are 0 (disabled) in `BlossomTorn`. One of two keys is allowed.
- `BundleStore`: two members and five archives: two files; a directory, a
  repeated file and an ignored entry; and a forbidden entry of each kind after a
  file was written.
- `Resolver`: two relays and three events: an older valid one, a newer valid one
  that both relays carry, and an invalid one as new as that. So an older valid
  manifest meets a newer one, equally new ones meet, and the newest may be invalid.
- `Releases`: two relays and three releases: an old valid one, a newer one that may
  be revoked, and a still newer one that lacks a tag, so that both kinds of newest
  release hide an older valid one; catalogues that are empty, outdated, current, or
  know a revocation.
- `Fetcher`: a cap of one byte, `MaxRedirects` = 2, at most two servers, and an
  address of each kind, zoned ones included, with one loopback address allowed and
  one not: each limit is reached and exceeded.
- `Site`: two paths, one of them /404.html, two versions, a manifest without the
  404 page, an archive without it, and an empty file; any read of the cache may fail
  and any bundle be torn.
- `Names`: all labels up to five characters of six, which covers every form, too
  long and too short; all paths up to three characters and all rooted ones of
  five, which covers a dot-dot under two layers of encoding, three slashes and
  .npack behind "." and "//"; manifests with up to two path tags of nine kinds
  or three valid ones, one more than permitted.
- `Gateway`: seven hosts in two domains, each of them the gateway's own in some
  configuration and a custom domain in another, once for a key on the allowlist and
  once for one that is not; hosted and open mode; a file that is invalid, and files
  that end the process at either step of a reload that can.

Symmetry is used in `BlobStore` (`Procs`, and the two blobs of equal size whose
removal does not fail) and in `BlossomFaults` (`Procs`), which have no liveness
properties; no module orders or names goroutines or blobs.

### Fairness

- `BundleStore`: weak fairness of each request's steps. A goroutine that can run
  does, and there are no loops that wait for another.
- `Resolver`: weak fairness of what the program does for a request (reading the
  cache, ending a lookup) and of the TTLs. Nothing is assumed of the relays and the
  author: a relay may stay silent, or send some of its events and never the end of
  them. EveryRequestAnswered has as its premise that each relay of a lookup ends its
  answer or fails again and again, because the lookup has no timeout. Converges has
  as its premise that cutting lookups short ends; publications end by themselves.
- `Releases`: the program's steps, the TTLs and the 20 seconds. Nothing is
  assumed of relays and publisher.
- `Fetcher`: the program's steps and the timeout. Nothing is assumed of servers
  and network.
- `Gateway`: the reload goroutine goes on while the process lives.

## 4. Proofs

Every invariant and every action property that a passing run checks is also a
theorem, for every value of the constants: any number of requests, relays,
servers, blobs and files, and labels, paths and manifests of any length. The
theorems rest on the named assumptions of the modules, which TLC
evaluates in every run:

- `BlobStoreAssumption`, `BlossomAssumption`: finitely many blobs, sizes from 1
  to a maximum, natural quotas;
- `BundleAssumption`: archives are sequences of entries, no goroutine is called
  "none" or "whole";
- `ResolverAssumption`, `ReleasesAssumption`: timestamps are naturals, Nil is no
  event, what parses is a release;
- `FetcherAssumption`: limits are naturals and at least one request may be sent;
  a public address is neither private nor loopback;
- `SiteAssumption`: manifests and archives map paths to contents; there is a path
  for the 404 page;
- `GatewayAssumption`: there is a host to ask for; a custom domain is outside the
  gateway's own (`config.go:293`) and is configured with a key and a name, never
  a snapshot;
- `LabelsAssumption`: see above; `NamesAssumption`: labels, paths and the tags of
  events are sequences of their characters, and an event's key and id are keys.

The properties are seldom inductive. Each part of an inductive invariant below is
there because a step needs it.

**BlobStoreProofs.** `TypeCorrect`, `OnlyVerifiedStored` and
`OnlyVerifiedServed`. `DiskVerified` and `ServedVerified` are not inductive: a
Put writes the bytes its request holds, so `SafeInv` adds that those were
verified (`Holding`). That `used` is a natural number needs that a store has
charged at least the bytes of what it lists (`Charged`), since eviction subtracts
them. `LeastRecentEvicted` needs `OrderInv`: one request at a time makes room in a
store (`Exclusive`), and meanwhile nobody uses the store, so the blob it stored stays
the last in the order (`StoredIsNewest`; `ChargeOrder` puts it there).
`IndexMatchesDisk` and `BlobStoreImplementsVerifiedCache` rest on `AloneInv`, which
is `SafeInv` and, until a process is reloaded, `SteadyInv`: there is one store
(`OneStore`), index and directory agree, and the charge covers the disk
(`ChargeCovers`). Although blobs can be charged twice, the loop ends only when the
overestimate fits the quota or nothing is left to try, so the request is answered
when the disk fits or all of it is `vain` (`PromiseSettle`). A crash in the middle of
an eviction leaves more than the quota, which the abstract restart permits, and makes
the rest true again, whatever the reloads before it left. The refinement maps the
files on disk to the abstract held blobs, `vain` to the abstract `stuck`, and
"reloaded" to the abstract `shared`. Cardinality lemmas about `Bytes` come first.

**BlossomServerProofs.** `BlossomTypeCorrect` and `WritesAreExclusive` are
`LockInv`: the holder of the mutex is the one in the middle of a write.
`UsedMatchesDirectory` and `BlossomQuotaKept` are about behaviours in which no write has failed yet, with crashes anywhere: `SoundInv`
says that until then `QuotaInv` holds. `QuotaInv` adds that absent files
have no bytes, that the writer's blob fits what is left (`WriterHasRoom`: checked
before the file is created, needed after it is complete) and that the charge is
within the quota. `UsedNeverOvercharged` holds with failing writes too. It is not
inductive, since a write that completes is charged for bytes that were in the
directory before: `ChargedAtMost` counts the file under the mutex as if it were
charged already. `AcceptedBlobsAreWhole` needs that every file that no write left
half way is whole unless it is being written (`PresentIsWhole`), for the answer that
a blob is stored already. What clients rely on is kept through restarts, so the sweep
must remove nothing of it (`WholeRestart`).

**BundleStoreProofs.** `BundleIsComplete`, with crashes, until two requests overlap
(`UntilOverlap`). `SoloInv`, which holds until then: at most one request is busy
(`OneBusy`);
it works in tmp (`WorksInTmp`); dest does not exist while it unpacks
(`NoBundleYet`), so its RemoveAll of dest never touches a bundle; what it has
extracted so far is in tmp (`TmpExtracted`); directories hold only members of
the archive (`OnlyMembers`). The rename then installs a complete bundle, and a
crash leaves at worst a tmp that the next Unpack removes. `InstalledIsSound` and
`BundleTypeCorrect` hold however requests overlap. Nothing is known then of what
tmp holds; `SoundInv` is about each request's own way through the archive
(`LoopOK`): what it has passed is accepted, and it renames only past the end.

**ResolverProofs.** `ResolverTypeCorrect`, `OnlyValidatedServed` and
`EntriesExclusive` with all faults, from `CacheInv`. `LookupFindsNewest` for
lookups that nothing cut short, from `LookupInv`: the best event so far is a newest one of
those received, and those asked for are those received and those still to come
(`Progress`). `ResolverImplementsManifestSource` needs, beside these, that what a
lookup was sent is on some relay (`SourceInv`), for the manifest that a lookup
brings into force; and `OneEntry`, for Negative: Manifest reads the positive entry
and then the negative one, a lookup of another request may end in between, and the
miss that Negative then finds is still the answer in force only because Put drops
the miss when it stores a manifest.

**ReleasesProofs.** `ReleasesTypeCorrect` (what is cached has its tags) and
`LookupIsCurrent`, the action property `CompleteLookupIsCurrent`. `ReleasesInv`
relates a lookup to what was on the relays when they were asked, which the relays keep
(`KnownStays`): each of those releases is not newer than the best so far or is
held by a relay that has not answered yet (`NewestSoFar`), and a revocation of
the best, if there was one, is on a relay that has not answered the second query
(`UnrevokedSoFar`). What is published meanwhile can only add. A context that has
ended, which leaves the second query without relays, counts as a cut lookup
(`StartsEmpty`). The lemma `KeptIsNewest` says what the loops over events keep.

**FetcherProofs.** `FetcherTypeCorrect`, `PeersArePermitted` and `WorkIsBounded`
from `FetchInv`. The dial policy is applied when a connection is made and not
when it is used again, so the invariant speaks of the pool (`PoolPermitted`) and
of the scheme of the URL a request is at (`UrlPermitted`), which a reused
connection has too. `RequestsCounted` adds that there is room for one more request
before each dial (the code's bound, one request fewer than the theorem states); `ServerLeft` keeps the number of servers natural.

**SiteProofs.** `SiteTypeCorrect`, `HeldIsTheAuthors` and `ShownIsVerified` from
`SiteInv`. Between the manifest and the answer the author publishes and the cache
evicts; what stays true is that the digest a request carries was listed for the
path it serves (`ServesListed`), that a bundle it looks into is a release
(`OpensReleased`), and, without bundles, that what browsers keep is what its ETag
names, or its beginning after a failed read (`HeldIsVerified`), because a 304 makes
them show it again. What may be held for a path (`BodiesAt`) only grows with
publications and faults (`AuthorsGrow`), so that what is held stays right
(`HeldStays`).

**GatewayProofs.** `ReloadLeavesAgreement` from `ProcessInv`:
where the reload goroutine stands decides what of the configuration, the backends
and the Blossom server is replaced already (`ReloadAgrees`). `OnlyAllowedServed`
and `AskAgreesWithPublic` from `RequestInv`: what a request has read so far it
read from configurations of its window (`ReadInWindow`), and where that is a
single one the reads fit together (`ReadsFit`). `GatewayTypeCorrect` needs both.

**Names: labels in GatewayProofs, paths and manifests in SiteProofs.** Each
property is about one call, so the inductive invariant only says that the result
is the function's of an argument of the instance (`LabelCall`, `PathCall`); the
work is in the functions. The library's induction rules have an operator as a
parameter, which the provers cannot instantiate. `NatMin` (a set of numbers has a
least element, from the well-foundedness of <) replaces them: `Induction` and
`InductionTo` are about a set instead of a predicate, `Recursion` gives a solution
of a recursive definition, and from it the recursion equations of Power, Value,
Split, Collapse, Clean and Walk (`PowerRec`, `NumberRec`, `SegmentsRec`,
`CollapseRec`, `DirsRec`, `WalkIsClean`). These first lemmas are in both modules.

- `LabelsAreCanonical`: the digits of a key have the key as their value
  (`ValueOfEncoded`, since each quotient is the next one and a digit, `DivDiv`),
  and any digits are those of their value (`EncodedValue`), so that what each form
  of DecodeLabel accepts is the label of what it returns (`Canonical`).
- `ValidManifestsReachable`: the first digit of a key is below the letters
  (`FirstDigit`), so that a named label is never taken for an npub or a snapshot
  (`NamedReached`); a snapshot's label starts with "v" and is tried before the
  named form, whose length it has too (`SnapshotReached`).
- `PathsNormalisedSafely`: the last segment is what follows the last slash
  (`LastSegmentIs`), which gives the index file its segment (`AsIndexSafe`) and
  keeps slashes out of the extension (`ExtensionInSegment`). Two slashes in a row are
  left by three only (`CollapseSlashes`, `AsIndexSlashes`). Where no segment is
  "..", the file system's walk enters exactly what filepath.Clean collects
  (`WalkIsClean`), so that the check of its first segment is the right one.
- `ListedPathsReachable`: Collapse changes nothing where no slash follows a slash
  (`CollapseNothing`), and a path with an extension is not a directory's.
- `ManifestsAreMaps`: the positions of the tags in one order and in the other are
  in bijection, so each tag occurs as often (`SameCount`), and each of Validate's
  errors is the same (`SameErrors`). Without errors each path has one position,
  which is the one serveSite takes (`SiteMapIs`).

Only model-checked:

- liveness (Converges, EveryRequestAnswered, EveryRequestEnds,
  RevocationTakesEffect, EveryReleaseAnswered, EveryFetchEnds,
  ReloadTakesEffect), which is beyond this prover.

The type invariants of `BundleStore`, `Resolver`, `Releases`, `Fetcher` and `Site`
are stated for proofs and are not part of the runs.

## 5. Not modelled

- *nip19*: the npub codec is external; the model assumes that decoding accepts
  exactly what encoding gives. Hex and reference patterns are accepted or refused.
- *Field checks of the configuration*: a file is accepted or refused. No step
  depends on why.
- *Metrics, packaging, the status page*: nothing depends on them.
- *Shutdown on SIGTERM*: the gateway's listeners and the local Blossom server end
  and nothing is kept.
- *Two local Blossom servers on one directory*, possible when a handler
  outlives the five seconds of Shutdown and a reload enables the server again.
  Two writers that truncate each other's file leave bytes that are no prefix of
  the blob, which is how `BlossomServer` describes a file.
- *AllowLoopback*, which an environment variable of the test bed sets.
- *Blobs of zero bytes* in the blob cache, which never get there.

## 6. Plan

Done, in this order: `BlobStore` with `VerifiedCache`, `BlossomServer`,
`BundleStore`, `Resolver`, `Gateway`, the proofs of the first four; then
`ManifestCache`, `Releases`, `Fetcher`, `Site`, the pure functions (`Labels`,
`Paths`, `ManifestRules`, `Names`), reloads in `BlobStore` and its refinement,
and the start of the process in `Gateway`.

Then the proofs of the other four state machines (`GatewayProofs`,
`FetcherProofs`, `SiteProofs`, `ReleasesProofs`), and in the first ones
`LeastRecentEvicted`, `UsedNeverOvercharged`, `AcceptedBlobsAreWhole`,
`InstalledIsSound` and `BundleTypeCorrect`; last, the five properties of `Names`
and the refinement of `ManifestSource`. Later the steps of an eviction, failing reads
and removals, torn bundles, relays that never end their answer and zoned addresses
were added to the models, and the properties and proofs restated for them.

Next: an abstract specification for the local Blossom server, in the way
`VerifiedCache` is one for the blob cache and `ManifestSource` for the resolver,
shown to be implemented with the invariants above.
