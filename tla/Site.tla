-------------------------------- MODULE Site --------------------------------
(***************************************************************************)
(* serveSite (internal/server/server.go) for one site, with the parts it   *)
(* puts together: the manifest that lists a path, the release whose bundle *)
(* is tried first, the blob cache, the blobs fetched from Blossom servers, *)
(* and the browsers that revalidate what they hold with If-None-Match.     *)
(*                                                                         *)
(* The parts are what their own modules show of them: Resolver returns     *)
(* some manifest of the site that was published, or nil; Releases some     *)
(* release that was published, or nil; Fetcher the blob itself or an       *)
(* error; the blob cache the blob, nothing, or, where reading its file     *)
(* fails, the beginning of the blob (BlobStore); the bundle store a member *)
(* of the archive that was installed, or what is there of it where two     *)
(* Unpacks of that archive overlapped (BundleStore).  A content is named   *)
(* by its sha256, a release by the archive it names.                       *)
(***************************************************************************)
EXTENDS Naturals, FiniteSets

CONSTANTS Clients,    \* browsers
          Paths,      \* normalised paths that are requested
          NotFound,   \* the path /404.html
          Contents,   \* file contents, by their sha256
          Empty,      \* the contents of no bytes
          Manifests,  \* the manifests the author may publish: path -> content
          Archives,   \* the archives the author may release: member -> content
          Nil,        \* no manifest, no release, no content
          Faulty      \* whether reads of the cache fail and Unpacks overlap

ASSUME SiteAssumption ==
  /\ Faulty \in BOOLEAN
  /\ NotFound \in Paths
  /\ Empty \subseteq Contents
  /\ Nil \notin Contents \union Manifests \union Archives
  /\ \A f \in Manifests \union Archives :
       DOMAIN f \subseteq Paths /\ \A x \in DOMAIN f : f[x] \in Contents

VARIABLES npk,        \* be.Npk # nil: bundles are configured
          published,  \* the manifests published so far
          released,   \* the archives released so far
          blobs,      \* the blob cache
          bundles,    \* the archives that are unpacked
          torn,       \* those that were installed incomplete
          misread,    \* a read of a cached file has failed
          pc,         \* where a client's request is
          asked,      \* asked[c]: the path the client asked for
          path,       \* path[c]: the path that is served
          sha,        \* sha[c]: what the manifest lists for it
          status,     \* status[c]: 200, or 404 for the site's own page
          archive,    \* archive[c]: the release's archive
          shelf,      \* shelf[c]: the response the client holds for each path
          shown       \* shown[c]: what the client shows

author == <<published, released>>
faults == <<torn, misread>>
request == <<asked, path, sha, status, archive>>
vars == <<npk, author, blobs, bundles, faults, pc, request, shelf, shown>>

\* The beginning of contents whose file could not be read to its end, or is not whole.
Part(h) == <<"part", h>>

NoResponse == [etag |-> Nil, body |-> Nil, status |-> 404]

Init == /\ npk \in BOOLEAN
        /\ published = {} /\ released = {}
        /\ blobs = {} /\ bundles = {}
        /\ torn = {} /\ misread = FALSE
        /\ pc = [c \in Clients |-> "idle"]
        /\ asked = [c \in Clients |-> NotFound]
        /\ path = [c \in Clients |-> NotFound]
        /\ sha = [c \in Clients |-> Nil]
        /\ status = [c \in Clients |-> 404]
        /\ archive = [c \in Clients |-> Nil]
        /\ shelf = [c \in Clients |-> [x \in Paths |-> NoResponse]]
        /\ shown = [c \in Clients |-> NoResponse]

\* The author publishes a manifest or a release, in any order: they are two events.
PublishManifest(m) == /\ published' = published \union {m}
                      /\ UNCHANGED <<npk, released, blobs, bundles, faults, pc, request, shelf, shown>>
PublishRelease(a) == /\ released' = released \union {a}
                     /\ UNCHANGED <<npk, published, blobs, bundles, faults, pc, request, shelf, shown>>

----------------------------------------------------------------------------
\* The client gets an answer and shows it; the request is over.
Shows(c, response) == /\ shown' = [shown EXCEPT ![c] = response]
                      /\ pc' = [pc EXCEPT ![c] = "idle"]
                      /\ path' = [path EXCEPT ![c] = NotFound]
                      /\ asked' = [asked EXCEPT ![c] = NotFound]
                      /\ sha' = [sha EXCEPT ![c] = Nil]
                      /\ status' = [status EXCEPT ![c] = 404]
                      /\ archive' = [archive EXCEPT ![c] = Nil]

\* http.NotFound: no ETag, nothing to hold.
PlainNotFound(c) == Shows(c, NoResponse) /\ UNCHANGED shelf

\* A mutant of Unmodified: any validator the client sends will do.
UnmodifiedAny(c) == shelf[c][asked[c]].etag # Nil

\* If-None-Match is the ETag of the response the client holds for the path.
Unmodified(c) == shelf[c][asked[c]].etag = sha[c]

\* serveBytes: the ETag is what the manifest lists.  On a 304, which carries the
\* ETag too, the client shows the body it holds; otherwise it holds what it gets.
ServeBytes(c, body) ==
  LET response == [etag |-> sha[c], body |-> body, status |-> status[c]] IN
  IF Unmodified(c)
  THEN Shows(c, [shelf[c][asked[c]] EXCEPT !.etag = sha[c]]) /\ UNCHANGED shelf
  ELSE Shows(c, response) /\ shelf' = [shelf EXCEPT ![c][asked[c]] = response]

Goto(c, l) == pc' = [pc EXCEPT ![c] = l]

\* A request for path x reaches serveSite.
Request(c, x) == /\ pc[c] = "idle"
                 /\ Goto(c, "manifest")
                 /\ asked' = [asked EXCEPT ![c] = x]
                 /\ UNCHANGED <<npk, author, blobs, bundles, faults, path, sha, status, archive, shelf, shown>>

\* A mutant of Page: the fallback keeps the path that was asked for.
PageAsked(c) == asked[c]

\* The path of the fallback.
Page(c) == NotFound

\* serveSite serves x, which the manifest lists with hash h.
Found(c, x, h, st) == /\ path' = [path EXCEPT ![c] = x]
                      /\ sha' = [sha EXCEPT ![c] = h]
                      /\ status' = [status EXCEPT ![c] = st]
                      /\ Goto(c, IF npk THEN "release" ELSE "has")
                      /\ UNCHANGED <<asked, archive, shelf, shown>>

\* Resolver.Manifest and the look for the path, with the site's own 404 page as
\* the fallback.
Manifest(c) ==
  /\ pc[c] = "manifest"
  /\ \/ PlainNotFound(c)
     \/ \E m \in published :
          \/ asked[c] \in DOMAIN m /\ Found(c, asked[c], m[asked[c]], 200)
          \/ /\ asked[c] \notin DOMAIN m /\ NotFound \in DOMAIN m
             /\ Found(c, Page(c), m[NotFound], 404)
          \/ DOMAIN m \intersect {asked[c], NotFound} = {} /\ PlainNotFound(c)
  /\ UNCHANGED <<npk, author, blobs, bundles, faults>>

\* serveFromNpk: without a release it is up to the blobs; otherwise the bundle is
\* there or has to be fetched.
Release(c) ==
  /\ pc[c] = "release"
  /\ \/ Goto(c, "has") /\ UNCHANGED archive
     \/ \E a \in released : /\ archive' = [archive EXCEPT ![c] = a]
                            /\ Goto(c, IF a \in bundles THEN "open" ELSE "archive")
  /\ UNCHANGED <<npk, author, blobs, bundles, faults, asked, path, sha, status, shelf, shown>>

\* The archive is fetched and unpacked, or either fails and the blobs are tried;
\* an Unpack that fails at its rename has removed what was there before.
\* Unpack may report success for a directory that an Unpack overlapping it left
\* incomplete; Has is true of it from then on.
FetchArchive(c) ==
  /\ pc[c] = "archive"
  /\ \/ /\ Goto(c, "open") /\ bundles' = bundles \union {archive[c]}
        /\ \/ UNCHANGED torn
           \/ Faulty /\ torn' = torn \union {archive[c]}
     \/ Goto(c, "has") /\ bundles' \in {bundles, bundles \ {archive[c]}} /\ UNCHANGED torn
  /\ UNCHANGED <<npk, author, blobs, misread, request, shelf, shown>>

\* BundleStore.Open: a member that is not there, or cannot be read, is a 404, and
\* the blobs are not tried.  The member is not compared with what the manifest
\* lists, nor with the archive.
OpenBundle(c) ==
  /\ pc[c] = "open"
  /\ \/ PlainNotFound(c)
     \/ /\ path[c] \in DOMAIN archive[c]
        /\ \/ ServeBytes(c, archive[c][path[c]])
           \/ archive[c] \in torn /\ ServeBytes(c, Part(archive[c][path[c]]))
  /\ UNCHANGED <<npk, author, blobs, bundles, faults>>

\* BlobStore.Has.
HasBlob(c) == /\ pc[c] = "has"
              /\ Goto(c, IF sha[c] \in blobs THEN "cached" ELSE "fetch")
              /\ UNCHANGED <<npk, author, blobs, bundles, faults, request, shelf, shown>>

\* serveCached: the blob may have been evicted since; then it is a 404.  An error
\* of io.ReadAll is ignored, and what was read before it is served.
ServeCached(c) ==
  /\ pc[c] = "cached"
  /\ \/ sha[c] \in blobs /\ ServeBytes(c, sha[c]) /\ UNCHANGED misread
     \/ Faulty /\ sha[c] \in blobs /\ ServeBytes(c, Part(sha[c])) /\ misread' = TRUE
     \/ sha[c] \notin blobs /\ PlainNotFound(c) /\ UNCHANGED misread
  /\ UNCHANGED <<npk, author, blobs, bundles, torn>>

\* fetchFirst: an error is a 404, and so is a blob of no bytes.  The blob is put in
\* the cache, which may fail to take it.
FetchBlob(c) ==
  /\ pc[c] = "fetch"
  /\ \/ PlainNotFound(c) /\ UNCHANGED blobs
     \/ /\ sha[c] \notin Empty
        /\ blobs' \in {blobs, blobs \union {sha[c]}}
        /\ ServeBytes(c, sha[c])
  /\ UNCHANGED <<npk, author, bundles, faults>>

\* The cache makes room for the blobs of other requests.
Evict(h) == /\ h \in blobs
            /\ blobs' = blobs \ {h}
            /\ UNCHANGED <<npk, author, bundles, faults, pc, request, shelf, shown>>

ServeSite(c) == \/ Manifest(c) \/ Release(c) \/ FetchArchive(c) \/ OpenBundle(c)
                \/ HasBlob(c) \/ ServeCached(c) \/ FetchBlob(c)

Next == \/ \E m \in Manifests : PublishManifest(m)
        \/ \E a \in Archives : PublishRelease(a)
        \/ \E h \in Contents : Evict(h)
        \/ \E c \in Clients : ServeSite(c) \/ \E x \in Paths : Request(c, x)
Spec == Init /\ [][Next]_vars

----------------------------------------------------------------------------
Bodies == Contents \union {Part(h) : h \in Contents}
Responses == [etag : Contents, body : Bodies, status : {200, 404}] \union {NoResponse}

TypeOK ==
  /\ npk \in BOOLEAN
  /\ published \subseteq Manifests /\ released \subseteq Archives
  /\ blobs \subseteq Contents /\ bundles \subseteq Archives
  /\ torn \subseteq Archives /\ misread \in BOOLEAN
  /\ pc \in [Clients -> {"idle", "manifest", "release", "archive", "open", "has", "cached", "fetch"}]
  /\ asked \in [Clients -> Paths] /\ path \in [Clients -> Paths]
  /\ sha \in [Clients -> Contents \union {Nil}]
  /\ status \in [Clients -> {200, 404}]
  /\ archive \in [Clients -> Archives \union {Nil}]
  /\ shelf \in [Clients -> [Paths -> Responses]]
  /\ shown \in [Clients -> Responses]

\* The files at path x that the author has released.
ReleasedAt(x) == {a[x] : a \in {b \in released : x \in DOMAIN b}}
ListedAt(x) == {m[x] : m \in {n \in published : x \in DOMAIN n}}

\* The files at path x of the releases that were installed incomplete.
TornAt(x) == {a[x] : a \in {b \in released \intersect torn : x \in DOMAIN b}}

\* The bodies that may be held for path x under an ETag: the blob that the ETag
\* names or a released file of that path; the beginning of the one once a read of
\* the cache has failed, of the other once its bundle was installed incomplete.
BodiesAt(x, etag) == {etag} \union ReleasedAt(x)
                     \union {Part(h) : h \in {e \in {etag} : misread} \union TornAt(x)}

\* "The manifest remains the authoritative path index" (npk.go:5-6): what a client
\* holds for a path as found (200) is for a path that some manifest lists, and is
\* the author's file of that path; otherwise it is the author's 404 page.  A file
\* that only a bundle has is never served, not even through the fallback.  The file
\* is whole until a read of the cache fails, whose error serveCached ignores
\* (server.go:473), or two Unpacks of its archive overlap; after that it may be the
\* beginning of the file, but never of another path's.
HeldBelongsToPath ==
  \A c \in Clients, x \in Paths :
    LET r == shelf[c][x]
        y == IF r.status = 200 THEN x ELSE NotFound IN
    r # NoResponse => r.etag \in ListedAt(y) /\ r.body \in BodiesAt(y, r.etag)

\* "ETag is the sha256" (server.go:442): a client shows the bytes that the ETag
\* names, also after any number of 304s.
ShownMatchesETag == \A c \in Clients : shown[c].body = shown[c].etag

\* It is so wherever no bundles are configured, whatever is evicted between Has
\* and Open and whichever versions of the manifest are cached, as long as no read of
\* the cache has failed.  After one, what is shown may be the beginning of the blob
\* the ETag names, and a 304 confirms it, where server.go:334 has "a tampered or
\* missing blob is a bounded 404"; it is never anything else.
VerifiedWithoutBundles ==
  ~ npk => \A c \in Clients : \/ shown[c].body = shown[c].etag
                              \/ misread /\ shown[c].body = Part(shown[c].etag)
=============================================================================
