----------------------------- MODULE SiteProofs -----------------------------
(***************************************************************************)
(* Proofs about Site, for any paths, manifests, archives and browsers,     *)
(* whatever is published, evicted or fails between the steps of a request: *)
(* what a browser holds for a path is the author's file of that path, and  *)
(* without bundles a browser shows the bytes its ETag names; of either the *)
(* beginning is left where a read of the cache failed or a bundle was      *)
(* installed incomplete.  And proofs                                       *)
(* about the paths that Site takes as given (Paths, ManifestRules, Names), *)
(* for requests and manifests of any length: what normalisePath accepts is *)
(* safe, a listed path is reachable, and valid path tags are a map.        *)
(***************************************************************************)
EXTENDS Site, Names, SequenceTheorems, FunctionTheorems, FiniteSetTheorems, TLAPS

\* The states of a request whose path a manifest lists.
Serving == {"release", "archive", "open", "has", "cached", "fetch"}

\* A request serves the path it was asked for as found, or the 404 page, and the
\* hash it goes by is listed for what it serves.
ServesListed ==
  \A c \in Clients : pc[c] \in Serving =>
    /\ path[c] = (IF status[c] = 200 THEN asked[c] ELSE NotFound)
    /\ sha[c] \in ListedAt(path[c])

\* A bundle is looked into only for a release the author made, and only where
\* bundles are configured.
OpensReleased ==
  \A c \in Clients : /\ pc[c] \in {"archive", "open"} => archive[c] \in released
                     /\ pc[c] \in {"release", "archive", "open"} => npk

\* Without bundles every response has the body that its ETag names, or what was
\* read of it.
HeldIsVerified ==
  ~ npk => \A c \in Clients :
             /\ \/ shown[c].body = shown[c].etag
                \/ misread /\ shown[c].body = Part(shown[c].etag)
             /\ \A x \in Paths : \/ shelf[c][x].body = shelf[c][x].etag
                                 \/ misread /\ shelf[c][x].body = Part(shelf[c][x].etag)

SiteInv == TypeOK /\ ServesListed /\ OpensReleased /\ HeldBelongsToPath /\ HeldIsVerified

----------------------------------------------------------------------------
\* What a manifest lists, or an archive holds, is content of the site.
LEMMA AuthorsContents ==
  ASSUME TypeOK, NEW x
  PROVE  ListedAt(x) \subseteq Contents /\ ReleasedAt(x) \subseteq Contents
  BY SiteAssumption DEF TypeOK, ListedAt, ReleasedAt

\* Publishing only adds to what is listed and released, and faults to the bodies
\* that may be held.
LEMMA AuthorsGrow ==
  ASSUME published \subseteq published', released \subseteq released',
         torn \subseteq torn', misread => misread', NEW x
  PROVE  /\ ListedAt(x) \subseteq ListedAt(x)'
         /\ \A e : BodiesAt(x, e) \subseteq BodiesAt(x, e)'
<1>1. ReleasedAt(x) \subseteq ReleasedAt(x)' /\ TornAt(x) \subseteq TornAt(x)'
  BY DEF ReleasedAt, TornAt
<1>2. ListedAt(x) \subseteq ListedAt(x)'
  BY DEF ListedAt
<1> QED
  BY <1>1, <1>2 DEF BodiesAt

\* What is held stays fit to be held.
LEMMA HeldStays ==
  ASSUME published \subseteq published', released \subseteq released',
         torn \subseteq torn', misread => misread', UNCHANGED shelf, HeldBelongsToPath
  PROVE  HeldBelongsToPath'
  BY AuthorsGrow DEF HeldBelongsToPath

\* No response is one that was sent with an ETag.
LEMMA NoResponseType == NoResponse \in Responses /\ NoResponse.etag = Nil /\ NoResponse.body = Nil
  BY DEF NoResponse, Responses

\* At the start nothing is served or held.
LEMMA SiteInit == Init => SiteInv
<1> SUFFICES ASSUME Init PROVE SiteInv
  OBVIOUS
<1>0. npk \in BOOLEAN /\ misread \in BOOLEAN
  BY Zenon DEF Init
<1>1. TypeOK
  BY <1>0, NoResponseType, SiteAssumption DEF Init, TypeOK
<1>2. ServesListed /\ OpensReleased
  BY DEF Init, ServesListed, OpensReleased, Serving
<1>3. HeldBelongsToPath
  BY DEF Init, HeldBelongsToPath
<1>4. HeldIsVerified
  BY NoResponseType DEF Init, HeldIsVerified
<1> QED
  BY <1>1, <1>2, <1>3, <1>4 DEF SiteInv

\* The end of a request: its registers are as before it, and the client shows r.
LEMMA ShowsEnds ==
  ASSUME TypeOK, NEW c \in Clients, NEW r \in Responses, Shows(c, r)
  PROVE  /\ pc' \in [Clients -> {"idle", "manifest", "release", "archive", "open", "has",
                                 "cached", "fetch"}]
         /\ asked' \in [Clients -> Paths] /\ path' \in [Clients -> Paths]
         /\ sha' \in [Clients -> Contents \union {Nil}]
         /\ status' \in [Clients -> {200, 404}]
         /\ archive' \in [Clients -> Archives \union {Nil}]
         /\ shown' \in [Clients -> Responses]
         /\ shown'[c] = r /\ pc'[c] = "idle"
         /\ \A d \in Clients : d # c => /\ pc'[d] = pc[d] /\ asked'[d] = asked[d]
                                        /\ path'[d] = path[d] /\ sha'[d] = sha[d]
                                        /\ status'[d] = status[d] /\ archive'[d] = archive[d]
                                        /\ shown'[d] = shown[d]
<1>1. NotFound \in Paths
  BY SiteAssumption
<1>2. /\ pc' \in [Clients -> {"idle", "manifest", "release", "archive", "open", "has",
                              "cached", "fetch"}]
      /\ asked' \in [Clients -> Paths] /\ path' \in [Clients -> Paths]
  BY <1>1 DEF Shows, TypeOK
<1>3. /\ sha' \in [Clients -> Contents \union {Nil}]
      /\ status' \in [Clients -> {200, 404}]
      /\ archive' \in [Clients -> Archives \union {Nil}]
  BY DEF Shows, TypeOK
<1>4. shown' \in [Clients -> Responses] /\ shown'[c] = r
  BY DEF Shows, TypeOK
<1>5. /\ pc'[c] = "idle"
      /\ \A d \in Clients : d # c => /\ pc'[d] = pc[d] /\ asked'[d] = asked[d]
                                     /\ path'[d] = path[d] /\ sha'[d] = sha[d]
                                     /\ status'[d] = status[d] /\ archive'[d] = archive[d]
                                     /\ shown'[d] = shown[d]
  BY DEF Shows, TypeOK
<1> QED
  BY <1>2, <1>3, <1>4, <1>5

\* A request that ends with r, shown and perhaps held, keeps the invariant.
LEMMA ShowsKeeps ==
  ASSUME SiteInv, NEW c \in Clients, NEW r \in Responses, Shows(c, r),
         UNCHANGED <<npk, author, bundles, torn>>, blobs' \subseteq Contents,
         misread' \in BOOLEAN, misread => misread',
         shelf' \in [Clients -> [Paths -> Responses]],
         \A d \in Clients, x \in Paths : shelf'[d][x] = shelf[d][x] \/ shelf'[d][x] = r,
         HeldBelongsToPath',
         ~ npk => r.body = r.etag \/ (misread' /\ r.body = Part(r.etag))
  PROVE  SiteInv'
<1> USE DEF SiteInv, author
<1>1. TypeOK'
  <2>1. /\ npk' \in BOOLEAN /\ published' \subseteq Manifests /\ released' \subseteq Archives
        /\ bundles' \subseteq Archives /\ torn' \subseteq Archives
    BY DEF TypeOK
  <2> QED
    BY <2>1, ShowsEnds DEF TypeOK
<1>2. ServesListed'
  <2>1. \A x : ListedAt(x)' = ListedAt(x)
    BY DEF ListedAt
  <2> QED
    BY <2>1, ShowsEnds DEF ServesListed, Serving
<1>3. OpensReleased'
  <2>1. \A d \in Clients : pc'[d] = "idle" \/ (pc'[d] = pc[d] /\ archive'[d] = archive[d])
    BY ShowsEnds
  <2> QED
    BY <2>1 DEF OpensReleased
<1>4. HeldIsVerified'
  <2>1. \A d \in Clients : shown'[d] = r \/ shown'[d] = shown[d]
    BY ShowsEnds
  <2> QED
    BY <2>1 DEF HeldIsVerified
<1> QED
  BY <1>1, <1>2, <1>3, <1>4

\* A 404 of the gateway holds nothing and shows nothing.
LEMMA PlainNotFoundKeeps ==
  ASSUME SiteInv, NEW c \in Clients, PlainNotFound(c),
         UNCHANGED <<npk, author, bundles, faults>>, blobs' \subseteq Contents
  PROVE  SiteInv'
<1>1. HeldBelongsToPath'
  BY HeldStays DEF SiteInv, PlainNotFound, author, faults
<1>2. shelf' = shelf /\ shelf \in [Clients -> [Paths -> Responses]] /\ misread \in BOOLEAN
  BY DEF SiteInv, PlainNotFound, TypeOK
<1> QED
  BY <1>1, <1>2, NoResponseType, ShowsKeeps DEF PlainNotFound, faults

\* serveBytes sends, or confirms with a 304, a body that belongs to the path.
LEMMA ServeBytesKeeps ==
  ASSUME SiteInv, NEW c \in Clients, pc[c] \in Serving, NEW body \in Bodies,
         ServeBytes(c, body),
         UNCHANGED <<npk, author, bundles, torn>>, blobs' \subseteq Contents,
         misread' \in BOOLEAN, misread => misread',
         body \in BodiesAt(path[c], sha[c]) \/ (misread' /\ body = Part(sha[c])),
         ~ npk => body = sha[c] \/ (misread' /\ body = Part(sha[c]))
  PROVE  SiteInv'
<1> USE DEF SiteInv
<1>1. /\ asked[c] \in Paths /\ status[c] \in {200, 404}
      /\ shelf \in [Clients -> [Paths -> Responses]]
      /\ sha[c] \in ListedAt(path[c]) /\ sha[c] \in Contents /\ sha[c] # Nil
      /\ path[c] = IF status[c] = 200 THEN asked[c] ELSE NotFound
  BY AuthorsContents, SiteAssumption DEF TypeOK, ServesListed
<1>2. CASE Unmodified(c)
  <2> DEFINE held == shelf[c][asked[c]]
             r == [held EXCEPT !.etag = sha[c]]
  <2>1. Shows(c, r) /\ shelf' = shelf
    BY <1>2 DEF ServeBytes
  <2>2. held \in Responses /\ held.etag = sha[c]
    BY <1>1, <1>2 DEF Unmodified
  <2>3. held \in [etag : Contents, body : Bodies, status : {200, 404}]
    BY <1>1, <2>2, NoResponseType DEF Responses
  <2>4. r = held
    BY <2>2, <2>3
  <2>5. HeldBelongsToPath'
    BY <2>1, HeldStays DEF author
  <2>6. ~ npk => held.body = held.etag \/ (misread' /\ held.body = Part(held.etag))
    BY <1>1 DEF HeldIsVerified
  <2> HIDE DEF r, held
  <2> QED
    BY <1>1, <2>1, <2>2, <2>4, <2>5, <2>6, ShowsKeeps
<1>3. CASE ~ Unmodified(c)
  <2> DEFINE r == [etag |-> sha[c], body |-> body, status |-> status[c]]
  <2>1. Shows(c, r) /\ shelf' = [shelf EXCEPT ![c][asked[c]] = r]
    BY <1>3 DEF ServeBytes
  <2>2. r \in Responses /\ r.etag = sha[c] /\ r.body = body /\ r.status = status[c]
    BY <1>1 DEF Responses
  <2> HIDE DEF r
  <2>3. /\ shelf' \in [Clients -> [Paths -> Responses]]
        /\ shelf'[c][asked[c]] = r
        /\ \A d \in Clients, x \in Paths :
             (d # c \/ x # asked[c]) => shelf'[d][x] = shelf[d][x]
    BY <1>1, <2>1, <2>2
  <2>4. \A y : /\ ListedAt(y) \subseteq ListedAt(y)'
              /\ \A e : BodiesAt(y, e) \subseteq BodiesAt(y, e)'
    BY AuthorsGrow DEF author
  <2>5. body \in BodiesAt(path[c], sha[c]) \/ (misread' /\ body = Part(sha[c]))
    BY Zenon
  <2>6. HeldBelongsToPath'
    <3> SUFFICES ASSUME NEW d \in Clients, NEW x \in Paths, NEW h, NEW y, NEW e,
                        h = shelf'[d][x], e = h.etag, h # NoResponse,
                        y = IF h.status = 200 THEN x ELSE NotFound
                 PROVE  e \in ListedAt(y)' /\ h.body \in BodiesAt(y, e)'
      BY DEF HeldBelongsToPath
    <3>1. CASE d = c /\ x = asked[c]
      <4>1. y = path[c] /\ e = sha[c] /\ h.body = body
        BY <1>1, <2>2, <2>3, <3>1
      <4>2. body \in BodiesAt(y, e)'
        <5>1. CASE body \in BodiesAt(y, e)
          BY <2>4, <5>1
        <5>2. CASE misread' /\ body = Part(e)
          BY <5>2 DEF BodiesAt
        <5> QED
          BY <2>5, <4>1, <5>1, <5>2
      <4> QED
        BY <1>1, <2>2, <2>3, <2>4, <3>1, <4>1, <4>2
    <3>2. CASE d # c \/ x # asked[c]
      <4>1. shelf[d][x] = h
        BY <2>3, <3>2
      <4>2. e \in ListedAt(y) /\ h.body \in BodiesAt(y, e)
        BY <4>1 DEF HeldBelongsToPath
      <4> QED
        BY <2>4, <4>2
    <3> QED
      BY <3>1, <3>2
  <2> QED
    BY <1>1, <2>1, <2>2, <2>3, <2>6, ShowsKeeps
<1> QED
  BY <1>2, <1>3

----------------------------------------------------------------------------
(* The steps of a request and of the rest of the system.                   *)

\* The manifest decides which path is served, and with which hash.
LEMMA ManifestKeeps == ASSUME SiteInv, NEW c \in Clients, Manifest(c) PROVE SiteInv'
<1>0. UNCHANGED <<npk, author, blobs, bundles, faults>> /\ blobs \subseteq Contents
  BY DEF Manifest, SiteInv, TypeOK
<1>1. CASE PlainNotFound(c)
  BY <1>0, <1>1, PlainNotFoundKeeps
<1>2. ASSUME NEW x \in Paths, NEW h \in Contents, NEW st \in {200, 404},
             Found(c, x, h, st), h \in ListedAt(x),
             x = (IF st = 200 THEN asked[c] ELSE NotFound)
      PROVE  SiteInv'
  <2>1. TypeOK'
    <3>1. path' \in [Clients -> Paths] /\ sha' \in [Clients -> Contents \union {Nil}]
      BY <1>2 DEF Found, SiteInv, TypeOK
    <3>2. status' \in [Clients -> {200, 404}]
      BY <1>2 DEF Found, SiteInv, TypeOK
    <3>3. pc' \in [Clients -> {"idle", "manifest", "release", "archive", "open", "has",
                               "cached", "fetch"}]
      BY <1>2 DEF Found, Goto, SiteInv, TypeOK
    <3> QED
      BY <1>0, <1>2, <3>1, <3>2, <3>3 DEF Found, SiteInv, TypeOK, author, faults
  <2>2. /\ path'[c] = x /\ sha'[c] = h /\ status'[c] = st
        /\ pc'[c] = (IF npk THEN "release" ELSE "has")
        /\ UNCHANGED <<asked, archive, shelf, shown, npk, published, released, torn, misread>>
        /\ \A d \in Clients : d # c => /\ pc'[d] = pc[d] /\ path'[d] = path[d]
                                       /\ sha'[d] = sha[d] /\ status'[d] = status[d]
    BY <1>0, <1>2 DEF Found, Goto, SiteInv, TypeOK, author, faults
  <2>3. \A y : ListedAt(y)' = ListedAt(y)
    BY <2>2 DEF ListedAt
  <2>4. ServesListed'
    BY <1>2, <2>2, <2>3 DEF SiteInv, ServesListed
  <2>5. OpensReleased'
    BY <2>2 DEF SiteInv, OpensReleased
  <2>6. HeldBelongsToPath' /\ HeldIsVerified'
    BY <2>2, HeldStays DEF SiteInv, HeldIsVerified
  <2> QED
    BY <2>1, <2>4, <2>5, <2>6 DEF SiteInv
<1>3. ASSUME NEW m \in published,
             \/ asked[c] \in DOMAIN m /\ Found(c, asked[c], m[asked[c]], 200)
             \/ NotFound \in DOMAIN m /\ Found(c, NotFound, m[NotFound], 404)
      PROVE  SiteInv'
  <2>1. m \in Manifests /\ asked[c] \in Paths /\ NotFound \in Paths
    BY SiteAssumption DEF SiteInv, TypeOK
  <2>2. \A x \in DOMAIN m : m[x] \in Contents /\ m[x] \in ListedAt(x)
    BY <2>1, SiteAssumption DEF ListedAt
  <2> QED
    BY <1>2, <1>3, <2>1, <2>2
<1> QED
  BY <1>1, <1>3 DEF Manifest, Page

\* The steps that only move a request on, and what the rest of the system does.
LEMMA QuietKeeps ==
  ASSUME SiteInv,
         \/ \E c \in Clients : \/ Release(c) \/ FetchArchive(c) \/ HasBlob(c)
                               \/ \E x \in Paths : Request(c, x)
         \/ \E m \in Manifests : PublishManifest(m)
         \/ \E a \in Archives : PublishRelease(a)
         \/ \E h \in Contents : Evict(h)
         \/ UNCHANGED vars
  PROVE  SiteInv'
<1> USE DEF SiteInv
<1>1. UNCHANGED <<npk, path, sha, status, shelf, shown>>
  BY DEF Release, FetchArchive, HasBlob, Request, PublishManifest, PublishRelease, Evict, vars,
         request
<1>2. published \subseteq published' /\ released \subseteq released'
  BY DEF Release, FetchArchive, HasBlob, Request, PublishManifest, PublishRelease, Evict, vars,
         author
<1>0. torn \subseteq torn' /\ misread' = misread
  BY DEF Release, FetchArchive, HasBlob, Request, PublishManifest, PublishRelease, Evict, vars,
         faults
<1>3. TypeOK' /\ ServesListed' /\ OpensReleased'
  <2>1. ASSUME NEW c \in Clients, Release(c) PROVE TypeOK' /\ ServesListed' /\ OpensReleased'
    <3>1. /\ pc[c] = "release" /\ pc'[c] \in {"has", "open", "archive"} /\ asked' = asked
          /\ \A d \in Clients : d # c => pc'[d] = pc[d] /\ archive'[d] = archive[d]
          /\ pc'[c] # "has" => archive'[c] \in released
          /\ UNCHANGED <<published, released>>
      BY <2>1 DEF Release, Goto, TypeOK, author
    <3>2. TypeOK'
      <4>1. /\ pc' \in [Clients -> {"idle", "manifest", "release", "archive", "open", "has",
                                    "cached", "fetch"}]
            /\ UNCHANGED <<published, released, blobs, bundles, torn, asked>>
        BY <2>1 DEF Release, Goto, TypeOK, author, faults
      <4>2. archive' \in [Clients -> Archives \union {Nil}]
        BY <2>1 DEF Release, TypeOK
      <4> QED
        BY <1>0, <1>1, <4>1, <4>2 DEF TypeOK
    <3>3. ServesListed'
      BY <1>1, <3>1 DEF ServesListed, Serving, ListedAt
    <3>4. OpensReleased'
      BY <1>1, <3>1 DEF OpensReleased
    <3> QED
      BY <3>2, <3>3, <3>4
  <2>2. ASSUME NEW c \in Clients, FetchArchive(c) \/ HasBlob(c)
        PROVE  TypeOK' /\ ServesListed' /\ OpensReleased'
    <3>1. /\ pc[c] \in {"archive", "has"} /\ UNCHANGED <<published, released, asked, archive>>
          /\ pc'[c] \in {"has", "cached", "fetch", "open"}
          /\ pc'[c] = "open" => pc[c] = "archive"
          /\ \A d \in Clients : d # c => pc'[d] = pc[d]
      BY <2>2 DEF FetchArchive, HasBlob, Goto, TypeOK, author, request
    <3>2. bundles' \subseteq Archives /\ torn' \subseteq Archives /\ blobs' = blobs
      BY <2>2 DEF FetchArchive, HasBlob, TypeOK, OpensReleased, faults
    <3>3. TypeOK'
      BY <1>0, <1>1, <2>2, <3>1, <3>2 DEF FetchArchive, HasBlob, Goto, TypeOK
    <3>4. ServesListed'
      BY <1>1, <3>1 DEF ServesListed, Serving, ListedAt
    <3>5. OpensReleased'
      BY <1>1, <3>1 DEF OpensReleased
    <3> QED
      BY <3>3, <3>4, <3>5
  <2>3. ASSUME NEW c \in Clients, NEW x \in Paths, Request(c, x)
        PROVE  TypeOK' /\ ServesListed' /\ OpensReleased'
    <3>1. /\ pc'[c] = "manifest" /\ UNCHANGED <<published, released, archive>>
          /\ \A d \in Clients : d # c => pc'[d] = pc[d] /\ asked'[d] = asked[d]
      BY <2>3 DEF Request, Goto, TypeOK, author
    <3>2. TypeOK'
      BY <2>3 DEF Request, Goto, TypeOK, author, faults
    <3>3. ServesListed' /\ OpensReleased'
      BY <1>1, <3>1 DEF ServesListed, OpensReleased, Serving, ListedAt
    <3> QED
      BY <3>2, <3>3
  <2>4. ASSUME \/ \E m \in Manifests : PublishManifest(m)
               \/ \E a \in Archives : PublishRelease(a)
               \/ \E h \in Contents : Evict(h)
               \/ UNCHANGED vars
        PROVE  TypeOK' /\ ServesListed' /\ OpensReleased'
    <3>1. /\ UNCHANGED <<pc, asked, archive, bundles, torn>> /\ blobs' \subseteq blobs
          /\ published' \subseteq Manifests /\ released' \subseteq Archives
      BY <2>4 DEF PublishManifest, PublishRelease, Evict, vars, author, request, faults, TypeOK
    <3>2. TypeOK'
      BY <1>0, <1>1, <3>1 DEF TypeOK
    <3>3. ServesListed'
      BY <1>0, <1>1, <1>2, <3>1, AuthorsGrow DEF ServesListed
    <3>4. OpensReleased'
      BY <1>1, <1>2, <3>1 DEF OpensReleased
    <3> QED
      BY <3>2, <3>3, <3>4
  <2> QED
    BY <2>1, <2>2, <2>3, <2>4
<1>4. HeldBelongsToPath'
  BY <1>0, <1>1, <1>2, HeldStays
<1>5. HeldIsVerified'
  BY <1>0, <1>1 DEF HeldIsVerified
<1> QED
  BY <1>3, <1>4, <1>5

\* The steps that answer from a bundle, from the cache or from a fetched blob.
LEMMA AnswerKeeps ==
  ASSUME SiteInv, NEW c \in Clients, OpenBundle(c) \/ ServeCached(c) \/ FetchBlob(c)
  PROVE  SiteInv'
<1> USE DEF SiteInv
<1>1. sha[c] \in Contents /\ pc[c] \in Serving
  BY AuthorsContents DEF OpenBundle, ServeCached, FetchBlob, Serving, ServesListed
<1>2. /\ UNCHANGED <<npk, author, bundles, torn>> /\ blobs' \subseteq Contents
      /\ misread' \in BOOLEAN /\ (misread => misread')
  <2>1. UNCHANGED <<npk, author, bundles, torn>> /\ blobs' \subseteq Contents
    BY <1>1 DEF OpenBundle, ServeCached, FetchBlob, TypeOK, faults
  <2>2. misread' = misread \/ misread' = TRUE
    BY DEF OpenBundle, ServeCached, FetchBlob, faults
  <2>3. misread \in BOOLEAN
    BY DEF TypeOK
  <2>4. CASE misread' = misread
    BY <2>1, <2>3, <2>4
  <2>5. CASE misread' = TRUE
    BY <2>1, <2>5
  <2> QED
    BY <2>2, <2>4, <2>5
<1>3. CASE PlainNotFound(c) /\ misread' = misread
  BY <1>2, <1>3, PlainNotFoundKeeps DEF faults
<1>4. CASE ServeBytes(c, sha[c])
  <2>1. sha[c] \in Bodies /\ sha[c] \in BodiesAt(path[c], sha[c])
    BY <1>1 DEF Bodies, BodiesAt
  <2> QED
    BY <1>1, <1>2, <1>4, <2>1, ServeBytesKeeps
<1>5. CASE ServeBytes(c, Part(sha[c])) /\ misread' = TRUE
  <2>1. Part(sha[c]) \in Bodies
    BY <1>1 DEF Bodies
  <2> QED
    BY <1>1, <1>2, <1>5, <2>1, ServeBytesKeeps
<1>6. CASE /\ OpenBundle(c) /\ path[c] \in DOMAIN archive[c]
           /\ \/ ServeBytes(c, archive[c][path[c]])
              \/ archive[c] \in torn /\ ServeBytes(c, Part(archive[c][path[c]]))
  <2>1. archive[c] \in released /\ npk
    BY <1>6 DEF OpenBundle, OpensReleased
  <2>2. archive[c][path[c]] \in ReleasedAt(path[c])
    BY <1>6, <2>1 DEF ReleasedAt
  <2>3. archive[c][path[c]] \in Contents
    BY <2>2, AuthorsContents
  <2>4. CASE ServeBytes(c, archive[c][path[c]])
    <3>1. /\ archive[c][path[c]] \in Bodies
          /\ archive[c][path[c]] \in BodiesAt(path[c], sha[c])
      BY <2>2, <2>3 DEF Bodies, BodiesAt
    <3> QED
      BY <1>1, <1>2, <2>1, <2>4, <3>1, ServeBytesKeeps
  <2>5. CASE archive[c] \in torn /\ ServeBytes(c, Part(archive[c][path[c]]))
    <3>1. archive[c][path[c]] \in TornAt(path[c])
      BY <1>6, <2>1, <2>5 DEF TornAt
    <3>2. /\ Part(archive[c][path[c]]) \in Bodies
          /\ Part(archive[c][path[c]]) \in BodiesAt(path[c], sha[c])
      BY <2>3, <3>1 DEF Bodies, BodiesAt
    <3> QED
      BY <1>1, <1>2, <2>1, <2>5, <3>2, ServeBytesKeeps
  <2> QED
    BY <1>6, <2>4, <2>5
<1> QED
  BY <1>3, <1>4, <1>5, <1>6 DEF OpenBundle, ServeCached, FetchBlob, faults

\* Every step keeps the invariant.
LEMMA SiteAlways == Spec => []SiteInv
<1>1. SiteInv /\ [Next]_vars => SiteInv'
  BY ManifestKeeps, QuietKeeps, AnswerKeeps DEF Next, ServeSite
<1> QED
  BY SiteInit, <1>1, PTL DEF Spec

\* The state has its type: in particular no body is held or shown without an ETag,
\* and none of either that is not content of the site or the beginning of one.
THEOREM SiteTypeCorrect == Spec => []TypeOK
<1>1. SiteInv => TypeOK
  BY DEF SiteInv
<1> QED
  BY <1>1, SiteAlways, PTL

\* What a browser holds for a path that was found is the author's file of that
\* path, and what it holds for another is the author's 404 page: bundles never
\* add a path, and no mix of versions puts a file under another's path.  It is the
\* beginning of such a file at worst, and that only after a failed read of the
\* cache or an incomplete bundle.
THEOREM HeldIsTheAuthors == Spec => []HeldBelongsToPath
<1>1. SiteInv => HeldBelongsToPath
  BY DEF SiteInv
<1> QED
  BY <1>1, SiteAlways, PTL

\* Where no bundles are configured a browser shows the bytes its ETag names, after
\* any number of 304s, evictions and new versions, or, once a read of the cache has
\* failed, the beginning of those bytes.
THEOREM ShownIsVerified == Spec => []VerifiedWithoutBundles
<1>1. SiteInv => VerifiedWithoutBundles
  BY DEF SiteInv, HeldIsVerified, VerifiedWithoutBundles
<1> QED
  BY <1>1, SiteAlways, PTL

----------------------------------------------------------------------------
(* Induction over data.  The recursive functions that the operators on names *)
(* are defined by have solutions, and facts follow along them: a set of      *)
(* natural numbers has a least element, so a set that holds 0 and with every *)
(* number the next holds them all.                                           *)

\* A set of natural numbers that is not empty has a least element.
LEMMA NatMin ==
  ASSUME NEW T, T \subseteq Nat, T # {}
  PROVE  \E x \in T : \A y \in T : x <= y
<1>1. PICK x \in T : \A y \in T : ~ (<<y, x>> \in OpToRel(<, Nat))
  BY NatLessThanWellFounded, WFMin
<1>2. \A y \in T : ~ (y < x)
  BY <1>1 DEF OpToRel
<1> QED
  BY <1>2

\* Induction over the natural numbers, for a set: a least number outside it cannot be.
LEMMA Induction ==
  ASSUME NEW S, 0 \in S, \A n \in Nat : n \in S => n + 1 \in S
  PROVE  \A n \in Nat : n \in S
<1> DEFINE T == Nat \ S
<1> SUFFICES ASSUME T # {} PROVE FALSE
  OBVIOUS
<1>1. PICK x \in T : \A y \in T : x <= y
  BY NatMin
<1>2. x # 0 /\ x - 1 \in Nat /\ x - 1 \notin T
  BY <1>1
<1> QED
  BY <1>2

\* A recursive definition over 0..n has a solution.
LEMMA Recursion ==
  ASSUME NEW X, NEW a \in X, NEW n \in Nat, NEW F \in [1..n -> [X -> X]]
  PROVE  \E f \in [0..n -> X] : f[0] = a /\ \A i \in 1..n : f[i] = F[i][f[i - 1]]
<1> DEFINE Sol(m, f) == f[0] = a /\ \A i \in 1..m : f[i] = F[i][f[i - 1]]
           S == {m \in Nat : m <= n => \E f \in [0..m -> X] : Sol(m, f)}
<1>1. 0 \in S
  <2>1. [i \in 0..0 |-> a] \in [0..0 -> X] /\ Sol(0, [i \in 0..0 |-> a])
    OBVIOUS
  <2> QED BY <2>1
<1>2. ASSUME NEW m \in Nat, m \in S PROVE m + 1 \in S
  <2> SUFFICES ASSUME m + 1 <= n PROVE \E f \in [0..(m + 1) -> X] : Sol(m + 1, f)
    OBVIOUS
  <2>1. PICK f \in [0..m -> X] : Sol(m, f)
    BY <1>2
  <2> DEFINE g == [i \in 0..(m + 1) |-> IF i <= m THEN f[i] ELSE F[m + 1][f[m]]]
  <2>2. F[m + 1][f[m]] \in X
    OBVIOUS
  <2>3. g \in [0..(m + 1) -> X]
    BY <2>2
  <2>4. \A i \in 0..m : g[i] = f[i]
    OBVIOUS
  <2>5. g[m + 1] = F[m + 1][f[m]]
    OBVIOUS
  <2> HIDE DEF g
  <2>6. Sol(m + 1, g)
    <3> SUFFICES ASSUME NEW i \in 1..(m + 1) PROVE g[i] = F[i][g[i - 1]]
      BY <2>1, <2>4
    <3>1. CASE i = m + 1
      BY <3>1, <2>4, <2>5
    <3>2. CASE i <= m
      BY <3>2, <2>1, <2>4
    <3> QED BY <3>1, <3>2
  <2> QED BY <2>3, <2>6
<1> HIDE DEF S
<1>3. n \in S
  BY <1>1, <1>2, Induction
<1> QED BY <1>3 DEF S

\* Induction along 0..n.
LEMMA InductionTo ==
  ASSUME NEW n \in Nat, NEW S, 0 \in S, \A i \in 1..n : i - 1 \in S => i \in S
  PROVE  \A i \in 0..n : i \in S
<1> DEFINE R == {m \in Nat : m <= n => m \in S}
<1>1. 0 \in R
  OBVIOUS
<1>2. \A m \in Nat : m \in R => m + 1 \in R
  OBVIOUS
<1> HIDE DEF R
<1>3. \A m \in Nat : m \in R
  BY <1>1, <1>2, Induction
<1> QED
  BY <1>3 DEF R

\* The values of a function along 0..n stay in a set that each step stays in.
LEMMA TypeAlong ==
  ASSUME NEW n \in Nat, NEW X, NEW g, g[0] \in X,
         \A i \in 1..n : g[i - 1] \in X => g[i] \in X
  PROVE  \A i \in 0..n : g[i] \in X
<1> DEFINE S == {i \in 0..n : g[i] \in X}
<1>1. 0 \in S /\ \A i \in 1..n : i - 1 \in S => i \in S
  OBVIOUS
<1> HIDE DEF S
<1>2. \A i \in 0..n : i \in S
  BY <1>1, InductionTo
<1> QED
  BY <1>2 DEF S

----------------------------------------------------------------------------
(* Paths: their segments, what normalisePath makes of them and what a bundle *)
(* opens for them; and the tags of manifests.                                *)

\* The segments of the first i characters, as Split builds them.
LEMMA SegmentsRec ==
  ASSUME NEW n \in Nat, NEW p, \A i \in 1..n : p[i] \in Chars
  PROVE  LET u == CHOOSE f : f = [i \in 0..n |->
                    IF i = 0 THEN << <<>> >>
                    ELSE IF p[i] = "/" THEN Append(f[i - 1], <<>>)
                    ELSE [f[i - 1] EXCEPT ![Len(f[i - 1])] = Append(@, p[i])]]
         IN /\ u[0] = << <<>> >>
            /\ \A i \in 1..n : u[i] = IF p[i] = "/" THEN Append(u[i - 1], <<>>)
                                      ELSE [u[i - 1] EXCEPT ![Len(u[i - 1])] = Append(@, p[i])]
            /\ \A i \in 0..n : u[i] \in Seq(Seq(Chars)) /\ Len(u[i]) > 0
<1> DEFINE X == {x \in Seq(Seq(Chars)) : Len(x) > 0}
           a == << <<>> >>
           G(x, i) == IF p[i] = "/" THEN Append(x, <<>>)
                      ELSE [x EXCEPT ![Len(x)] = Append(@, p[i])]
           F == [i \in 1..n |-> [x \in X |-> G(x, i)]]
           Eq(f) == f = [i \in 0..n |-> IF i = 0 THEN a ELSE G(f[i - 1], i)]
           u == CHOOSE f : Eq(f)
<1>1. n \in Nat /\ a \in X
  OBVIOUS
<1>2. ASSUME NEW i \in 1..n, NEW x \in X PROVE G(x, i) \in X
  <2>1. CASE p[i] = "/"
    <3>1. <<>> \in Seq(Chars)
      OBVIOUS
    <3>2. Append(x, <<>>) \in Seq(Seq(Chars)) /\ Len(Append(x, <<>>)) = Len(x) + 1
      BY <3>1, AppendProperties
    <3> QED
      BY <2>1, <3>2
  <2>2. CASE p[i] # "/"
    <3> DEFINE m == Len(x)
               e == Append(x[m], p[i])
    <3>1. m \in 1..Len(x) /\ x[m] \in Seq(Chars) /\ p[i] \in Chars
      OBVIOUS
    <3>2. e \in Seq(Chars)
      BY <3>1, AppendProperties
    <3> HIDE DEF e, m
    <3>3. [x EXCEPT ![m] = e] \in Seq(Seq(Chars)) /\ Len([x EXCEPT ![m] = e]) = Len(x)
      BY <3>1, <3>2, ExceptSeq
    <3>4. G(x, i) = [x EXCEPT ![m] = e]
      BY <2>2 DEF e, m
    <3> QED
      BY <3>3, <3>4
  <2> QED
    BY <2>1, <2>2
<1> HIDE DEF X, a, G
<1>3. \A i \in 1..n : \A x \in X : F[i][x] = G(x, i)
  OBVIOUS
<1>4. F \in [1..n -> [X -> X]]
  BY <1>2
<1> HIDE DEF F
<1>5. PICK f \in [0..n -> X] : f[0] = a /\ \A i \in 1..n : f[i] = F[i][f[i - 1]]
  BY ONLY <1>1, <1>4, Recursion
<1>6. \A i \in 1..n : f[i - 1] \in X /\ f[i] = G(f[i - 1], i)
  BY <1>3, <1>5
<1>7. Eq(f)
  BY <1>5, <1>6
<1>8. Eq(u)
  BY <1>7
<1> HIDE DEF u, Eq
<1>9. u[0] = a
  BY <1>8 DEF Eq
<1>10. \A i \in 1..n : u[i] = G(u[i - 1], i)
  BY <1>8 DEF Eq
<1>11. \A i \in 0..n : u[i] \in X
  <2>1. u[0] \in X /\ \A i \in 1..n : u[i - 1] \in X => u[i] \in X
    BY <1>1, <1>2, <1>9, <1>10
  <2> QED
    BY ONLY <1>1, <2>1, TypeAlong
<1> QED
  BY <1>9, <1>10, <1>11 DEF u, Eq, G, X, a

\* Split is the last of those.
LEMMA SplitRec ==
  ASSUME NEW p \in Seq(Chars)
  PROVE  \E u : /\ u[0] = << <<>> >>
                /\ \A i \in 1..Len(p) :
                     u[i] = IF p[i] = "/" THEN Append(u[i - 1], <<>>)
                            ELSE [u[i - 1] EXCEPT ![Len(u[i - 1])] = Append(@, p[i])]
                /\ \A i \in 0..Len(p) : u[i] \in Seq(Seq(Chars)) /\ Len(u[i]) > 0
                /\ Split(p) = u[Len(p)]
<1> DEFINE u == CHOOSE f : f = [i \in 0..Len(p) |->
                    IF i = 0 THEN << <<>> >>
                    ELSE IF p[i] = "/" THEN Append(f[i - 1], <<>>)
                    ELSE [f[i - 1] EXCEPT ![Len(f[i - 1])] = Append(@, p[i])]]
<1>1. Len(p) \in Nat /\ \A i \in 1..Len(p) : p[i] \in Chars
  OBVIOUS
<1>2. /\ u[0] = << <<>> >>
      /\ \A i \in 1..Len(p) :
           u[i] = IF p[i] = "/" THEN Append(u[i - 1], <<>>)
                  ELSE [u[i - 1] EXCEPT ![Len(u[i - 1])] = Append(@, p[i])]
      /\ \A i \in 0..Len(p) : u[i] \in Seq(Seq(Chars)) /\ Len(u[i]) > 0
  BY <1>1, SegmentsRec, Zenon
<1>3. Split(p) = u[Len(p)]
  BY DEF Split
<1> HIDE DEF u
<1> QED
  BY <1>2, <1>3

\* What Split returns is a nonempty sequence of segments.
LEMMA SplitType ==
  ASSUME NEW p \in Seq(Chars)
  PROVE  Split(p) \in Seq(Seq(Chars)) /\ Len(Split(p)) > 0 /\ LastSegment(p) \in Seq(Chars)
<1>1. Split(p) \in Seq(Seq(Chars)) /\ Len(Split(p)) > 0
  <2>1. Len(p) \in 0..Len(p)
    OBVIOUS
  <2>2. PICK u : /\ \A i \in 0..Len(p) : u[i] \in Seq(Seq(Chars)) /\ Len(u[i]) > 0
                 /\ Split(p) = u[Len(p)]
    BY SplitRec, Zenon
  <2> QED
    BY <2>1, <2>2
<1> QED
  BY <1>1 DEF LastSegment

\* e is what follows position k in the first i characters of p, where k is the last
\* slash there, or 0.
AfterSlash(p, i, k, e) ==
  /\ k = 0 \/ p[k] = "/"
  /\ \A j \in (k + 1)..i : p[j] # "/"
  /\ Len(e) = i - k
  /\ \A j \in 1..(i - k) : e[j] = p[k + j]

\* The last segment of a path is what follows its last slash.
LEMMA LastSegmentIs ==
  ASSUME NEW p \in Seq(Chars)
  PROVE  \E k \in 0..Len(p) : AfterSlash(p, Len(p), k, LastSegment(p))
<1> DEFINE n == Len(p)
<1>0. n \in Nat /\ \A i \in 1..n : p[i] \in Chars
  OBVIOUS
<1>1. PICK u : /\ u[0] = << <<>> >>
               /\ \A i \in 1..n :
                    u[i] = IF p[i] = "/" THEN Append(u[i - 1], <<>>)
                           ELSE [u[i - 1] EXCEPT ![Len(u[i - 1])] = Append(@, p[i])]
               /\ \A i \in 0..n : u[i] \in Seq(Seq(Chars)) /\ Len(u[i]) > 0
               /\ Split(p) = u[n]
  BY SplitRec
<1> HIDE DEF n
<1> DEFINE last(i) == u[i][Len(u[i])]
           S == {i \in 0..n : \E k \in 0..i : AfterSlash(p, i, k, last(i))}
<1>2. 0 \in S
  <2>1. last(0) = <<>>
    BY <1>1
  <2>2. AfterSlash(p, 0, 0, <<>>)
    BY DEF AfterSlash
  <2> QED
    BY <1>0, <2>1, <2>2
<1>3. ASSUME NEW i \in 1..n, i - 1 \in S PROVE i \in S
  <2>0. i - 1 \in 0..n /\ i \in Nat /\ i \in 0..n
    BY <1>0
  <2> DEFINE x == u[i - 1]
             m == Len(x)
  <2>1. x \in Seq(Seq(Chars)) /\ m \in Nat /\ m > 0 /\ x[m] \in Seq(Chars)
    BY <1>1, <2>0
  <2>2. PICK k \in 0..(i - 1) : AfterSlash(p, i - 1, k, x[m])
    BY <1>3
  <2>3. CASE p[i] = "/"
    <3>1. <<>> \in Seq(Chars)
      OBVIOUS
    <3>2. u[i] = Append(x, <<>>)
      BY <1>1, <2>3
    <3> HIDE DEF x
    <3>3. Len(Append(x, <<>>)) = m + 1 /\ Append(x, <<>>)[m + 1] = <<>>
      BY <2>1, <3>1, AppendProperties
    <3>4. last(i) = <<>>
      BY <3>2, <3>3
    <3>5. AfterSlash(p, i, i, <<>>)
      BY <2>0, <2>3 DEF AfterSlash
    <3> QED
      BY <2>0, <3>4, <3>5
  <2>4. CASE p[i] # "/"
    <3> DEFINE e == Append(x[m], p[i])
    <3>1. u[i] = [x EXCEPT ![m] = e]
      BY <1>1, <2>4
    <3>2. e \in Seq(Chars) /\ Len(e) = Len(x[m]) + 1 /\ e[Len(x[m]) + 1] = p[i]
          /\ \A j \in 1..Len(x[m]) : e[j] = x[m][j]
      BY <1>0, <2>1, AppendProperties
    <3> HIDE DEF x, m, e
    <3>3. /\ Len([x EXCEPT ![m] = e]) = Len(x)
          /\ [x EXCEPT ![m] = e][m] = e
      <4>1. m \in 1..Len(x)
        BY <2>1 DEF m
      <4> QED
        BY <2>1, <3>2, <4>1, ExceptSeq
    <3>4. last(i) = e
      BY <3>1, <3>3 DEF m
    <3>5. AfterSlash(p, i, k, e)
      <4>1. Len(x[m]) = i - 1 - k /\ Len(e) = i - k
        BY <2>0, <2>2, <3>2 DEF AfterSlash
      <4>2. \A j \in (k + 1)..i : p[j] # "/"
        BY <2>0, <2>2, <2>4 DEF AfterSlash
      <4>3. ASSUME NEW j \in 1..(i - k) PROVE e[j] = p[k + j]
        <5>1. CASE j = i - k
          BY <5>1, <4>1, <2>0, <3>2
        <5>2. CASE j < i - k
          <6>1. j \in 1..(i - 1 - k)
            BY <5>2, <2>0
          <6> QED
            BY <6>1, <4>1, <2>2, <3>2 DEF AfterSlash
        <5> QED
          BY <5>1, <5>2, <2>0
      <4> QED
        BY <4>1, <4>2, <4>3, <2>2 DEF AfterSlash
    <3>6. k \in 0..i
      BY <2>0
    <3> QED
      BY <2>0, <3>4, <3>5, <3>6
  <2> QED
    BY <2>3, <2>4
<1> HIDE DEF S
<1>4. n \in S
  <2>1. \A i \in 1..n : i - 1 \in S => i \in S
    BY <1>3
  <2>2. \A i \in 0..n : i \in S
    BY ONLY <1>0, <1>2, <2>1, InductionTo
  <2> QED
    BY <1>0, <2>2
<1>5. LastSegment(p) = last(n)
  BY <1>1 DEF LastSegment
<1> QED
  BY <1>4, <1>5 DEF S, n

\* A set of numbers up to n that is not empty has a greatest element.
LEMMA NatMax ==
  ASSUME NEW n \in Nat, NEW T, T \subseteq 0..n, T # {}
  PROVE  \E x \in T : \A y \in T : y <= x
<1> DEFINE R == {m \in Nat : \E y \in T : m = n - y}
<1>1. R \subseteq Nat /\ R # {}
  <2>1. PICK y \in T : TRUE
    OBVIOUS
  <2>2. n - y \in R
    BY <2>1
  <2> QED
    BY <2>2
<1>2. PICK m \in R : \A y \in R : m <= y
  BY <1>1, NatMin
<1>3. PICK x \in T : m = n - x
  BY <1>2
<1>4. ASSUME NEW y \in T PROVE y <= x
  <2>1. n - y \in R /\ x \in 0..n /\ y \in 0..n
    OBVIOUS
  <2>2. n - x <= n - y
    BY <2>1, <1>2, <1>3
  <2> QED
    BY <2>1, <2>2
<1> QED
  BY <1>4

\* The extension of a path whose last segment has a dot has no slash.
LEMMA ExtensionInSegment ==
  ASSUME NEW p \in Seq(Chars), DotIn(LastSegment(p))
  PROVE  ~ Has(Extension(p), "/")
<1> DEFINE n == Len(p)
           dots == {i \in 1..n : p[i] \in {".", "I"}}
           z == CHOOSE i \in dots : \A j \in dots : j <= i
<1>0. n \in Nat /\ \A i \in 1..n : p[i] \in Chars
  OBVIOUS
<1>1. PICK k \in 0..n : AfterSlash(p, n, k, LastSegment(p))
  BY LastSegmentIs
<1>2. PICK j \in 1..(n - k) : LastSegment(p)[j] \in {".", "I"}
  BY <1>1, SplitType DEF DotIn, Has, AfterSlash
<1>3. k + j \in dots /\ k + j > k
  BY <1>0, <1>1, <1>2 DEF AfterSlash
<1>4. z \in dots /\ \A i \in dots : i <= z
  <2>1. dots \subseteq 0..n /\ dots # {}
    BY <1>3
  <2> HIDE DEF dots
  <2>2. \E i \in dots : \A y \in dots : y <= i
    BY <1>0, <2>1, NatMax
  <2> QED
    BY <2>2
<1>5. Extension(p) = SubSeq(p, z, n)
  BY <1>3 DEF Extension
<1>6. z \in 1..n /\ z > k
  BY <1>3, <1>4, <1>0
<1> HIDE DEF dots, z
<1>7. \A i \in z..n : p[i] # "/" /\ p[i] \in Chars
  BY <1>0, <1>1, <1>6 DEF AfterSlash
<1>8. /\ Len(SubSeq(p, z, n)) = n - z + 1
      /\ \A i \in 1..(n - z + 1) : SubSeq(p, z, n)[i] = p[z + i - 1]
  <2>1. z \in Int /\ n \in Int /\ z <= n /\ \A i \in z..n : p[i] \in Chars
    BY <1>0, <1>6, <1>7
  <2> HIDE DEF n
  <2>2. /\ Len(SubSeq(p, z, n)) = IF z <= n THEN n - z + 1 ELSE 0
        /\ \A i \in 1..(n - z + 1) : SubSeq(p, z, n)[i] = p[z + i - 1]
    BY <2>1, SubSeqProperties
  <2> QED
    BY <2>1, <2>2
<1> HIDE DEF n
<1>9. ASSUME NEW i \in 1..(n - z + 1) PROVE SubSeq(p, z, n)[i] # "/"
  <2>1. z + i - 1 \in z..n
    BY <1>0, <1>6
  <2> QED
    BY <2>1, <1>7, <1>8
<1> QED
  BY <1>5, <1>8, <1>9 DEF Has

\* What Collapse makes of the characters from i on.
LEMMA CollapseRec ==
  ASSUME NEW p \in Seq(Chars)
  PROVE  \E c : /\ Collapse(p) = c[1]
                /\ \A i \in 1..(Len(p) + 1) :
                     /\ i > Len(p) => c[i] = <<>>
                     /\ i < Len(p) /\ p[i] = "/" /\ p[i + 1] = "/" => c[i] = <<"/">> \o c[i + 2]
                     /\ i <= Len(p) /\ ~ (i < Len(p) /\ p[i] = "/" /\ p[i + 1] = "/")
                          => c[i] = <<p[i]>> \o c[i + 1]
<1> DEFINE n == Len(p)
           G(h, i) == IF i > n THEN <<>>
                      ELSE IF i < n /\ p[i] = "/" /\ p[i + 1] = "/" THEN <<"/">> \o h[i + 2]
                      ELSE <<p[i]>> \o h[i + 1]
           Eq(f) == f = [i \in 1..(n + 1) |-> G(f, i)]
           c == CHOOSE f : Eq(f)
           S == {j \in 0..n : \E h : \A i \in (n + 1 - j)..(n + 1) : h[i] = G(h, i)}
<1>0. n \in Nat
  OBVIOUS
<1>1. Collapse(p) = c[1]
  BY DEF Collapse
<1> HIDE DEF n
<1>2. 0 \in S
  <2> DEFINE h == [i \in {n + 1} |-> <<>>]
  <2>1. \A i \in (n + 1 - 0)..(n + 1) : h[i] = G(h, i)
    BY <1>0
  <2> HIDE DEF h
  <2> QED
    BY <1>0, <2>1
<1>3. ASSUME NEW j \in 1..n, j - 1 \in S PROVE j \in S
  <2> DEFINE z == n + 1 - j
  <2>1. z \in 1..n /\ n + 1 - (j - 1) = z + 1
    BY <1>0
  <2>2. PICK h : \A i \in (z + 1)..(n + 1) : h[i] = G(h, i)
    BY <1>3, <2>1
  <2> HIDE DEF z
  <2> DEFINE g == [i \in z..(n + 1) |-> IF i = z THEN G(h, z) ELSE h[i]]
  <2>3. g[z] = G(h, z) /\ \A i \in (z + 1)..(n + 1) : g[i] = h[i]
    BY <2>1, <1>0
  <2> HIDE DEF g
  <2>4. ASSUME NEW i \in z..(n + 1) PROVE G(g, i) = G(h, i)
    <3>1. CASE i > n
      BY <3>1
    <3>2. CASE i < n
      <4>1. i + 1 \in (z + 1)..(n + 1) /\ i + 2 \in (z + 1)..(n + 1)
        BY <3>2, <2>1, <1>0
      <4> QED
        BY <4>1, <2>3
    <3>3. CASE i = n
      <4>1. i + 1 \in (z + 1)..(n + 1) /\ ~ (i < n)
        BY <3>3, <2>1, <1>0
      <4> QED
        BY <4>1, <2>3
    <3> QED
      BY <3>1, <3>2, <3>3, <2>1, <1>0
  <2>5. ASSUME NEW i \in z..(n + 1) PROVE g[i] = G(g, i)
    <3>1. CASE i = z
      BY <3>1, <2>3, <2>4
    <3>2. CASE i # z
      <4>1. i \in (z + 1)..(n + 1)
        BY <3>2, <2>1, <1>0
      <4>2. g[i] = h[i] /\ h[i] = G(h, i)
        BY <4>1, <2>2, <2>3
      <4> QED
        BY <4>2, <2>4
    <3> QED
      BY <3>1, <3>2
  <2>6. \E f : \A i \in (n + 1 - j)..(n + 1) : f[i] = G(f, i)
    BY <2>5 DEF z
  <2>7. j \in 0..n
    BY <1>0
  <2> QED
    BY <2>6, <2>7, Zenon
<1> HIDE DEF S
<1>4. n \in S
  <2>1. \A j \in 1..n : j - 1 \in S => j \in S
    BY <1>3
  <2>2. \A j \in 0..n : j \in S
    BY ONLY <1>0, <1>2, <2>1, InductionTo
  <2> QED
    BY <1>0, <2>2
<1>5. PICK h : \A i \in 1..(n + 1) : h[i] = G(h, i)
  BY <1>4, <1>0 DEF S
<1> DEFINE f == [i \in 1..(n + 1) |-> h[i]]
<1>6. Eq(f)
  <2>1. ASSUME NEW i \in 1..(n + 1) PROVE G(f, i) = G(h, i)
    <3>1. CASE i > n
      BY <3>1
    <3>2. CASE i < n
      <4>1. i + 1 \in 1..(n + 1) /\ i + 2 \in 1..(n + 1)
        BY <3>2, <1>0
      <4> QED
        BY <4>1
    <3>3. CASE i = n
      <4>1. i + 1 \in 1..(n + 1) /\ ~ (i < n)
        BY <3>3, <1>0
      <4> QED
        BY <4>1
    <3> QED
      BY <3>1, <3>2, <3>3, <1>0
  <2> HIDE DEF G
  <2>2. f = [i \in 1..(n + 1) |-> G(f, i)]
    BY <2>1, <1>5
  <2> QED
    BY <2>2
<1>7. Eq(c)
  <2> HIDE DEF f, Eq
  <2> QED
    BY <1>6
<1> HIDE DEF c
<1>8. \A i \in 1..(n + 1) : c[i] = G(c, i)
  BY <1>7
<1>9. ASSUME NEW i \in 1..(n + 1)
      PROVE  /\ i > n => c[i] = <<>>
             /\ i < n /\ p[i] = "/" /\ p[i + 1] = "/" => c[i] = <<"/">> \o c[i + 2]
             /\ i <= n /\ ~ (i < n /\ p[i] = "/" /\ p[i + 1] = "/") => c[i] = <<p[i]>> \o c[i + 1]
  <2>1. c[i] = G(c, i) /\ (i > n <=> ~ (i <= n)) /\ (i > n => ~ (i < n))
    BY <1>0, <1>8
  <2> QED
    BY <2>1, Zenon
<1> QED
  BY <1>1, <1>9 DEF n

\* Induction downwards from n + 1.
LEMMA InductionDown ==
  ASSUME NEW n \in Nat, NEW S, n + 1 \in S,
         \A i \in 1..n : (\A j \in (i + 1)..(n + 1) : j \in S) => i \in S
  PROVE  \A i \in 1..(n + 1) : i \in S
<1> DEFINE T == (1..(n + 1)) \ S
<1> SUFFICES ASSUME T # {} PROVE FALSE
  OBVIOUS
<1>1. T \subseteq 0..(n + 1) /\ n + 1 \in Nat
  OBVIOUS
<1> HIDE DEF T
<1>2. PICK x \in T : \A y \in T : y <= x
  BY <1>1, NatMax
<1>3. x \in 1..n
  BY <1>2 DEF T
<1>4. \A j \in (x + 1)..(n + 1) : j \in S
  BY <1>2, <1>3 DEF T
<1> QED
  BY <1>2, <1>3, <1>4 DEF T

\* A path with one character put before it.
LEMMA Prefixed ==
  ASSUME NEW x \in Chars, NEW s \in Seq(Chars)
  PROVE  /\ <<x>> \o s \in Seq(Chars)
         /\ Len(<<x>> \o s) = Len(s) + 1
         /\ (<<x>> \o s)[1] = x
         /\ \A j \in 2..(Len(s) + 1) : (<<x>> \o s)[j] = s[j - 1]
<1>1. <<x>> \in Seq(Chars) /\ Len(<<x>>) = 1 /\ <<x>>[1] = x
  OBVIOUS
<1> QED
  BY <1>1, ConcatProperties

\* Collapse keeps the characters' type and the leading slash.
LEMMA CollapseType ==
  ASSUME NEW p \in Seq(Chars)
  PROVE  Collapse(p) \in Seq(Chars) /\ (Rooted(p) => Rooted(Collapse(p)))
<1> DEFINE n == Len(p)
<1>0. n \in Nat /\ \A i \in 1..n : p[i] \in Chars
  OBVIOUS
<1>1. PICK c : /\ Collapse(p) = c[1]
               /\ \A i \in 1..(n + 1) :
                    /\ i > n => c[i] = <<>>
                    /\ i < n /\ p[i] = "/" /\ p[i + 1] = "/" => c[i] = <<"/">> \o c[i + 2]
                    /\ i <= n /\ ~ (i < n /\ p[i] = "/" /\ p[i + 1] = "/")
                         => c[i] = <<p[i]>> \o c[i + 1]
  BY CollapseRec
<1> HIDE DEF n
<1> DEFINE S == {i \in 1..(n + 1) : c[i] \in Seq(Chars)}
<1>2. n + 1 \in S
  <2>1. n + 1 \in 1..(n + 1) /\ n + 1 > n
    BY <1>0
  <2>2. c[n + 1] = <<>>
    BY <1>1, <2>1
  <2>3. <<>> \in Seq(Chars)
    OBVIOUS
  <2> QED
    BY <2>1, <2>2, <2>3
<1>3. ASSUME NEW i \in 1..n, \A j \in (i + 1)..(n + 1) : j \in S PROVE i \in S
  <2>1. p[i] \in Chars /\ "/" \in Chars /\ i \in 1..(n + 1) /\ i <= n
    BY <1>0 DEF Chars
  <2>2. c[i + 1] \in Seq(Chars)
    BY <1>0, <1>3
  <2>3. i < n => c[i + 2] \in Seq(Chars)
    BY <1>0, <1>3
  <2>4. CASE i < n /\ p[i] = "/" /\ p[i + 1] = "/"
    <3>1. c[i] = <<"/">> \o c[i + 2]
      BY <1>1, <2>1, <2>4
    <3>2. <<"/">> \o c[i + 2] \in Seq(Chars)
      BY ONLY <2>1, <2>3, <2>4, Prefixed
    <3> QED
      BY <3>1, <3>2, <2>1
  <2>5. CASE ~ (i < n /\ p[i] = "/" /\ p[i + 1] = "/")
    <3>1. c[i] = <<p[i]>> \o c[i + 1]
      BY <1>1, <2>1, <2>5
    <3>2. <<p[i]>> \o c[i + 1] \in Seq(Chars)
      BY ONLY <2>1, <2>2, Prefixed
    <3> QED
      BY <3>1, <3>2, <2>1
  <2> QED
    BY <2>4, <2>5
<1> HIDE DEF S
<1>4. \A i \in 1..(n + 1) : i \in S
  BY ONLY <1>0, <1>2, <1>3, InductionDown
<1>5. \A i \in 1..(n + 1) : c[i] \in Seq(Chars)
  BY <1>4 DEF S
<1>6. ASSUME Rooted(p) PROVE Rooted(c[1])
  <2>1. n > 0 /\ p[1] = "/" /\ 1 \in 1..(n + 1) /\ 1 <= n
    BY <1>0, <1>6 DEF Rooted, n
  <2>2. \E s \in Seq(Chars) : c[1] = <<"/">> \o s
    <3>1. CASE 1 < n /\ p[1 + 1] = "/"
      <4>1. c[1] = <<"/">> \o c[1 + 2] /\ 1 + 2 \in 1..(n + 1)
        BY <1>0, <1>1, <2>1, <3>1
      <4> QED
        BY <4>1, <1>5
    <3>2. CASE ~ (1 < n /\ p[1 + 1] = "/")
      <4>1. c[1] = <<"/">> \o c[1 + 1] /\ 1 + 1 \in 1..(n + 1)
        BY <1>0, <1>1, <2>1, <3>2
      <4> QED
        BY <4>1, <1>5
    <3> QED
      BY <3>1, <3>2
  <2> QED
    BY <2>2 DEF Rooted
<1>7. 1 \in 1..(n + 1)
  BY <1>0
<1> QED
  BY <1>1, <1>5, <1>6, <1>7

\* Collapse leaves two slashes in a row only of three, and adds no "%".
LEMMA CollapseSlashes ==
  ASSUME NEW p \in Seq(Chars)
  PROVE  /\ DoubleSlash(Collapse(p)) => TripleSlash(p)
         /\ Has(Collapse(p), "%") => Has(p, "%")
<1> DEFINE n == Len(p)
           Good(s, i) == /\ s \in Seq(Chars)
                         /\ Len(s) > 0 => i <= n /\ s[1] = p[i]
                         /\ DoubleSlash(s) => TripleSlash(p)
                         /\ Has(s, "%") => Has(p, "%")
<1>0. n \in Nat /\ \A i \in 1..n : p[i] \in Chars
  OBVIOUS
<1>1. PICK c : /\ Collapse(p) = c[1]
               /\ \A i \in 1..(n + 1) :
                    /\ i > n => c[i] = <<>>
                    /\ i < n /\ p[i] = "/" /\ p[i + 1] = "/" => c[i] = <<"/">> \o c[i + 2]
                    /\ i <= n /\ ~ (i < n /\ p[i] = "/" /\ p[i + 1] = "/")
                         => c[i] = <<p[i]>> \o c[i + 1]
  BY CollapseRec
<1> DEFINE S == {i \in 1..(n + 1) : Good(c[i], i)}
<1>2. n + 1 \in S
  <2>1. n + 1 \in 1..(n + 1) /\ n + 1 > n
    BY <1>0
  <2>2. c[n + 1] = <<>>
    BY <1>1, <2>1
  <2>3. <<>> \in Seq(Chars) /\ Len(<<>>) = 0
    OBVIOUS
  <2>4. ~ DoubleSlash(<<>>) /\ ~ Has(<<>>, "%")
    BY <2>3 DEF DoubleSlash, Has
  <2>5. Good(<<>>, n + 1)
    BY <2>3, <2>4
  <2> HIDE DEF Good
  <2> QED
    BY <2>1, <2>2, <2>5
\* One character before what is good from k on.
<1>3. ASSUME NEW i \in 1..n, NEW k \in {i + 1, i + 2}, k \in S, c[i] = <<p[i]>> \o c[k],
             p[i] = "/" /\ k <= n /\ p[k] = "/" => TripleSlash(p)
      PROVE  i \in S
  <2> DEFINE s == c[k]
             t == <<p[i]>> \o s
  <2>1. Good(s, k) /\ p[i] \in Chars /\ i \in 1..(n + 1) /\ i <= n
    BY <1>0, <1>3
  <2> HIDE DEF s
  <2>2. /\ t \in Seq(Chars) /\ Len(t) = Len(s) + 1 /\ t[1] = p[i]
        /\ \A j \in 2..(Len(s) + 1) : t[j] = s[j - 1]
    BY <2>1, Prefixed
  <2> HIDE DEF t
  <2>3. Len(s) \in Nat
    BY <2>1
  <2>4. ASSUME DoubleSlash(t) PROVE TripleSlash(p)
    <3>1. PICK j \in 1..(Len(t) - 1) : t[j] = "/" /\ t[j + 1] = "/"
      BY <2>4 DEF DoubleSlash
    <3>2. CASE j = 1
      <4>1. Len(s) > 0 /\ s[1] = "/" /\ p[i] = "/"
        BY <2>2, <2>3, <3>1, <3>2
      <4> QED
        BY <1>3, <2>1, <4>1
    <3>3. CASE j > 1
      <4>1. /\ j \in 2..(Len(s) + 1) /\ j + 1 \in 2..(Len(s) + 1)
            /\ j - 1 \in 1..(Len(s) - 1) /\ (j + 1) - 1 = (j - 1) + 1
        BY <2>2, <2>3, <3>1, <3>3
      <4>2. t[j] = s[j - 1] /\ t[j + 1] = s[(j - 1) + 1]
        BY <2>2, <4>1
      <4>3. DoubleSlash(s)
        BY <3>1, <4>1, <4>2 DEF DoubleSlash
      <4> QED
        BY <2>1, <4>3
    <3> QED
      BY <2>2, <2>3, <3>1, <3>2, <3>3
  <2>5. ASSUME Has(t, "%") PROVE Has(p, "%")
    <3>1. PICK j \in 1..Len(t) : t[j] = "%"
      BY <2>5 DEF Has
    <3>2. CASE j = 1
      BY <1>0, <2>1, <2>2, <3>1, <3>2 DEF Has
    <3>3. CASE j > 1
      <4>1. j \in 2..(Len(s) + 1) /\ j - 1 \in 1..Len(s)
        BY <2>2, <2>3, <3>1, <3>3
      <4>2. Has(s, "%")
        BY <2>2, <3>1, <4>1 DEF Has
      <4> QED
        BY <2>1, <4>2
    <3> QED
      BY <2>2, <2>3, <3>1, <3>2, <3>3
  <2>6. Good(t, i)
    BY <2>1, <2>2, <2>4, <2>5
  <2>7. c[i] = t
    BY <1>3 DEF t, s
  <2> HIDE DEF Good
  <2> QED
    BY <2>1, <2>6, <2>7
<1>4. ASSUME NEW i \in 1..n, \A j \in (i + 1)..(n + 1) : j \in S PROVE i \in S
  <2> HIDE DEF S
  <2>1. CASE i < n /\ p[i] = "/" /\ p[i + 1] = "/"
    <3>1. i + 2 \in (i + 1)..(n + 1) /\ i \in 1..(n + 1)
      BY <1>0, <2>1
    <3>2. c[i] = <<p[i]>> \o c[i + 2]
      BY <1>1, <2>1, <3>1
    <3>3. i + 2 <= n /\ p[i + 2] = "/" => TripleSlash(p)
      BY <1>0, <2>1 DEF TripleSlash
    <3> QED
      BY <1>3, <1>4, <3>1, <3>2, <3>3
  <2>2. CASE ~ (i < n /\ p[i] = "/" /\ p[i + 1] = "/")
    <3>1. i + 1 \in (i + 1)..(n + 1) /\ i \in 1..(n + 1) /\ i <= n
      BY <1>0
    <3>2. c[i] = <<p[i]>> \o c[i + 1]
      BY <1>1, <2>2, <3>1
    <3>3. ~ (p[i] = "/" /\ i + 1 <= n /\ p[i + 1] = "/")
      BY <1>0, <2>2
    <3> QED
      BY <1>3, <1>4, <3>1, <3>2, <3>3
  <2> QED
    BY <2>1, <2>2
<1> HIDE DEF S
<1>5. \A i \in 1..(n + 1) : i \in S
  BY ONLY <1>0, <1>2, <1>4, InductionDown
<1>6. 1 \in S
  BY <1>0, <1>5
<1> QED
  BY <1>1, <1>6 DEF S

\* Collapse changes nothing where no slash follows a slash.
LEMMA CollapseNothing ==
  ASSUME NEW p \in Seq(Chars),
         ~ \E i \in 1..(Len(p) - 1) : p[i] = "/" /\ p[i + 1] = "/"
  PROVE  Collapse(p) = p
<1> DEFINE n == Len(p)
<1>0. n \in Nat /\ \A i \in 1..n : p[i] \in Chars
  OBVIOUS
<1>1. PICK c : /\ Collapse(p) = c[1]
               /\ \A i \in 1..(n + 1) :
                    /\ i > n => c[i] = <<>>
                    /\ i < n /\ p[i] = "/" /\ p[i + 1] = "/" => c[i] = <<"/">> \o c[i + 2]
                    /\ i <= n /\ ~ (i < n /\ p[i] = "/" /\ p[i + 1] = "/")
                         => c[i] = <<p[i]>> \o c[i + 1]
  BY CollapseRec
<1>2. \A i \in 1..(n - 1) : ~ (p[i] = "/" /\ p[i + 1] = "/")
  OBVIOUS
<1>3. p = [j \in 1..n |-> p[j]]
  OBVIOUS
<1> HIDE DEF n
<1> DEFINE R(i) == [j \in 1..(n + 1 - i) |-> p[i + j - 1]]
           S == {i \in 1..(n + 1) : c[i] = R(i)}
<1>4. n + 1 \in S
  <2>1. n + 1 \in 1..(n + 1) /\ n + 1 > n
    BY <1>0
  <2>2. c[n + 1] = <<>>
    BY <1>1, <2>1
  <2>3. R(n + 1) = <<>>
    BY <1>0
  <2> HIDE DEF R
  <2> QED
    BY <2>1, <2>2, <2>3
<1>5. ASSUME NEW i \in 1..n, \A j \in (i + 1)..(n + 1) : j \in S PROVE i \in S
  <2>1. i \in 1..(n + 1) /\ i <= n /\ i + 1 \in (i + 1)..(n + 1)
    BY <1>0
  <2>2. ~ (i < n /\ p[i] = "/" /\ p[i + 1] = "/")
    BY <1>0, <1>2
  <2>3. c[i] = <<p[i]>> \o c[i + 1]
    BY <1>1, <2>1, <2>2
  <2>4. c[i + 1] = R(i + 1)
    BY <1>5, <2>1
  <2>5. R(i + 1) \in Seq(Chars) /\ Len(R(i + 1)) = n - i
    BY <1>0
  <2>6. R(i) \in Seq(Chars) /\ Len(R(i)) = n + 1 - i
    BY <1>0
  <2>7. <<p[i]>> \in Seq(Chars) /\ Len(<<p[i]>>) = 1 /\ <<p[i]>>[1] = p[i]
    BY <1>0
  <2> DEFINE q == <<p[i]>> \o R(i + 1)
  <2>8. /\ q \in Seq(Chars) /\ Len(q) = n + 1 - i
        /\ q[1] = p[i]
        /\ \A j \in 2..(n + 1 - i) : q[j] = R(i + 1)[j - 1]
    <3>1. p[i] \in Chars
      BY <1>0
    <3> HIDE DEF R
    <3>2. /\ q \in Seq(Chars) /\ Len(q) = Len(R(i + 1)) + 1
          /\ q[1] = p[i]
          /\ \A j \in 2..(Len(R(i + 1)) + 1) : q[j] = R(i + 1)[j - 1]
      BY ONLY <2>5, <3>1, Prefixed, Zenon
    <3>3. Len(R(i + 1)) + 1 = n + 1 - i
      <4> DEFINE l == Len(R(i + 1))
      <4>1. l = n - i
        BY <2>5
      <4> HIDE DEF l
      <4>2. l + 1 = n + 1 - i
        BY <4>1, <1>0
      <4> QED
        BY <4>2 DEF l
    <3> HIDE DEF q
    <3> QED
      BY <3>2, <3>3
  <2>9. ASSUME NEW j \in 1..(n + 1 - i) PROVE q[j] = R(i)[j]
    <3>1. CASE j = 1
      BY <3>1, <2>8, <1>0
    <3>2. CASE j # 1
      <4>1. j - 1 \in 1..(n - i) /\ j \in 2..(n + 1 - i)
        BY <3>2, <1>0
      <4>2. R(i + 1)[j - 1] = p[(i + 1) + (j - 1) - 1]
        BY <4>1, <1>0
      <4>3. R(i)[j] = p[i + j - 1] /\ (i + 1) + (j - 1) - 1 = i + j - 1
        BY <4>1, <1>0
      <4> QED
        BY <4>1, <4>2, <4>3, <2>8
    <3> QED
      BY <3>1, <3>2
  <2> HIDE DEF q, R
  <2>10. q = R(i)
    BY <2>6, <2>8, <2>9, SeqEqual
  <2> QED
    BY <2>1, <2>3, <2>4, <2>10 DEF q
<1> HIDE DEF S
<1>6. \A i \in 1..(n + 1) : i \in S
  BY ONLY <1>0, <1>4, <1>5, InductionDown
<1>7. c[1] = R(1)
  BY <1>0, <1>6 DEF S
<1>8. R(1) = p
  BY <1>0, <1>3
<1> QED
  BY <1>1, <1>7, <1>8

\* The index file of a directory whose path is p: p without a slash at its end, and
\* "/index.html".
LEMMA IndexFile ==
  ASSUME NEW p \in Seq(Chars)
  PROVE  \E m \in 0..Len(p) :
           LET q == TrimSlash(p) \o <<"/", "I">> IN
           /\ q \in Seq(Chars) /\ Len(q) = m + 2
           /\ \A i \in 1..m : q[i] = p[i]
           /\ q[m + 1] = "/" /\ q[m + 2] = "I"
           /\ m \in 1..Len(p) /\ p[m] = "/" => m < Len(p) /\ p[m + 1] = "/"
<1> DEFINE n == Len(p)
           e == <<"/", "I">>
<1>0. n \in Nat /\ \A i \in 1..n : p[i] \in Chars
  OBVIOUS
<1>1. e \in Seq(Chars) /\ Len(e) = 2 /\ e[1] = "/" /\ e[2] = "I"
  BY DEF Chars
<1> HIDE DEF e
<1>2. PICK m \in 0..n : /\ TrimSlash(p) \in Seq(Chars) /\ Len(TrimSlash(p)) = m
                        /\ \A i \in 1..m : TrimSlash(p)[i] = p[i]
                        /\ m \in 1..n /\ p[m] = "/" => m < n /\ p[m + 1] = "/"
  <2>1. CASE n > 0 /\ p[n] = "/"
    <3> DEFINE s == SubSeq(p, 1, n - 1)
    <3>1. TrimSlash(p) = s
      BY <2>1 DEF TrimSlash
    <3>2. s \in Seq(Chars) /\ Len(s) = n - 1 /\ \A i \in 1..(n - 1) : s[i] = p[i]
      <4> DEFINE z == n - 1
      <4>0. n \in Nat /\ n > 0
        BY <1>0, <2>1
      <4> HIDE DEF n
      <4>1. z \in Nat /\ (~ (1 <= z) => z = 0) /\ \A i \in 1..z : i \in 1..n
        BY <4>0
      <4> HIDE DEF z
      <4>2. z \in Nat /\ (\A i \in 1..z : p[i] \in Chars) /\ (~ (1 <= z) => z = 0)
        BY <1>0, <4>1
      <4>3. /\ SubSeq(p, 1, z) \in Seq(Chars)
            /\ Len(SubSeq(p, 1, z)) = IF 1 <= z THEN z - 1 + 1 ELSE 0
            /\ \A i \in 1..(z - 1 + 1) : SubSeq(p, 1, z)[i] = p[1 + i - 1]
        BY <4>2, SubSeqProperties
      <4>4. \A i \in 1..z : i \in 1..(z - 1 + 1) /\ 1 + i - 1 = i
        BY <4>2
      <4>5. Len(SubSeq(p, 1, z)) = z /\ \A i \in 1..z : SubSeq(p, 1, z)[i] = p[i]
        BY <4>2, <4>3, <4>4
      <4> QED
        BY <4>3, <4>5 DEF z
    <3>3. n - 1 \in 0..n /\ n - 1 < n /\ p[(n - 1) + 1] = "/"
      BY <1>0, <2>1
    <3> HIDE DEF s, n
    <3> QED
      BY <3>1, <3>2, <3>3
  <2>2. CASE ~ (n > 0 /\ p[n] = "/")
    <3>1. TrimSlash(p) = p /\ n \in 0..n /\ (n \in 1..n => p[n] # "/")
      BY <2>2 DEF TrimSlash
    <3> QED
      BY <3>1
  <2> QED
    BY <2>1, <2>2
<1> HIDE DEF n
<1> DEFINE t == TrimSlash(p)
           q == t \o e
<1>3. t \in Seq(Chars) /\ Len(t) = m /\ m \in Nat
  BY <1>0, <1>2
<1> HIDE DEF t
<1>4. /\ q \in Seq(Chars) /\ Len(q) = m + 2
      /\ \A i \in 1..(m + 2) : q[i] = IF i <= m THEN t[i] ELSE e[i - m]
  <2>1. /\ q \in Seq(Chars) /\ Len(q) = Len(t) + Len(e)
        /\ \A i \in 1..Len(t) + Len(e) : q[i] = IF i <= Len(t) THEN t[i] ELSE e[i - Len(t)]
    BY <1>1, <1>3, ConcatProperties, Zenon
  <2> HIDE DEF q
  <2> QED
    BY <2>1, <1>1, <1>3
<1> HIDE DEF q
<1>5. \A i \in 1..m : q[i] = p[i]
  BY <1>2, <1>3, <1>4 DEF t
<1>6. q[m + 1] = "/" /\ q[m + 2] = "I"
  <2>1. /\ m + 1 \in 1..(m + 2) /\ ~ (m + 1 <= m) /\ (m + 1) - m = 1
        /\ m + 2 \in 1..(m + 2) /\ ~ (m + 2 <= m) /\ (m + 2) - m = 2
    BY <1>3
  <2>2. q[m + 1] = e[(m + 1) - m] /\ q[m + 2] = e[(m + 2) - m]
    BY <1>4, <2>1
  <2> QED
    BY <1>1, <2>1, <2>2
<1> QED
  BY <1>2, <1>4, <1>5, <1>6 DEF q, t, e, n

\* AsIndex of a path without forbidden characters is such a path, and its last
\* segment has a dot.
LEMMA AsIndexSafe ==
  ASSUME NEW p \in Seq(Chars), Rooted(p), ~ Forbidden(p)
  PROVE  LET q == AsIndex(p) IN
         q \in Seq(Chars) /\ Rooted(q) /\ ~ Forbidden(q) /\ DotIn(LastSegment(q))
<1>1. CASE ~ (LastSegment(p) = <<>> \/ ~ DotIn(LastSegment(p)))
  BY <1>1 DEF AsIndex
<1>2. CASE LastSegment(p) = <<>> \/ ~ DotIn(LastSegment(p))
  <2> DEFINE q == TrimSlash(p) \o <<"/", "I">>
  <2>1. AsIndex(p) = q
    BY <1>2 DEF AsIndex
  <2>2. PICK m \in 0..Len(p) :
          /\ q \in Seq(Chars) /\ Len(q) = m + 2
          /\ \A i \in 1..m : q[i] = p[i]
          /\ q[m + 1] = "/" /\ q[m + 2] = "I"
    BY IndexFile, Zenon
  <2> HIDE DEF q
  <2>3. m \in Nat /\ Len(p) \in Nat /\ m <= Len(p)
    OBVIOUS
  <2>4. ASSUME NEW i \in 1..(m + 2) PROVE i \in 1..m \/ i = m + 1 \/ i = m + 2
    BY <2>3
  <2>5. Rooted(q)
    <3>1. CASE m = 0
      BY <3>1, <2>2 DEF Rooted
    <3>2. CASE m > 0
      <4>1. 1 \in 1..m
        BY <3>2, <2>3
      <4> QED
        BY <4>1, <2>2, <2>3 DEF Rooted
    <3> QED
      BY <3>1, <3>2, <2>3
  <2>6. ASSUME NEW i \in 1..(m + 2) PROVE q[i] # "B" /\ q[i] # "^"
    <3>1. CASE i \in 1..m
      <4>1. i \in 1..Len(p) /\ q[i] = p[i]
        BY <3>1, <2>2, <2>3
      <4> QED
        BY <4>1 DEF Forbidden, Has
    <3> QED
      BY <3>1, <2>2, <2>4
  <2>7. ASSUME NEW i \in 1..(m + 1) PROVE ~ (q[i] = "." /\ q[i + 1] = ".")
    <3>1. CASE i + 1 \in 1..m
      <4>1. i \in 1..(Len(p) - 1) /\ i \in 1..m
        BY <3>1, <2>3
      <4>2. q[i] = p[i] /\ q[i + 1] = p[i + 1]
        BY <4>1, <3>1, <2>2
      <4> QED
        BY <4>1, <4>2 DEF Forbidden, DotDotIn
    <3>2. i + 1 \in 1..m \/ i + 1 = m + 1 \/ i + 1 = m + 2
      BY <2>3
    <3> QED
      BY <3>1, <3>2, <2>2
  <2>8. ~ Forbidden(q)
    <3>1. Len(q) - 1 = m + 1
      BY <2>2, <2>3
    <3> QED
      BY <3>1, <2>2, <2>6, <2>7 DEF Forbidden, Has, DotDotIn
  <2>9. DotIn(LastSegment(q))
    <3>1. PICK k \in 0..(m + 2) : AfterSlash(q, m + 2, k, LastSegment(q))
      BY <2>2, LastSegmentIs
    <3>2. k = m + 1
      <4>1. m + 1 \notin (k + 1)..(m + 2)
        BY <3>1, <2>2 DEF AfterSlash
      <4>2. k # m + 2
        BY <3>1, <2>2, <2>3 DEF AfterSlash
      <4> QED
        BY <4>1, <4>2, <2>3
    <3>3. (m + 2) - k = 1 /\ k + 1 = m + 2
      BY <3>2, <2>3
    <3>4. Len(LastSegment(q)) = 1 /\ LastSegment(q)[1] = q[k + 1]
      BY <3>1, <3>3 DEF AfterSlash
    <3> QED
      BY <3>3, <3>4, <2>2 DEF DotIn, Has
  <2> QED
    BY <2>1, <2>2, <2>5, <2>8, <2>9
<1> QED
  BY <1>1, <1>2

\* AsIndex adds neither two slashes in a row nor a "%".
LEMMA AsIndexSlashes ==
  ASSUME NEW p \in Seq(Chars)
  PROVE  /\ DoubleSlash(AsIndex(p)) => DoubleSlash(p)
         /\ Has(AsIndex(p), "%") => Has(p, "%")
<1>1. CASE ~ (LastSegment(p) = <<>> \/ ~ DotIn(LastSegment(p)))
  BY <1>1 DEF AsIndex
<1>2. CASE LastSegment(p) = <<>> \/ ~ DotIn(LastSegment(p))
  <2> DEFINE q == TrimSlash(p) \o <<"/", "I">>
  <2>1. AsIndex(p) = q
    BY <1>2 DEF AsIndex
  <2>2. PICK m \in 0..Len(p) :
          /\ q \in Seq(Chars) /\ Len(q) = m + 2
          /\ \A i \in 1..m : q[i] = p[i]
          /\ q[m + 1] = "/" /\ q[m + 2] = "I"
          /\ m \in 1..Len(p) /\ p[m] = "/" => m < Len(p) /\ p[m + 1] = "/"
    BY IndexFile, Zenon
  <2> HIDE DEF q
  <2>3. m \in Nat /\ Len(p) \in Nat /\ m <= Len(p)
    OBVIOUS
  <2>4. ASSUME DoubleSlash(q) PROVE DoubleSlash(p)
    <3>1. PICK i \in 1..(m + 1) : q[i] = "/" /\ q[i + 1] = "/"
      <4>1. Len(q) - 1 = m + 1
        BY <2>2, <2>3
      <4> QED
        BY <2>4, <4>1 DEF DoubleSlash
    <3>2. CASE i + 1 <= m
      <4>1. i \in 1..m /\ i + 1 \in 1..m /\ i \in 1..(Len(p) - 1)
        BY <2>3, <3>2
      <4> QED
        BY <2>2, <3>1, <4>1 DEF DoubleSlash
    <3>3. CASE i = m
      <4>1. i \in 1..m /\ m \in 1..Len(p)
        BY <2>3, <3>3
      <4>2. p[m] = "/" /\ m < Len(p) /\ p[m + 1] = "/"
        BY <2>2, <3>1, <3>3, <4>1
      <4>3. m \in 1..(Len(p) - 1)
        BY <2>3, <4>1, <4>2
      <4> QED
        BY <4>2, <4>3 DEF DoubleSlash
    <3>4. CASE i = m + 1
      <4>1. i + 1 = m + 2
        BY <2>3, <3>4
      <4> QED
        BY <2>2, <3>1, <4>1
    <3>5. i + 1 <= m \/ i = m \/ i = m + 1
      BY <2>3
    <3> QED
      BY <3>2, <3>3, <3>4, <3>5
  <2>5. ASSUME Has(q, "%") PROVE Has(p, "%")
    <3>1. PICK i \in 1..(m + 2) : q[i] = "%"
      BY <2>2, <2>5 DEF Has
    <3>2. CASE i \in 1..m
      <4>1. i \in 1..Len(p)
        BY <2>3, <3>2
      <4> QED
        BY <2>2, <3>1, <3>2, <4>1 DEF Has
    <3>3. i \in 1..m \/ i = m + 1 \/ i = m + 2
      BY <2>3
    <3> QED
      BY <2>2, <3>1, <3>2, <3>3
  <2> QED
    BY <2>1, <2>4, <2>5
<1> QED
  BY <1>1, <1>2

\* The directories of the first i segments, as Clean collects them, when Clean's
\* segments are given by a function g.
LEMMA DirsRec ==
  ASSUME NEW n \in Nat, NEW g, \A i \in 1..n : g[i] \in Seq(Chars)
  PROVE  LET u == CHOOSE f : f = [i \in 0..n |->
                    IF i = 0 THEN <<>>
                    ELSE IF g[i] \in {<<>>, <<".">>} THEN f[i - 1]
                    ELSE Append(f[i - 1], g[i])]
         IN /\ u[0] = <<>>
            /\ \A i \in 1..n : u[i] = IF g[i] \in {<<>>, <<".">>} THEN u[i - 1]
                                      ELSE Append(u[i - 1], g[i])
            /\ \A i \in 0..n : u[i] \in Seq(Seq(Chars))
<1> DEFINE X == Seq(Seq(Chars))
           a == <<>>
           G(x, i) == IF g[i] \in {<<>>, <<".">>} THEN x ELSE Append(x, g[i])
           F == [i \in 1..n |-> [x \in X |-> G(x, i)]]
           Eq(f) == f = [i \in 0..n |-> IF i = 0 THEN a ELSE G(f[i - 1], i)]
           u == CHOOSE f : Eq(f)
<1>1. n \in Nat /\ a \in X
  OBVIOUS
<1>2. ASSUME NEW i \in 1..n, NEW x \in X PROVE G(x, i) \in X
  <2>1. g[i] \in Seq(Chars)
    OBVIOUS
  <2>2. Append(x, g[i]) \in Seq(Seq(Chars))
    BY <2>1, AppendProperties
  <2> QED
    BY <2>2
<1> HIDE DEF X, a, G
<1>3. \A i \in 1..n : \A x \in X : F[i][x] = G(x, i)
  OBVIOUS
<1>4. F \in [1..n -> [X -> X]]
  BY <1>2
<1> HIDE DEF F
<1>5. PICK f \in [0..n -> X] : f[0] = a /\ \A i \in 1..n : f[i] = F[i][f[i - 1]]
  BY ONLY <1>1, <1>4, Recursion
<1>6. \A i \in 1..n : f[i - 1] \in X /\ f[i] = G(f[i - 1], i)
  BY <1>3, <1>5
<1>7. Eq(f)
  BY <1>5, <1>6
<1>8. Eq(u)
  BY <1>7
<1> HIDE DEF u, Eq
<1>9. u[0] = a
  BY <1>8 DEF Eq
<1>10. \A i \in 1..n : u[i] = G(u[i - 1], i)
  BY <1>8 DEF Eq
<1>11. \A i \in 0..n : u[i] \in X
  <2>1. u[0] \in X /\ \A i \in 1..n : u[i - 1] \in X => u[i] \in X
    BY <1>1, <1>2, <1>9, <1>10
  <2> QED
    BY ONLY <1>1, <2>1, TypeAlong
<1> QED
  BY <1>9, <1>10, <1>11, Zenon DEF u, Eq, G, X, a

\* Where no segment is "..", the file system's walk enters what Clean collects.
LEMMA WalkIsClean ==
  ASSUME NEW p \in Seq(Chars),
         \A i \in 1..Len(Split(p)) : Split(p)[i] # <<".", ".">>
  PROVE  Walk(Split(p)) = [out |-> FALSE, dirs |-> Clean(p)]
<1> DEFINE g == Split(p)
           n == Len(g)
           u == CHOOSE f : f = [i \in 0..n |->
                    IF i = 0 THEN <<>>
                    ELSE IF g[i] \in {<<>>, <<".">>} THEN f[i - 1]
                    ELSE Append(f[i - 1], g[i])]
           Step(here, s) ==
             IF s \in {<<>>, <<".">>} THEN here
             ELSE IF s = <<".", ".">>
             THEN IF here.dirs = <<>> THEN [here EXCEPT !.out = TRUE]
                  ELSE [here EXCEPT !.dirs = SubSeq(@, 1, Len(@) - 1)]
             ELSE [here EXCEPT !.dirs = Append(@, s)]
           Eq(f) == f = [i \in 0..n |-> IF i = 0 THEN [out |-> FALSE, dirs |-> <<>>]
                                        ELSE Step(f[i - 1], g[i])]
           w == CHOOSE f : Eq(f)
           at(i) == [out |-> FALSE, dirs |-> u[i]]
<1>1. n \in Nat /\ \A i \in 1..n : g[i] \in Seq(Chars) /\ g[i] # <<".", ".">>
  BY SplitType
<1>2. Clean(p) = u[n]
  BY Zenon DEF Clean
<1>3. Walk(g) = w[n]
  BY Zenon DEF Walk
<1> HIDE DEF g, n
<1>4. /\ u[0] = <<>>
      /\ \A i \in 1..n : u[i] = IF g[i] \in {<<>>, <<".">>} THEN u[i - 1]
                                ELSE Append(u[i - 1], g[i])
  BY <1>1, DirsRec, Zenon
<1> HIDE DEF u
<1>5. ASSUME NEW i \in 1..n PROVE Step(at(i - 1), g[i]) = at(i)
  <2>1. CASE g[i] \in {<<>>, <<".">>}
    <3>1. u[i] = u[i - 1]
      BY <2>1, <1>4
    <3> QED
      BY <2>1, <3>1
  <2>2. CASE g[i] \notin {<<>>, <<".">>}
    <3>1. u[i] = Append(u[i - 1], g[i]) /\ g[i] # <<".", ".">>
      BY <2>2, <1>1, <1>4
    <3>2. Step(at(i - 1), g[i]) = [at(i - 1) EXCEPT !.dirs = Append(@, g[i])]
      BY <2>2, <3>1
    <3> QED
      BY <3>1, <3>2
  <2> QED
    BY <2>1, <2>2
<1> HIDE DEF Step
<1>6. at(0) = [out |-> FALSE, dirs |-> <<>>]
  BY <1>4
<1> DEFINE f == [i \in 0..n |-> at(i)]
<1> HIDE DEF at
<1>7. Eq(f)
  <2>1. ASSUME NEW i \in 0..n
        PROVE  f[i] = IF i = 0 THEN [out |-> FALSE, dirs |-> <<>>] ELSE Step(f[i - 1], g[i])
    <3>1. CASE i = 0
      BY <3>1, <1>1, <1>6
    <3>2. CASE i # 0
      <4>1. i \in 1..n /\ i - 1 \in 0..n
        BY <3>2, <1>1
      <4>2. f[i] = at(i) /\ f[i - 1] = at(i - 1)
        BY <4>1
      <4> QED
        BY <3>2, <4>1, <4>2, <1>5
    <3> QED
      BY <3>1, <3>2
  <2>2. f = [i \in 0..n |-> f[i]]
    OBVIOUS
  <2> HIDE DEF f
  <2> QED
    BY <2>1, <2>2
<1>8. Eq(w)
  <2> HIDE DEF f, Eq
  <2> QED
    BY <1>7
<1> HIDE DEF w
<1>9. w[0] = at(0) /\ \A i \in 1..n : w[i] = Step(w[i - 1], g[i])
  <2>1. 0 \in 0..n /\ \A i \in 1..n : i \in 0..n /\ i # 0
    BY <1>1
  <2> QED
    BY <1>8, <2>1, <1>6
<1> DEFINE S == {i \in 0..n : w[i] = at(i)}
<1>10. 0 \in S
  BY <1>9, <1>1
<1>11. \A i \in 1..n : i - 1 \in S => i \in S
  BY <1>1, <1>5, <1>9
<1> HIDE DEF S
<1>12. n \in S
  <2>1. \A i \in 0..n : i \in S
    BY ONLY <1>1, <1>10, <1>11, InductionTo
  <2> QED
    BY <1>1, <2>1
<1>13. w[n] = at(n)
  BY <1>12 DEF S
<1> QED
  BY <1>2, <1>3, <1>13 DEF at, g

\* What is opened in a bundle is below its root, and not in .npack.
LEMMA BundleRelInside ==
  ASSUME NEW p \in Seq(Chars), BundleRel(p) # NoPath
  PROVE  LET w == Walk(Split(p)) IN
         ~ w.out /\ w.dirs = BundleRel(p) /\ w.dirs[1] # Metadata
<1>1. /\ \A i \in 1..Len(Split(p)) : Split(p)[i] # <<".", ".">>
      /\ BundleRel(p) = Clean(p) /\ Clean(p)[1] # Metadata
  BY Zenon DEF BundleRel
<1>2. Walk(Split(p)) = [out |-> FALSE, dirs |-> Clean(p)]
  BY <1>1, WalkIsClean
<1> QED
  BY <1>1, <1>2

\* Taking a layer of encoding off leaves the characters.
LEMMA UnescapeType ==
  ASSUME NEW u \in Seq([c : Chars, enc : Nat])
  PROVE  /\ Text(u) \in Seq(Chars) /\ Text(Unescape(u)) = Text(u)
         /\ Len(Unescape(u)) = Len(u)
         /\ Plain(u) => Plain(Unescape(u))
<1> DEFINE n == Len(u)
           R == [c : Chars, enc : Nat]
<1>0. n \in Nat /\ \A i \in 1..n : u[i] \in [c : Chars, enc : Nat]
  <2>1. u \in Seq(R)
    OBVIOUS
  <2> HIDE DEF R
  <2>2. n \in Nat /\ \A i \in 1..n : u[i] \in R
    BY ONLY <2>1
  <2> QED
    BY <2>2 DEF R
<1>1. /\ Len(Unescape(u)) = n
      /\ \A i \in 1..n : /\ Unescape(u)[i] \in [c : Chars, enc : Nat]
                         /\ Unescape(u)[i].c = u[i].c
                         /\ u[i].enc = 0 => Unescape(u)[i].enc = 0
  <2>1. Unescape(u) = [i \in 1..n |-> [u[i] EXCEPT !.enc = IF @ = 0 THEN 0 ELSE @ - 1]]
    BY DEF Unescape
  <2> HIDE DEF n
  <2>2. Len(Unescape(u)) = n
    BY <2>1, <1>0
  <2>3. \A i \in 1..n : Unescape(u)[i] = [u[i] EXCEPT !.enc = IF @ = 0 THEN 0 ELSE @ - 1]
    BY <2>1
  <2> QED
    BY <2>2, <2>3, <1>0
<1>2. Text(u) = [i \in 1..n |-> u[i].c] /\ Text(Unescape(u)) = [i \in 1..n |-> Unescape(u)[i].c]
  BY <1>1 DEF Text
<1> HIDE DEF n
<1>3. \A i \in 1..n : u[i].c \in Chars /\ Unescape(u)[i].c \in Chars
  BY <1>0, <1>1
<1>4. Text(u) = Text(Unescape(u))
  BY <1>1, <1>2
<1>5. Text(u) \in Seq(Chars)
  BY <1>0, <1>2, <1>3
<1>6. Plain(u) => Plain(Unescape(u))
  BY <1>1 DEF Plain, n
<1> QED
  BY <1>1, <1>4, <1>5, <1>6 DEF n

\* The core of NormalisedIsSafe: what normalisePath accepts.
LEMMA NormalPath ==
  ASSUME NEW u \in Seq([c : Chars, enc : Nat]), NormalisePath(u) # NoPath
  PROVE  LET p == NormalisePath(u) IN
         /\ p \in Seq(Chars) /\ Rooted(p) /\ ~ Forbidden(p) /\ DotIn(LastSegment(p))
         /\ ~ Has(p, "%") /\ (DoubleSlash(p) => TripleSlash(Text(u)))
<1> DEFINE t == Text(Unescape(u))
<1>1. t \in Seq(Chars) /\ t = Text(u)
  BY UnescapeType
<1>2. Rooted(t) /\ ~ Forbidden(Collapse(t)) /\ NormalisePath(u) = AsIndex(Collapse(t))
  BY DEF NormalisePath
<1>3. ~ Has(t, "%")
  <2>1. Plain(Unescape(u)) /\ t = [i \in 1..Len(Unescape(u)) |-> Unescape(u)[i].c]
    BY DEF NormalisePath, Text
  <2>2. Len(t) = Len(Unescape(u))
    BY <2>1, UnescapeType
  <2> QED
    BY <2>1, <2>2 DEF Plain, Has
<1> HIDE DEF t
<1>4. Collapse(t) \in Seq(Chars) /\ Rooted(Collapse(t))
  BY <1>1, <1>2, CollapseType
<1>5. /\ DoubleSlash(AsIndex(Collapse(t))) => TripleSlash(t)
      /\ ~ Has(AsIndex(Collapse(t)), "%")
  BY <1>1, <1>3, <1>4, CollapseSlashes, AsIndexSlashes, Zenon
<1>6. LET p == AsIndex(Collapse(t)) IN
      p \in Seq(Chars) /\ Rooted(p) /\ ~ Forbidden(p) /\ DotIn(LastSegment(p))
  BY <1>2, <1>4, AsIndexSafe, Zenon
<1> QED
  BY <1>1, <1>2, <1>5, <1>6, Zenon

\* The core of ListedIsReachable: the URL of a path that may be listed.
LEMMA ListedPath ==
  ASSUME NEW u \in Seq([c : Chars, enc : Nat]), Plain(u), MayList(Text(u)), ~ DotDotIn(Text(u)),
         ~ \E i \in 1..(Len(Text(u)) - 1) : Text(u)[i] = "/" /\ Text(u)[i + 1] = "/"
  PROVE  NormalisePath(u) = Text(u)
<1> DEFINE t == Text(u)
<1>1. t \in Seq(Chars) /\ Plain(Unescape(u)) /\ Text(Unescape(u)) = t
  BY UnescapeType
<1>2. Collapse(t) = t
  BY <1>1, CollapseNothing, Zenon
<1>3. Rooted(t) /\ DotIn(LastSegment(t)) /\ ~ Forbidden(t)
  BY DEF MayList, HasPathExtension, BadPathChars, Forbidden
<1> HIDE DEF t
<1>4. LastSegment(t) # <<>>
  BY <1>3 DEF DotIn, Has
<1>5. AsIndex(t) = t
  BY <1>3, <1>4 DEF AsIndex
<1> QED
  BY <1>1, <1>2, <1>3, <1>5 DEF NormalisePath, t

Tags == [len : Nat, path : Seq(Chars), hash : STRING]

\* The tags in the other order are the tags.
LEMMA BackwardsIs ==
  ASSUME NEW ts \in Seq(Tags)
  PROVE  LET n == Len(ts)
             bs == Backwards(ts) IN
         /\ n \in Nat /\ bs \in Seq(Tags) /\ Len(bs) = n
         /\ \A i \in 1..n : n + 1 - i \in 1..n /\ bs[i] = ts[n + 1 - i] /\ ts[i] = bs[n + 1 - i]
         /\ Backwards(bs) = ts
<1> DEFINE n == Len(ts)
           bs == Backwards(ts)
<1>1. n \in Nat /\ \A i \in 1..n : ts[i] \in Tags
  OBVIOUS
<1>2. ts = [i \in 1..n |-> ts[i]]
  OBVIOUS
<1>3. bs = [i \in 1..n |-> ts[n + 1 - i]]
  BY DEF Backwards
<1> HIDE DEF n, bs
<1>4. ASSUME NEW i \in 1..n PROVE n + 1 - i \in 1..n /\ n + 1 - (n + 1 - i) = i
  BY <1>1
<1>5. \A i \in 1..n : bs[i] = ts[n + 1 - i] /\ bs[i] \in Tags
  BY <1>1, <1>3, <1>4
<1>6. bs \in Seq(Tags) /\ Len(bs) = n
  BY <1>1, <1>3, <1>4
<1>7. \A i \in 1..n : bs[n + 1 - i] = ts[i]
  BY <1>4, <1>5
<1>8. Backwards(bs) = [i \in 1..n |-> bs[n + 1 - i]]
  BY <1>6 DEF Backwards
<1>9. Backwards(bs) = ts
  BY <1>2, <1>7, <1>8
<1> QED
  BY <1>1, <1>4, <1>5, <1>6, <1>7, <1>9 DEF n, bs

\* A position holds a valid tag if the mirrored one of the other order does.
LEMMA BackwardsValid ==
  ASSUME NEW ts \in Seq(Tags), NEW i \in 1..Len(ts)
  PROVE  /\ i \in ValidPaths(ts) <=> Len(ts) + 1 - i \in ValidPaths(Backwards(ts))
         /\ i \in ValidPaths(Backwards(ts)) <=> Len(ts) + 1 - i \in ValidPaths(ts)
<1> DEFINE n == Len(ts)
           bs == Backwards(ts)
<1>1. /\ n \in Nat /\ Len(bs) = n
      /\ \A j \in 1..n : n + 1 - j \in 1..n /\ bs[j] = ts[n + 1 - j] /\ ts[j] = bs[n + 1 - j]
  BY BackwardsIs, Zenon
<1>2. i \in 1..n
  OBVIOUS
<1>3. ValidPaths(ts) = {j \in 1..n : PathError(ts[j]) = "none"}
  BY DEF ValidPaths
<1>4. ValidPaths(bs) = {j \in 1..n : PathError(bs[j]) = "none"}
  BY <1>1 DEF ValidPaths
<1> HIDE DEF n, bs
<1>5. n + 1 - i \in 1..n /\ bs[i] = ts[n + 1 - i] /\ ts[i] = bs[n + 1 - i]
  BY <1>1, <1>2
<1>6. /\ i \in ValidPaths(ts) <=> n + 1 - i \in ValidPaths(bs)
      /\ i \in ValidPaths(bs) <=> n + 1 - i \in ValidPaths(ts)
  BY <1>2, <1>3, <1>4, <1>5
<1> QED
  BY <1>6 DEF n, bs

\* Both orders hold the same tags, and the same valid ones.
LEMMA BackwardsTags ==
  ASSUME NEW ts \in Seq(Tags)
  PROVE  LET bs == Backwards(ts) IN
         /\ RangeOf(bs) = RangeOf(ts)
         /\ {bs[i] : i \in ValidPaths(bs)} = {ts[i] : i \in ValidPaths(ts)}
         /\ ValidPaths(bs) = {} <=> ValidPaths(ts) = {}
         /\ bs = <<>> <=> ts = <<>>
<1> DEFINE n == Len(ts)
           bs == Backwards(ts)
           V == ValidPaths(ts)
           W == ValidPaths(bs)
<1>1. /\ n \in Nat /\ bs \in Seq(Tags) /\ Len(bs) = n
      /\ \A j \in 1..n : n + 1 - j \in 1..n /\ bs[j] = ts[n + 1 - j] /\ ts[j] = bs[n + 1 - j]
  BY BackwardsIs, Zenon
<1>2. \A i \in 1..n : (i \in V <=> n + 1 - i \in W) /\ (i \in W <=> n + 1 - i \in V)
  BY BackwardsValid
<1>3. V \subseteq 1..n /\ W \subseteq 1..n
  BY <1>1 DEF ValidPaths
<1>4. RangeOf(ts) = {ts[i] : i \in 1..n} /\ RangeOf(bs) = {bs[i] : i \in 1..n}
  BY <1>1 DEF RangeOf
<1>5. bs = <<>> <=> ts = <<>>
  BY <1>1
<1> HIDE DEF n, bs, V, W
<1>6. RangeOf(bs) = RangeOf(ts)
  BY <1>1, <1>4
<1>7. \A i \in V : n + 1 - i \in W /\ ts[i] = bs[n + 1 - i]
  BY <1>1, <1>2, <1>3
<1>8. \A i \in W : n + 1 - i \in V /\ bs[i] = ts[n + 1 - i]
  BY <1>1, <1>2, <1>3
<1>9. {bs[i] : i \in W} = {ts[i] : i \in V}
  <2>1. ASSUME NEW i \in V PROVE ts[i] \in {bs[j] : j \in W}
    BY <1>7
  <2>2. ASSUME NEW i \in W PROVE bs[i] \in {ts[j] : j \in V}
    BY <1>8
  <2> QED
    BY <2>1, <2>2
<1>10. W = {} <=> V = {}
  BY <1>7, <1>8
<1> QED
  BY <1>5, <1>6, <1>9, <1>10 DEF bs, V, W

\* A path that comes twice comes twice in the other order.
LEMMA RepeatedBackwards ==
  ASSUME NEW ts \in Seq(Tags), Repeated(ts)
  PROVE  Repeated(Backwards(ts))
<1> DEFINE n == Len(ts)
           bs == Backwards(ts)
<1>1. PICK i, j \in ValidPaths(ts) : i # j /\ ts[i].path = ts[j].path
  BY DEF Repeated
<1>2. i \in 1..n /\ j \in 1..n
  BY <1>1 DEF ValidPaths
<1>3. n + 1 - i \in ValidPaths(bs) /\ n + 1 - j \in ValidPaths(bs)
  BY <1>1, <1>2, BackwardsValid
<1>4. n \in Nat /\ ts[i] = bs[n + 1 - i] /\ ts[j] = bs[n + 1 - j]
  BY <1>2, BackwardsIs, Zenon
<1> HIDE DEF n, bs
<1>5. n + 1 - i # n + 1 - j
  BY <1>1, <1>2, <1>4
<1>6. bs[n + 1 - i].path = bs[n + 1 - j].path
  BY <1>1, <1>4
<1>7. Repeated(bs)
  BY <1>3, <1>5, <1>6 DEF Repeated
<1> QED
  BY <1>7 DEF bs

\* How often a tag occurs does not depend on the order.
LEMMA SameCount ==
  ASSUME NEW ts \in Seq(Tags), NEW t
  PROVE  LET bs == Backwards(ts) IN
         Cardinality({i \in ValidPaths(bs) : bs[i] = t})
           = Cardinality({i \in ValidPaths(ts) : ts[i] = t})
<1> DEFINE n == Len(ts)
           bs == Backwards(ts)
           A == {i \in ValidPaths(ts) : ts[i] = t}
           B == {i \in ValidPaths(bs) : bs[i] = t}
           f == [i \in A |-> n + 1 - i]
<1>1. /\ n \in Nat /\ Len(bs) = n
      /\ \A j \in 1..n : n + 1 - j \in 1..n /\ bs[j] = ts[n + 1 - j] /\ ts[j] = bs[n + 1 - j]
  BY BackwardsIs, Zenon
<1>2. \A i \in 1..n : /\ i \in ValidPaths(ts) <=> n + 1 - i \in ValidPaths(bs)
                      /\ i \in ValidPaths(bs) <=> n + 1 - i \in ValidPaths(ts)
  BY BackwardsValid
<1>3. ValidPaths(ts) \subseteq 1..n /\ ValidPaths(bs) \subseteq 1..n
  BY <1>1 DEF ValidPaths
<1> HIDE DEF n, bs
<1>4. \A i \in A : i \in 1..n /\ n + 1 - i \in B
  BY <1>1, <1>2, <1>3
<1>5. \A i \in B : i \in 1..n /\ n + 1 - i \in A /\ n + 1 - (n + 1 - i) = i
  BY <1>1, <1>2, <1>3
<1>6. IsFiniteSet(A)
  <2>1. IsFiniteSet(1..n)
    BY <1>1, FS_Interval
  <2>2. A \in SUBSET (1..n)
    BY <1>4
  <2> HIDE DEF A
  <2> QED
    BY <2>1, <2>2, FS_Subset
<1> HIDE DEF A, B
<1>7. f \in Bijection(A, B)
  <2>1. f \in [A -> B]
    BY <1>4
  <2>2. \A i, j \in A : f[i] = f[j] => i = j
    BY <1>1, <1>4
  <2>3. \A j \in B : \E i \in A : f[i] = j
    BY <1>5
  <2> HIDE DEF f
  <2> QED
    BY <2>1, <2>2, <2>3, Fun_IsBij
<1>8. ExistsBijection(A, B)
  BY <1>7 DEF ExistsBijection
<1>9. Cardinality(B) = Cardinality(A)
  BY <1>6, <1>8, FS_Bijection
<1> QED
  BY <1>9 DEF A, B, bs

\* Nor does the aggregate hash.
LEMMA SameAggregate ==
  ASSUME NEW ts \in Seq(Tags)
  PROVE  AggregateHash(Backwards(ts), ValidPaths(Backwards(ts))) = AggregateHash(ts, ValidPaths(ts))
<1> DEFINE bs == Backwards(ts)
<1>1. {bs[i] : i \in ValidPaths(bs)} = {ts[i] : i \in ValidPaths(ts)}
  BY BackwardsTags, Zenon
<1>2. \A t : Cardinality({i \in ValidPaths(bs) : bs[i] = t})
               = Cardinality({i \in ValidPaths(ts) : ts[i] = t})
  BY SameCount, Zenon
<1> HIDE DEF bs
<1>3. AggregateHash(bs, ValidPaths(bs)) = AggregateHash(ts, ValidPaths(ts))
  BY <1>1, <1>2 DEF AggregateHash
<1> QED
  BY <1>3 DEF bs

\* The order of the path tags does not change the verdict on a manifest.
LEMMA SameErrors ==
  ASSUME NEW e \in Events
  PROVE  Errors([e EXCEPT !.paths = Backwards(e.paths)]) = Errors(e)
<1> DEFINE ts == e.paths
           bs == Backwards(ts)
           b == [e EXCEPT !.paths = bs]
<1>1. ts \in Seq(Tags)
  BY NamesAssumption DEF Tags
<1>2. DOMAIN e = {"check", "forbidden", "kind", "key", "id", "ds", "paths", "xs", "as", "As"}
  BY NamesAssumption
<1> HIDE DEF bs
<1>3. /\ b.paths = bs /\ b.check = e.check /\ b.forbidden = e.forbidden /\ b.kind = e.kind
      /\ b.ds = e.ds /\ b.xs = e.xs /\ b.as = e.as /\ b.As = e.As
  BY <1>2
<1> HIDE DEF ts, b
<1>4. /\ RangeOf(bs) = RangeOf(ts) /\ (ValidPaths(bs) = {} <=> ValidPaths(ts) = {})
      /\ bs = <<>> <=> ts = <<>>
  BY <1>1, BackwardsTags, Zenon DEF bs
<1>5. bs \in Seq(Tags) /\ Len(bs) = Len(ts) /\ Backwards(bs) = ts
  BY <1>1, BackwardsIs, Zenon DEF bs
<1>6. Repeated(bs) <=> Repeated(ts)
  BY <1>1, <1>5, RepeatedBackwards, Zenon DEF bs
<1>7. AggregateHash(bs, ValidPaths(bs)) = AggregateHash(ts, ValidPaths(ts))
  BY <1>1, SameAggregate DEF bs
<1>8. PathErrors(b) = PathErrors(e)
  BY <1>3, <1>4, <1>5, <1>6 DEF PathErrors, Error, ts
<1>9. XErrors(b) = XErrors(e)
  BY <1>3, <1>4, <1>7 DEF XErrors, Error, ts
<1>10. DErrors(b) = DErrors(e) /\ ReferenceErrors(b) = ReferenceErrors(e)
  BY <1>3 DEF DErrors, ReferenceErrors
<1>11. Errors(b) = Errors(e)
  BY <1>3, <1>8, <1>9, <1>10 DEF Errors
<1> QED
  BY <1>11 DEF b, bs, ts

\* In a manifest without errors every path tag is valid and has a path of its own.
LEMMA NoErrors ==
  ASSUME NEW e \in Events, Errors(e) = {}
  PROVE  /\ ValidPaths(e.paths) = 1..Len(e.paths)
         /\ \A i \in 1..Len(e.paths) : e.paths[i].len = 3
         /\ ~ Repeated(e.paths)
<1> DEFINE ts == e.paths
<1>1. PathErrors(e) = {}
  BY Zenon DEF Errors
<1>2. ~ Repeated(ts) /\ {PathError(t) : t \in RangeOf(ts)} \ {"none"} = {}
  <2>1. Error("duplicate_path", Repeated(ts)) = {}
    BY <1>1 DEF PathErrors
  <2>2. {PathError(t) : t \in RangeOf(ts)} \ {"none"} = {}
    BY <1>1 DEF PathErrors
  <2> QED
    BY <2>1, <2>2 DEF Error
<1>3. \A i \in 1..Len(ts) : PathError(ts[i]) = "none"
  BY <1>2 DEF RangeOf
<1>4. \A i \in 1..Len(ts) : ts[i].len = 3
  BY <1>3 DEF PathError
<1>5. ValidPaths(ts) = 1..Len(ts)
  BY <1>3 DEF ValidPaths
<1> QED
  BY <1>2, <1>4, <1>5

\* serveSite reads the hash of each path, of such tags.
LEMMA SiteMapIs ==
  ASSUME NEW ts, Len(ts) \in Nat, ValidPaths(ts) = 1..Len(ts),
         \A i \in 1..Len(ts) : ts[i].len = 3, ~ Repeated(ts)
  PROVE  /\ SiteMap(ts) = [p \in {ts[i].path : i \in 1..Len(ts)} |-> SiteMap(ts)[p]]
         /\ \A i \in 1..Len(ts) : SiteMap(ts)[ts[i].path] = ts[i].hash
<1> DEFINE n == Len(ts)
           read == {i \in 1..n : ts[i].len >= 3}
           At(p, i) == ts[i].path = p /\ \A j \in read : ts[j].path = p => j <= i
           D == {ts[i].path : i \in 1..n}
<1>1. read = 1..n
  OBVIOUS
<1>2. SiteMap(ts) = [p \in {ts[i].path : i \in read} |-> ts[CHOOSE i \in read : At(p, i)].hash]
  BY DEF SiteMap
<1>3. \A i, j \in 1..n : ts[i].path = ts[j].path => i = j
  BY DEF Repeated
<1> HIDE DEF read, n
<1>4. SiteMap(ts) = [p \in D |-> ts[CHOOSE i \in read : At(p, i)].hash]
  BY <1>1, <1>2
<1>5. ASSUME NEW i \in 1..n PROVE SiteMap(ts)[ts[i].path] = ts[i].hash
  <2> DEFINE p == ts[i].path
             z == CHOOSE j \in read : At(p, j)
  <2>1. i \in read /\ At(p, i)
    <3>1. i <= i
      BY DEF n
    <3> QED
      BY <1>1, <1>3, <3>1
  <2>2. z \in read /\ At(p, z)
    <3> HIDE DEF At
    <3> QED
      BY <2>1
  <2>3. z = i
    BY <1>1, <1>3, <2>2
  <2>4. SiteMap(ts)[p] = ts[z].hash
    BY <1>4, Zenon
  <2> QED
    BY <2>3, <2>4
<1> QED
  BY <1>4, <1>5 DEF n

\* The core of ValidIsAMap: the tags of a valid manifest, in both orders.
LEMMA ValidMap ==
  ASSUME NEW e \in Events, Errors(e) = {}
  PROVE  LET ts == e.paths IN
         /\ Listed(ts) = {<<p, SiteMap(ts)[p]>> : p \in DOMAIN SiteMap(ts)}
         /\ SiteMap(Backwards(ts)) = SiteMap(ts)
<1> DEFINE ts == e.paths
           n == Len(ts)
           bs == Backwards(ts)
           D == {ts[i].path : i \in 1..n}
<1>1. ts \in Seq(Tags)
  BY NamesAssumption DEF Tags
<1>2. ValidPaths(ts) = 1..n /\ (\A i \in 1..n : ts[i].len = 3) /\ ~ Repeated(ts)
  BY NoErrors
<1> HIDE DEF ts
<1>3. /\ n \in Nat /\ bs \in Seq(Tags) /\ Len(bs) = n /\ Backwards(bs) = ts
      /\ \A i \in 1..n : n + 1 - i \in 1..n /\ bs[i] = ts[n + 1 - i] /\ ts[i] = bs[n + 1 - i]
  BY <1>1, BackwardsIs, Zenon
<1>4. \A i \in 1..n : i \in ValidPaths(bs)
  BY <1>1, <1>2, <1>3, BackwardsValid
<1>5. ValidPaths(bs) = 1..n
  BY <1>3, <1>4 DEF ValidPaths
<1>6. ~ Repeated(bs)
  BY <1>2, <1>3, RepeatedBackwards
<1>7. /\ SiteMap(ts) = [p \in D |-> SiteMap(ts)[p]]
      /\ \A i \in 1..n : SiteMap(ts)[ts[i].path] = ts[i].hash
  BY <1>2, <1>3, SiteMapIs
<1> HIDE DEF n, bs
<1>8. \A i \in 1..n : bs[i].len = 3
  BY <1>2, <1>3
<1>9. /\ SiteMap(bs) = [p \in {bs[i].path : i \in 1..n} |-> SiteMap(bs)[p]]
      /\ \A i \in 1..n : SiteMap(bs)[bs[i].path] = bs[i].hash
  BY <1>3, <1>5, <1>6, <1>8, SiteMapIs
<1>10. {bs[i].path : i \in 1..n} = D
  <2>1. ASSUME NEW i \in 1..n PROVE bs[i].path \in D
    BY <1>3
  <2>2. ASSUME NEW i \in 1..n PROVE \E j \in 1..n : ts[i].path = bs[j].path
    BY <1>3
  <2> QED
    BY <2>1, <2>2
<1>11. \A p \in D : SiteMap(bs)[p] = SiteMap(ts)[p]
  <2> SUFFICES ASSUME NEW i \in 1..n PROVE SiteMap(bs)[ts[i].path] = SiteMap(ts)[ts[i].path]
    OBVIOUS
  <2>1. n + 1 - i \in 1..n /\ ts[i] = bs[n + 1 - i]
    BY <1>3
  <2>2. SiteMap(bs)[bs[n + 1 - i].path] = bs[n + 1 - i].hash
    BY <2>1, <1>9
  <2> QED
    BY <2>1, <2>2, <1>7
<1>12. SiteMap(bs) = SiteMap(ts)
  BY <1>7, <1>9, <1>10, <1>11
<1>13. Listed(ts) = {<<p, SiteMap(ts)[p]>> : p \in DOMAIN SiteMap(ts)}
  <2>1. Listed(ts) = {<<ts[i].path, ts[i].hash>> : i \in 1..n}
    BY <1>2 DEF Listed, n
  <2>2. DOMAIN SiteMap(ts) = D
    BY <1>7
  <2>3. Listed(ts) = {<<ts[i].path, SiteMap(ts)[ts[i].path]>> : i \in 1..n}
    BY <2>1, <1>7
  <2> QED
    BY <2>2, <2>3
<1> QED
  BY <1>12, <1>13 DEF ts, bs

\* After a call its argument is one of the instance and its result is the function's.
PathCall ==
  /\ call = "normalisePath" =>
       /\ arg \in Urls
       /\ result = [path |-> NormalisePath(arg),
                    rel |-> IF NormalisePath(arg) = NoPath THEN NoPath
                            ELSE BundleRel(NormalisePath(arg))]
  /\ call = "Validate" => arg \in Events /\ result = Errors(arg)

\* PathCall is inductive: a call is made once.
LEMMA PathCallAlways == NamesSpec => []PathCall
<1>1. NamesInit => PathCall
  BY DEF NamesInit, PathCall
<1>2. PathCall /\ [NamesNext]_namesVars => PathCall'
  <2> SUFFICES ASSUME PathCall, [NamesNext]_namesVars PROVE PathCall'
    OBVIOUS
  <2>1. CASE \E l \in HostLabels : CallDecodeLabel(l)
    BY <2>1, Zenon DEF CallDecodeLabel, Returns, PathCall
  <2>2. CASE \E u \in Urls : CallNormalisePath(u)
    BY <2>2, Zenon DEF CallNormalisePath, Returns, PathCall
  <2>3. CASE \E e \in Events : CallValidate(e)
    BY <2>3, Zenon DEF CallValidate, Returns, PathCall
  <2>4. CASE UNCHANGED namesVars
    BY <2>4 DEF namesVars, PathCall
  <2> QED
    BY <2>1, <2>2, <2>3, <2>4 DEF NamesNext
<1> QED
  BY <1>1, <1>2, PTL DEF NamesSpec

\* However a request's path is encoded, what normalisePath returns is rooted, has no
\* "..", backslash, control character or "%", and two slashes in a row only of three;
\* it names a file with its content type in its last segment, and is opened below a
\* bundle's root and not in .npack.
THEOREM PathsNormalisedSafely == NamesSpec => []NormalisedIsSafe
<1>1. PathCall => NormalisedIsSafe
  <2> DEFINE p == NormalisePath(arg)
             w == Walk(Split(p))
  <2> SUFFICES ASSUME PathCall, call = "normalisePath", result.path # NoPath
               PROVE  NormalisedIsSafe
    BY Zenon DEF NormalisedIsSafe
  <2>1. /\ arg \in Seq([c : Chars, enc : Nat])
        /\ result = [path |-> p, rel |-> IF p = NoPath THEN NoPath ELSE BundleRel(p)]
    BY NamesAssumption DEF PathCall
  <2>2. result.path = p /\ p # NoPath /\ result.rel = BundleRel(p)
    <3> HIDE DEF p
    <3> QED
      BY <2>1
  <2>3. /\ p \in Seq(Chars) /\ Rooted(p) /\ ~ Forbidden(p) /\ DotIn(LastSegment(p))
        /\ ~ Has(p, "%") /\ (DoubleSlash(p) => TripleSlash(Text(arg)))
    BY <2>1, <2>2, NormalPath, Zenon
  <2> HIDE DEF p
  <2>4. ~ Has(Extension(p), "/")
    BY <2>3, ExtensionInSegment
  <2>5. BundleRel(p) # NoPath => ~ w.out /\ w.dirs = BundleRel(p) /\ w.dirs[1] # Metadata
    BY <2>3, BundleRelInside, Zenon
  <2>6. ~ Has(p, "B") /\ ~ Has(p, "^") /\ ~ DotDotIn(p)
    BY <2>3, Zenon DEF Forbidden
  <2> QED
    BY <2>2, <2>3, <2>4, <2>5, <2>6, Zenon DEF NormalisedIsSafe
<1> QED
  BY <1>1, PathCallAlways, PTL

\* A path that a manifest may list is the normal form of its own URL, unless it has
\* "//" or, within a name, "..".
THEOREM ListedPathsReachable == NamesSpec => []ListedIsReachable
<1>1. PathCall => ListedIsReachable
  <2> SUFFICES ASSUME PathCall, call = "normalisePath", Plain(arg), MayList(Text(arg)),
                      ~ DotDotIn(Text(arg)),
                      ~ \E i \in 1..(Len(Text(arg)) - 1) :
                          Text(arg)[i] = "/" /\ Text(arg)[i + 1] = "/"
               PROVE  result.path = Text(arg)
    BY Zenon DEF ListedIsReachable, DoubleSlash
  <2>1. arg \in Seq([c : Chars, enc : Nat])
    BY NamesAssumption DEF PathCall
  <2> DEFINE p == NormalisePath(arg)
  <2>2. result = [path |-> p, rel |-> IF p = NoPath THEN NoPath ELSE BundleRel(p)]
    BY Zenon DEF PathCall
  <2>3. result.path = p
    <3> HIDE DEF p
    <3> QED
      BY <2>2
  <2>4. p = Text(arg)
    BY <2>1, ListedPath, Zenon
  <2> QED
    BY <2>3, <2>4
<1> QED
  BY <1>1, PathCallAlways, PTL

\* A valid manifest lists each path once, what serveSite reads of it is what was
\* validated, and the order of path tags changes no verdict.
THEOREM ManifestsAreMaps == NamesSpec => []ValidIsAMap
<1>1. PathCall => ValidIsAMap
  <2> SUFFICES ASSUME PathCall, call = "Validate" PROVE ValidIsAMap
    BY Zenon DEF ValidIsAMap
  <2>1. arg \in Events /\ result = Errors(arg)
    BY DEF PathCall
  <2>2. Errors([arg EXCEPT !.paths = Backwards(arg.paths)]) = result
    BY <2>1, SameErrors
  <2>3. result = {} =>
          /\ Listed(arg.paths) = {<<p, SiteMap(arg.paths)[p]>> : p \in DOMAIN SiteMap(arg.paths)}
          /\ SiteMap(Backwards(arg.paths)) = SiteMap(arg.paths)
    BY <2>1, ValidMap, Zenon
  <2> QED
    BY <2>2, <2>3, Zenon DEF ValidIsAMap
<1> QED
  BY <1>1, PathCallAlways, PTL
=============================================================================
