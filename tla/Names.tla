------------------------------- MODULE Names -------------------------------
(***************************************************************************)
(* The gateway's pure functions on names: DecodeLabel on the label of a    *)
(* host, normalisePath and bundleRel on the path of a request, Validate on *)
(* a manifest.  A behaviour is one call with any argument of the instance, *)
(* and the properties compare the result with what it should mean.         *)
(***************************************************************************)
EXTENDS ManifestRules

CONSTANTS HostLabels,  \* labels of Host headers
          Urls,        \* paths of requests, as net/http passes them on
          Events       \* manifest events

\* A manifest event has its fields, its key and id are keys, and its d and path
\* tags hold text.
ASSUME NamesAssumption ==
  /\ HostLabels \subseteq Seq(Nat)
  /\ Urls \subseteq Seq([c : Chars, enc : Nat])
  /\ \A e \in Events :
       /\ DOMAIN e = {"check", "forbidden", "kind", "key", "id", "ds", "paths", "xs", "as", "As"}
       /\ {e.key, e.id} \subseteq LabelKeys
       /\ e.ds \in Seq(Seq(Nat))
       /\ e.paths \in Seq([len : Nat, path : Seq(Chars), hash : STRING])

VARIABLES call,    \* the function called: none yet at first
          arg,     \* its argument
          result   \* what it returned

namesVars == <<call, arg, result>>

NamesInit == call = "none" /\ arg = <<>> /\ result = <<>>

Returns(f, a, r) == call = "none" /\ call' = f /\ arg' = a /\ result' = r

\* parseHost decodes the left-most label.
CallDecodeLabel(l) == Returns("DecodeLabel", l, DecodeLabel(l))

\* handlePublic normalises the path; serveFromNpk gives it to BundleStore.Open.
CallNormalisePath(u) ==
  LET p == NormalisePath(u) IN
  Returns("normalisePath", u, [path |-> p, rel |-> IF p = NoPath THEN NoPath ELSE BundleRel(p)])

\* Resolver.Manifest validates the event.
CallValidate(e) == Returns("Validate", e, Errors(e))

NamesNext == \/ \E l \in HostLabels : CallDecodeLabel(l)
             \/ \E u \in Urls : CallNormalisePath(u)
             \/ \E e \in Events : CallValidate(e)
NamesSpec == NamesInit /\ [][NamesNext]_namesVars

----------------------------------------------------------------------------
IsSite(s) == /\ s.type \in {"root", "named", "snapshot"} /\ s.key \in LabelKeys
             /\ IF s.type = "named" THEN IsValidD(s.d) ELSE s.d = <<>>

\* DecodeLabel accepts a label only as the canonical label of a site, so two labels
\* never name one site (a custom domain may name it too), and the allowlist's answer
\* for a site does not depend on how its label is written.
DecodedIsCanonical ==
  (call = "DecodeLabel" /\ result # None) => IsSite(result) /\ LabelOf(result) = arg

\* A valid manifest's label is decoded to the site that published it: the forms of
\* labels do not shadow each other.
ValidIsReachable ==
  (call = "Validate" /\ result = {}) =>
    IsSite(SiteNamed(arg)) /\ DecodeLabel(LabelOf(SiteNamed(arg))) = SiteNamed(arg)

\* A valid manifest lists each path once, and what serveSite reads from its tags is
\* what was validated, of tags in any order; and the verdict on any manifest does
\* not depend on the order of its path tags.
Listed(ts) == {<<ts[i].path, ts[i].hash>> : i \in ValidPaths(ts)}
Backwards(ts) == [i \in 1..Len(ts) |-> ts[Len(ts) + 1 - i]]
ValidIsAMap ==
  call = "Validate" =>
    LET ts == arg.paths IN
    /\ Errors([arg EXCEPT !.paths = Backwards(ts)]) = result
    /\ result = {} => /\ Listed(ts) = {<<p, SiteMap(ts)[p]>> : p \in DOMAIN SiteMap(ts)}
                      /\ SiteMap(Backwards(ts)) = SiteMap(ts)

DoubleSlash(s) == \E i \in 1..(Len(s) - 1) : s[i] = "/" /\ s[i + 1] = "/"
TripleSlash(s) == \E i \in 1..(Len(s) - 2) : s[i] = "/" /\ s[i + 1] = "/" /\ s[i + 2] = "/"

\* However a request's path is encoded, the path that is looked up is rooted, has
\* no "..", backslash, control character or "%", names a file, and takes its content
\* type from its last segment; and the file a bundle opens for it is, as the file
\* system walks the path, below the bundle's root and not in .npack.  An empty
\* segment is left only by three slashes in a row.  So normalisePath keeps less than
\* it says (server.go:520-523): "collapse //" makes two of three slashes and
\* "empty-ish segments" are not rejected; and a doubly encoded slash or dot, which
\* "is always rejected" (fuzz_test.go:47-49), is accepted, since net/http has
\* decoded it once before: what holds is that the rules apply to the text after
\* both decodings.
NormalisedIsSafe ==
  LET p == result.path
      w == Walk(Split(p)) IN
  (call = "normalisePath" /\ p # NoPath) =>
    /\ Rooted(p) /\ ~ Has(p, "B") /\ ~ Has(p, "^") /\ ~ DotDotIn(p) /\ ~ Has(p, "%")
    /\ DoubleSlash(p) => TripleSlash(Text(arg))
    /\ DotIn(LastSegment(p)) /\ ~ Has(Extension(p), "/")
    /\ result.rel # NoPath => ~ w.out /\ w.dirs = result.rel /\ w.dirs[1] # Metadata

\* A path that a manifest may list is the normal form of its own URL, so that a
\* listed file can be asked for; not so, for the code, if it has "//", ".." within
\* a name, or "%".  Of the ".." within a name fuzz_test.go:61-63 has that the shared
\* corpus calls it invalid, but Validate accepts it in a manifest.
ListedIsReachable ==
  (call = "normalisePath" /\ Plain(arg) /\ MayList(Text(arg))) =>
    LET p == Text(arg) IN
    result.path = p \/ DotDotIn(p) \/ DoubleSlash(p)
=============================================================================
