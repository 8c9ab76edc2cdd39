------------------------------- MODULE Paths -------------------------------
(***************************************************************************)
(* What happens to a path on its way to a file: normalisePath              *)
(* (internal/server/server.go), the path rules of a manifest               *)
(* (internal/nip5a/manifest.go) and bundleRel (internal/npk/npk.go).       *)
(*                                                                         *)
(* A path is a sequence of characters, of which the ones the rules tell    *)
(* apart are kept: "/", ".", a letter "a", "N" for the letters npack, a    *)
(* backslash "B", a control character "^" and "%".  "I" stands for         *)
(* index.html.  A character of a request's URL may be percent-encoded, and *)
(* the encoding encoded again: enc says how many times.                    *)
(***************************************************************************)
EXTENDS Naturals, Sequences

Chars == {"/", ".", "a", "N", "B", "^", "%", "I"}

\* No path: the request is refused.
NoPath == <<>>

Has(s, c) == \E i \in 1..Len(s) : s[i] = c
DotDotIn(s) == \E i \in 1..(Len(s) - 1) : s[i] = "." /\ s[i + 1] = "."
DotIn(s) == Has(s, ".") \/ Has(s, "I")
Rooted(s) == Len(s) > 0 /\ s[1] = "/"

\* strings.Split(p, "/").
Split(p) ==
  LET upTo[i \in 0..Len(p)] ==
        IF i = 0 THEN << <<>> >>
        ELSE IF p[i] = "/" THEN Append(upTo[i - 1], <<>>)
        ELSE [upTo[i - 1] EXCEPT ![Len(upTo[i - 1])] = Append(@, p[i])]
  IN upTo[Len(p)]
LastSegment(p) == Split(p)[Len(Split(p))]

----------------------------------------------------------------------------
\* net/http and url.PathUnescape each take one layer of encoding off.
Unescape(w) == [i \in 1..Len(w) |-> [w[i] EXCEPT !.enc = IF @ = 0 THEN 0 ELSE @ - 1]]
Plain(w) == \A i \in 1..Len(w) : w[i].enc = 0 /\ w[i].c # "%"
Text(w) == [i \in 1..Len(w) |-> w[i].c]

\* strings.Join(strings.Split(p, "//"), "/"): pairs from the left, so that three
\* slashes become two.
Collapse(p) ==
  LET from[i \in 1..(Len(p) + 1)] ==
        IF i > Len(p) THEN <<>>
        ELSE IF i < Len(p) /\ p[i] = "/" /\ p[i + 1] = "/" THEN <<"/">> \o from[i + 2]
        ELSE <<p[i]>> \o from[i + 1]
  IN from[1]

TrimSlash(p) == IF Len(p) > 0 /\ p[Len(p)] = "/" THEN SubSeq(p, 1, Len(p) - 1) ELSE p

\* A path that ends with "/" or whose last segment has no dot is a directory's.
AsIndex(p) == IF LastSegment(p) = <<>> \/ ~ DotIn(LastSegment(p))
              THEN TrimSlash(p) \o <<"/", "I">> ELSE p

Forbidden(p) == Has(p, "B") \/ Has(p, "^") \/ DotDotIn(p)

\* A mutant of NormalisePath: the rules are applied to what came from net/http.
NormalisePathEncoded(u) ==
  LET p == Collapse(Text(Unescape(u))) IN
  IF \/ ~ Plain(Unescape(u)) \/ ~ Rooted(p)
     \/ \E i \in 1..Len(u) : u[i].enc = 0 /\ u[i].c \in {"B", "^"}
     \/ \E i \in 1..(Len(u) - 1) : \A j \in {i, i + 1} : u[j].enc = 0 /\ u[j].c = "."
  THEN NoPath ELSE AsIndex(p)

\* normalisePath of r.URL.Path, which net/http has decoded once already.
NormalisePath(u) ==
  LET decoded == Unescape(u)
      p == Collapse(Text(decoded)) IN
  IF ~ Plain(decoded) \/ ~ Rooted(Text(decoded)) \/ Forbidden(p) THEN NoPath ELSE AsIndex(p)

\* contentTypeFor looks at what follows the last dot of the path.
Extension(p) ==
  LET dots == {i \in 1..Len(p) : p[i] \in {".", "I"}}
  IN IF dots = {} THEN <<>> ELSE SubSeq(p, CHOOSE i \in dots : \A j \in dots : j <= i, Len(p))

----------------------------------------------------------------------------
\* A mutant of HasPathExtension: the manifest may list a path without a dot.
HasPathExtensionAny(p) == LastSegment(p) # <<>>

HasPathExtension(p) == LET last == LastSegment(p) IN
                       /\ DotIn(last) /\ last # <<".">>
                       /\ ~ (Len(last) > 1 /\ last[1] = "." /\ last[2] = ".")
BadPathChars(p) == \/ Has(p, "B") \/ Has(p, "^")
                   \/ \E i \in 1..Len(Split(p)) : Split(p)[i] = <<".", ".">>

\* Validate's rule for the path of a path tag.
MayList(p) == Rooted(p) /\ HasPathExtension(p) /\ ~ BadPathChars(p)

----------------------------------------------------------------------------
Metadata == <<".", "N">>

\* filepath.Clean of a rooted path without "..": its segments.
Clean(p) ==
  LET segs == Split(p)
      upTo[i \in 0..Len(segs)] ==
        IF i = 0 THEN <<>>
        ELSE IF segs[i] \in {<<>>, <<".">>} THEN upTo[i - 1]
        ELSE Append(upTo[i - 1], segs[i])
  IN upTo[Len(segs)]

\* bundleRel: the segments below the bundle's root.
BundleRel(p) ==
  IF \/ ~ Rooted(p) \/ Has(p, "B")
     \/ \E i \in 1..Len(Split(p)) : Split(p)[i] = <<".", ".">>
     \/ Clean(p) = <<>>
  THEN NoPath
  ELSE IF Clean(p)[1] = Metadata THEN NoPath ELSE Clean(p)

\* What the file system makes of segments: the directories entered from the root,
\* or "out" once ".." left it.
Walk(segs) ==
  LET at[i \in 0..Len(segs)] ==
        IF i = 0 THEN [out |-> FALSE, dirs |-> <<>>]
        ELSE LET here == at[i - 1]
                 s == segs[i] IN
             IF s \in {<<>>, <<".">>} THEN here
             ELSE IF s = <<".", ".">>
             THEN IF here.dirs = <<>> THEN [here EXCEPT !.out = TRUE]
                  ELSE [here EXCEPT !.dirs = SubSeq(@, 1, Len(@) - 1)]
             ELSE [here EXCEPT !.dirs = Append(@, s)]
  IN at[Len(segs)]
=============================================================================
