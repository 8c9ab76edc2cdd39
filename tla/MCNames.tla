------------------------------ MODULE MCNames ------------------------------
(* An instance of Names for TLC: 8 keys in two digits of base 4, and all labels *)
(* of up to five characters; all paths of up to three of the characters below,  *)
(* and the rooted ones of five; manifests with up to two tags of each name, and *)
(* with three path tags, which is one too many.                                 *)
EXTENDS Names

CONSTANTS MaxLabel, MaxUrl, MaxRooted

UpTo(n, S) == UNION {[1..k -> S] : k \in 0..n}

MCHostLabels == UpTo(MaxLabel, 0..OtherChar)

Ch(c, n) == [c |-> c, enc |-> n]
UrlChars == {Ch("/", 0), Ch("/", 1), Ch(".", 0), Ch(".", 1), Ch(".", 2), Ch("a", 0),
             Ch("N", 0), Ch("B", 1), Ch("^", 1), Ch("%", 0)}
MCUrls == UpTo(MaxUrl, UrlChars)
          \union {<<Ch("/", 0)>> \o s : s \in [1..(MaxRooted - 1) -> UrlChars]}

\* Path tags: two files, the second hash for one of them, and a tag for each rule.
Tag(n, p, h) == [len |-> n, path |-> p, hash |-> h]
File == <<"/", "a", ".", "a">>
PathTags == {Tag(3, File, "h1"), Tag(3, File, "h2"), Tag(3, <<"/", "I">>, "h1"),
             Tag(2, File, "h1"), Tag(4, <<"/", "I">>, "h2"), Tag(3, <<"a", ".", "a">>, "h1"),
             Tag(3, <<"/", "a">>, "h1"), Tag(3, <<"/", ".", ".", "/", "I">>, "h1"),
             Tag(3, File, "bad")}

\* x tags: none, the right aggregate, a wrong one, one of the wrong shape, two.
X(ok, ts) == [ok |-> ok, hash |-> AggregateHash(ts, ValidPaths(ts))]
XTags(ts) == {<<>>, <<X(TRUE, ts)>>, <<X(TRUE, <<>>)>>, <<X(FALSE, ts)>>, <<X(TRUE, ts), X(TRUE, ts)>>}

Event(c, f, k, ds, ps, xs, as, bs) ==
  [check |-> c, forbidden |-> f, kind |-> k, key |-> 5, id |-> 6,
   ds |-> ds, paths |-> ps, xs |-> xs, as |-> as, As |-> bs]
Kinds == {"root", "named", "snapshot", "other"}
Identifiers == {<<>>, <<<<1>>>>, <<<<3, Dash>>>>, <<<<Dash, 2>>>>, <<<<1>>, <<2>>>>}
PathLists == UpTo(2, PathTags)
             \union [1..3 -> {Tag(3, File, "h1"), Tag(3, <<"/", "I">>, "h1"), Tag(3, <<"/", ".", "a">>, "h2")}]

\* All combinations of kind, identifiers, path tags and x tags, and of kind and
\* references.
MCEvents ==
  UNION {{Event("good", FALSE, k, ds, ps, xs, <<>>, <<>>) :
            k \in Kinds, ds \in Identifiers, xs \in XTags(ps)} : ps \in PathLists}
  \union
  {Event(c, f, k, <<>>, <<Tag(3, File, "h1")>>, <<X(TRUE, <<Tag(3, File, "h1")>>)>>, as, bs) :
     c \in {"good", "bad_id", "bad_signature"}, f \in BOOLEAN, k \in Kinds,
     as \in UpTo(2, BOOLEAN), bs \in UpTo(2, BOOLEAN)}
=============================================================================
