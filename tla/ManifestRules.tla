--------------------------- MODULE ManifestRules ---------------------------
(***************************************************************************)
(* nip5a.Validate (internal/nip5a/manifest.go): the errors of a manifest   *)
(* event, the paths it lists and the label of its site.  An event is a     *)
(* record: whether its id and signature check, whether a host key signed   *)
(* it, its kind, key and id, and its tags by name in their order.  Tags    *)
(* whose contents only have a shape to be checked are TRUE or FALSE.       *)
(***************************************************************************)
EXTENDS Labels, Paths, FiniteSets

CONSTANT MaxPaths      \* the most path tags a manifest may have

RangeOf(s) == {s[i] : i \in 1..Len(s)}

\* A path tag [len, path, hash] by the first rule it breaks.
PathError(t) == CASE t.len # 3 -> "bad_path_shape"
                  [] t.len = 3 /\ ~ Rooted(t.path) -> "relative_path"
                  [] t.len = 3 /\ Rooted(t.path) /\ ~ HasPathExtension(t.path) -> "no_extension"
                  [] t.len = 3 /\ Rooted(t.path) /\ HasPathExtension(t.path) /\ BadPathChars(t.path)
                       -> "bad_path_chars"
                  [] t.len = 3 /\ MayList(t.path) /\ t.hash = "bad" -> "bad_hash_hex"
                  [] OTHER -> "none"

\* validPaths, as the positions of the path tags that break no rule.
ValidPaths(ts) == {i \in 1..Len(ts) : PathError(ts[i]) = "none"}

\* AggregateHash of the tags at some positions: the lines are sorted, so it depends
\* on how often each occurs.
AggregateHash(ts, at) == [t \in {ts[i] : i \in at} |-> Cardinality({i \in at : ts[i] = t})]

\* A mutant of Repeated: a path may be listed again with another hash.
RepeatedTag(ts) == \E i, j \in ValidPaths(ts) : i # j /\ ts[i] = ts[j]

\* A path that was seen before comes again.
Repeated(ts) == \E i, j \in ValidPaths(ts) : i # j /\ ts[i].path = ts[j].path

Error(name, holds) == IF holds THEN {name} ELSE {}

DErrors(e) ==
  Error("missing_d", e.kind = "named" /\ e.ds = <<>>)
  \union Error("bad_d", e.kind = "named" /\ e.ds # <<>> /\ (Len(e.ds) > 1 \/ ~ IsValidD(e.ds[1])))
  \union Error("d_on_root", e.kind = "root" /\ e.ds # <<>>)

PathErrors(e) ==
  Error("no_paths", e.paths = <<>>)
  \union ({PathError(t) : t \in RangeOf(e.paths)} \ {"none"})
  \union Error("duplicate_path", Repeated(e.paths))
  \union Error("oversize_path_count", Len(e.paths) > MaxPaths)

\* An x tag is [ok, hash]: whether its shape is right, and its hash.
XErrors(e) ==
  Error("missing_aggregate_x", e.kind = "snapshot" /\ e.xs = <<>>)
  \union Error("multiple_aggregate_x", e.kind = "snapshot" /\ Len(e.xs) > 1)
  \union Error("bad_x_shape", \E x \in RangeOf(e.xs) : ~ x.ok)
  \union Error("bad_aggregate_x", /\ ValidPaths(e.paths) # {}
                                  /\ \E x \in RangeOf(e.xs) :
                                       /\ x.ok
                                       /\ x.hash # AggregateHash(e.paths, ValidPaths(e.paths)))

\* The a and A tags.
ReferenceErrors(e) ==
  IF e.kind # "snapshot" /\ e.as = <<>> /\ e.As = <<>> THEN {}
  ELSE Error("missing_a", e.as = <<>>)
       \union Error("multiple_a", Len(e.as) > 1)
       \union Error("multiple_A", Len(e.As) > 1)
       \union Error("missing_A", e.as # <<>> /\ e.As = <<>> /\ e.kind # "snapshot")
       \union Error("bad_a_shape", FALSE \in RangeOf(e.as))
       \union Error("bad_A_shape", FALSE \in RangeOf(e.As))

\* Validate's errors: a bad id or signature is the only one.
Errors(e) ==
  IF e.check # "good" THEN {e.check}
  ELSE Error("forbidden_signer", e.forbidden)
       \union Error("bad_kind", e.kind \notin {"root", "named", "snapshot"})
       \union DErrors(e) \union PathErrors(e) \union XErrors(e) \union ReferenceErrors(e)

\* The site of the verdict; its label is LabelOf of it.
SiteNamed(e) == SiteOf(e.kind,
                       IF e.kind = "snapshot" THEN e.id ELSE e.key,
                       IF e.kind = "named" THEN e.ds[1] ELSE <<>>)

\* serveSite reads the tags again: any path tag of three or more, the last one of
\* a path counting.
SiteMap(ts) ==
  LET read == {i \in 1..Len(ts) : ts[i].len >= 3} IN
  [p \in {ts[i].path : i \in read} |->
     ts[CHOOSE i \in read : /\ ts[i].path = p
                            /\ \A j \in read : ts[j].path = p => j <= i].hash]
=============================================================================
