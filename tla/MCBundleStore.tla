--------------------------- MODULE MCBundleStore ---------------------------
(* An instance of BundleStore for TLC.                                      *)
EXTENDS BundleStore
CONSTANTS m1, m2, p1, p2
MCMembers == {m1, m2}
MCProcs == {p1, p2}
F(m) == [name |-> m, kind |-> "file"]
E(m, k) == [name |-> m, kind |-> k]
\* Two files; a directory, a file twice and a global header; a forbidden entry
\* at the end, where files were already written.
MCArchives == {<<F(m1), F(m2)>>,
               <<E(m1, "dir"), F(m1), F(m1), E(m2, "other")>>,
               <<F(m1), E(m2, "link")>>,
               <<F(m1), E(m2, "escape")>>,
               <<F(m1), E(m2, "corrupt")>>}
=============================================================================
