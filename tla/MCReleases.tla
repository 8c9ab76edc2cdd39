----------------------------- MODULE MCReleases -----------------------------
(* Instances of Releases for TLC: two complete releases of a site, the newer  *)
(* of which may be revoked, a still newer one that lacks a tag, and the       *)
(* catalogues an operator may have of them.                                   *)
EXTENDS Releases

CONSTANTS v1, v2, v3, p1, p2, r1, r2

MCCreatedAt(e) == CASE e = v1 -> 1 [] e = v2 -> 2 [] e = v3 -> 3
MCCarries(r) == IF r = r1 THEN {v1, v2} ELSE {v1, v3}
MCCatalogues == {Nothing,
                 [releases |-> {v1}, revoked |-> {}],
                 [releases |-> {v1, v2}, revoked |-> {}],
                 [releases |-> {v1, v2}, revoked |-> {v2}]}
=============================================================================
