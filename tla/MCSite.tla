------------------------------- MODULE MCSite -------------------------------
(* Instances of Site for TLC: a page and the 404 page, two versions of the     *)
(* site and an empty file; the second archive lacks the 404 page.              *)
EXTENDS Site, TLC

CONSTANTS c1, home, page, t1, t2, t3, t0

MCManifests == {home :> t1 @@ page :> t3, home :> t2, page :> t3, home :> t0}
MCArchives == {home :> t1 @@ page :> t3, home :> t2}
=============================================================================
