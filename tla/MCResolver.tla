----------------------------- MODULE MCResolver -----------------------------
(* Instances of Resolver for TLC: three versions of a manifest, two   *)
(* of them equally new, of which each relay comes to store two.              *)
EXTENDS Resolver

CONSTANTS e1, e2, e3, p1, p2, r1, r2

MCCreatedAt(e) == IF e = e1 THEN 1 ELSE 2

MCCarries(r) == IF r = r1 THEN {e1, e2} ELSE {e2, e3}
MCCarriesAll(r) == Events
=============================================================================
