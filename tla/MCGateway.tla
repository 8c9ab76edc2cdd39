----------------------------- MODULE MCGateway -----------------------------
(* Instances of Gateway for TLC.  The hosts: the apex of a first domain, a      *)
(* root site of either key, a snapshot and a refused label in it, and a second  *)
(* domain.  Either domain is custom in some configurations and the gateway's in *)
(* others.                                                                      *)
EXTENDS Gateway

CONSTANTS k1, k2, p1, p2, d1, d2, a1, a2

L(t, k) == [type |-> t, key |-> k]
H(d, l) == [domain |-> d, label |-> l]
MCHosts == {H(d1, L("apex", k1)), H(d1, L("root", k1)), H(d1, L("named", k2)),
            H(d1, L("snapshot", k1)), H(d1, L("bad", k1)), H(d2, L("apex", k1)),
            H(d2, L("named", k2))}

Attach(d, k) == [h \in {H(d, L("apex", k1))} |-> L("root", k)]
None == [h \in {} |-> L("root", k1)]

Config(d, m, al, cu, li) ==
  [domain |-> d, mode |-> m, allow |-> al, custom |-> cu, listen |-> li,
   valid |-> TRUE, buildable |-> TRUE, bindable |-> TRUE]

\* Hosted has a custom domain whose key is not on the allowlist; it is the gateway's
\* own in Moved, where the other domain is custom and its key is allowed.  Open has a
\* Blossom address that is taken; Invalid is refused by Load, and Broken has a
\* directory that cannot be made.
Hosted == Config(d1, "hosted", {k1}, Attach(d2, k2), a1)
Moved == Config(d2, "hosted", {k2}, Attach(d1, k2), Off)
Open == [Config(d1, "open", {}, None, a2) EXCEPT !.bindable = FALSE]
Invalid == [Hosted EXCEPT !.valid = FALSE]
Broken == [Moved EXCEPT !.buildable = FALSE]

MCConfigs == {Hosted, Moved, Open, Invalid, Broken}
=============================================================================
