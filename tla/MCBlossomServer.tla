-------------------------- MODULE MCBlossomServer --------------------------
(* Instances of BlossomServer for TLC.                                      *)
EXTENDS BlossomServer, TLC
CONSTANTS b1, b2, b3, p1, p2, k1, k2
MCBlobs == {b1, b2, b3}
MCTwoBlobs == {b1, b2}
MCProcs == {p1, p2}
\* With a quota of 4: b1 and b2 fit, and so do b1 and b3, but not all three.
MCSize == (b1 :> 1) @@ (b2 :> 2) @@ (b3 :> 3)
MCTwoSizes == (b1 :> 1) @@ (b2 :> 2)
MCKeys == {k1, k2}
MCAllow == {k1}
Sym == Permutations(MCProcs)
=============================================================================
