---------------------------- MODULE MCBlobStore ----------------------------
(* An instance of BlobStore for TLC.                                        *)
EXTENDS BlobStore, TLC
CONSTANTS b1, b2, b3, p1, p2
MCBlobs == {b1, b2, b3}
MCProcs == {p1, p2}
\* Two blobs fit a quota of 3 together; the third does not fit with the second.
MCSize == (b1 :> 1) @@ (b2 :> 2) @@ (b3 :> 2)
\* The quota may be lowered by a restart or a reload, below the size of one blob.
MCQuotas == {1, 3}
\* A removal of the smallest blob may fail.
MCStubborn == {b1}
Sym == Permutations(MCProcs) \union Permutations({b2, b3})
=============================================================================
