----------------------------- MODULE MCFetcher -----------------------------
(* An instance of Fetcher for TLC: a public, a private and a zoned address, the *)
(* local Blossom server's and another loopback one.                            *)
EXTENDS Fetcher

CONSTANTS p1, p2, pub, priv, local, other, zoned
=============================================================================
