---------------------------- MODULE MCCertResolver ----------------------------
(* A small instance of CertResolver for TLC.                               *)
EXTENDS CertResolver, TLC

Exact == <<"a", "x", "com">>
Wild == <<"*", "x", "com">>

MCHosts == {Exact}
MCNames == {Exact, Wild}
WriterSymmetry == Permutations(Writers)
=============================================================================
