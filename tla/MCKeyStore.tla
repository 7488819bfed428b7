----------------------------- MODULE MCKeyStore -----------------------------
(***************************************************************************)
(* Small instances of KeyStore: processes that race for one path.          *)
(***************************************************************************)
EXTENDS KeyStore, TLC

Interchangeable == Permutations(Keygen \ Forced)
=============================================================================
