---------------------------- MODULE MCKeyStore ----------------------------
(***************************************************************************)
(* An instance of KeyStore for TLC: one shell beside main(), two keys, and *)
(* a flash that fails in every way.                                        *)
(***************************************************************************)
EXTENDS KeyStore

MCShells == {"shell"}
MCKeys == {"k1", "k2"}

=============================================================================
