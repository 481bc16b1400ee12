---------------------------- MODULE MCSigningKeys ----------------------------
(* Model-checking instances of SigningKeys: three keys, one validator and   *)
(* one page guard.                                                          *)
EXTENDS SigningKeys, TLC

Sym == Permutations(Keys) \cup Permutations(Kids)
=============================================================================
