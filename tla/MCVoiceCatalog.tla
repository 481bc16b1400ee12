--------------------------- MODULE MCVoiceCatalog ---------------------------
(* Model-checking instances of VoiceCatalog: a user with one voice and one  *)
(* yet to be created, a user with none, one voice of the system and one     *)
(* that is yet to be seeded.                                                *)
EXTENDS VoiceCatalog, TLC

CONSTANTS u1, u2, v1, v2, s1, s2, r1, r2

VoiceOwner == (v1 :> u1) @@ (v2 :> u1) @@ (s1 :> SystemUser) @@ (s2 :> SystemUser)

Sym == Permutations(Requests)
=============================================================================
