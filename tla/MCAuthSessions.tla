--------------------------- MODULE MCAuthSessions ---------------------------
EXTENDS AuthSessions, TLC
Sym == Permutations(Procs) \cup Permutations(Tokens) \cup Permutations(Families)
=============================================================================
